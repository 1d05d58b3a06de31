-------------------------- MODULE LoadJobsProofs --------------------------
(***************************************************************************)
(* For any number of jobs, bodies, intervals and bounds: what a checkpoint *)
(* covers is durable, a complete job skipped nothing it read, no job is    *)
(* processed twice at once, and a cancel is final.                         *)
(***************************************************************************)
EXTENDS LoadJobs, FiniteSetTheorems, TLAPS

Good(j) == {r \in 1 .. Len(Body[j]) : Body[j][r] = "good"}

\* Row r of job j needs no further run.
Settled(j, r) ==
    /\ r \in written[j] \cup errs[j]
    /\ r \in written[j] => r \in embeds[j] \/ embedErr[j]

Active    == {"row", "flush", "embed", "persist", "stamp"}
Buffering == {"row", "flush"}
Flushed   == {"embed", "persist", "stamp"}

-----------------------------------------------------------------------------
(* The inductive invariant. *)

\* An upload that was not accepted has no row.
Fresh == \A j \in Jobs : upload[j] \in {"none", "rejected"} => status[j] = "none"

\* Before the recovery is over nothing runs.
Cold == boot \in {"down", "reconciled"} => ~loopOn /\ \A x \in Runs : work[x].pc = "off"

\* A job that was resumed or claimed is not received any more, so that the loop
\* and a resume never both have it; one never claimed has no checkpoint.
OneOwner ==
    \A j \in Jobs :
        /\ work[<<j, "resume">>].pc # "off" => status[j] \notin {"none", "received"}
        /\ Busy(<<j, "loop">>) => work[<<j, "resume">>].pc = "off"
        /\ Busy(<<j, "loop">>) => status[j] \notin {"none", "received"}
        /\ status[j] \in {"none", "received"} => ckpt[j] = 0

\* Only rows that parse are written.
WrittenGood == \A j \in Jobs : written[j] \subseteq Good(j)

\* The file holds a prefix of the body.
ArrivedOK == \A j \in Jobs : arrived[j] <= Len(Body[j])

\* Where a run starts: at the checkpoint.
StartOK(x) ==
    /\ x[2] = "loop" => work[x].from = 0
    /\ work[x].pc = "claim" /\ x[2] = "resume" => work[x].from = ckpt[x[1]]
    /\ work[x].pc = "open" => work[x].from = ckpt[x[1]]
    /\ work[x].pc \in {"claim", "open"} => work[x].buf = {}

\* What an active run has read is written, reported, or in its hands, and what is
\* written is queued for embedding, or in its hands too.
CoverOK(x) ==
    work[x].pc \in Active =>
        /\ ckpt[x[1]] <= work[x].idx
        /\ \A r \in 1 .. work[x].idx :
              /\ r \in written[x[1]] \cup errs[x[1]] \cup work[x].buf \cup work[x].errs
              /\ r \in written[x[1]] =>
                    \/ r \in embeds[x[1]] \/ embedErr[x[1]]
                    \/ r \in work[x].queue \/ work[x].embErr

\* The buffers hold rows past the checkpoint and are empty after a flush.
BufferOK(x) ==
    /\ work[x].pc \in Buffering =>
          /\ work[x].buf \subseteq Good(x[1])
          /\ work[x].buf \subseteq work[x].queue
          /\ \A r \in work[x].buf : ckpt[x[1]] < r /\ r <= work[x].idx
    /\ work[x].pc \in Flushed => work[x].buf = {}
    /\ work[x].pc = "persist" => work[x].queue = {} \/ work[x].embErr

\* A run past the end of its file has read all of it, and its job is not complete.
EndOK(x) ==
    /\ work[x].pc \in {"flush", "embed", "persist", "stamp"} /\ work[x].why = "end"
          => eof[x[1]] <= work[x].idx
    /\ work[x].pc = "stamp" => work[x].why = "end" /\ work[x].errs = {}
    /\ work[x].pc \in Active \cup {"open"} => status[x[1]] # "complete"
    /\ work[x].pc = "claim" /\ x[2] = "resume" => status[x[1]] # "complete"

RunOK == \A x \in Runs : StartOK(x) /\ CoverOK(x) /\ BufferOK(x) /\ EndOK(x)

IInv ==
    /\ TypeOK /\ Fresh /\ Cold /\ OneOwner /\ WrittenGood /\ ArrivedOK
    /\ RunOK /\ CheckpointDurable /\ NothingSkipped

-----------------------------------------------------------------------------
(* What a step of a run does to the locals of the runs. *)

\* The locals of every run but x are as they were.
OthersKept(x) == \A y \in Runs \ {x} : work'[y] = work[y]

\* The locals of x that hold its rows, and those that hold its place.
HandsKept(x) ==
    /\ work'[x].buf = work[x].buf /\ work'[x].errs = work[x].errs
    /\ work'[x].queue = work[x].queue /\ work'[x].embErr = work[x].embErr

PlaceKept(x) ==
    /\ work'[x].from = work[x].from /\ work'[x].idx = work[x].idx
    /\ work'[x].why = work[x].why

LEMMA IdleType == Idle \in Run
  BY DEF Idle, Run, PCs

LEMMA RunParts ==
  ASSUME NEW x \in Runs
  PROVE  /\ x[1] \in Jobs /\ x[2] \in Callers
         /\ x = <<x[1], x[2]>>
         /\ x[2] = "loop" \/ x[2] = "resume"
  BY DEF Runs, Callers

LEMMA WorkTyped ==
  ASSUME TypeOK
  PROVE  work \in [Runs -> Run]
  BY Zenon DEF TypeOK

LEMMA RunTyped ==
  ASSUME TypeOK, NEW x \in Runs
  PROVE  work[x] \in Run
  BY WorkTyped

LEMMA BecomeFacts ==
  ASSUME TypeOK, NEW x \in Runs, NEW w \in Run, Become(x, w)
  PROVE  work' \in [Runs -> Run] /\ OthersKept(x) /\ work'[x] = w
  BY WorkTyped DEF Become, OthersKept

LEMMA ToFacts ==
  ASSUME TypeOK, NEW x \in Runs, NEW p \in PCs, To(x, p)
  PROVE  /\ work' \in [Runs -> Run] /\ OthersKept(x)
         /\ HandsKept(x)
         /\ PlaceKept(x)
         /\ work'[x].pc = p
<1> DEFINE w == [work[x] EXCEPT !.pc = p]
<1>1. work[x] \in Run
    BY RunTyped
<1>3. /\ w \in Run
      /\ w.buf = work[x].buf /\ w.errs = work[x].errs /\ w.queue = work[x].queue /\ w.embErr = work[x].embErr
      /\ w.from = work[x].from /\ w.idx = work[x].idx /\ w.why = work[x].why
      /\ w.pc = p
    BY <1>1 DEF Run, PCs
<1>4. Become(x, w)
    BY DEF To
<1> HIDE DEF w
<1> QED
    BY <1>3, <1>4, BecomeFacts DEF HandsKept, PlaceKept

LEMMA OpenFacts ==
  ASSUME TypeOK, NEW x \in Runs, Open(x)
  PROVE  /\ work' \in [Runs -> Run] /\ OthersKept(x)
         /\ HandsKept(x)
         /\ work'[x].pc = "row" /\ work'[x].idx = work[x].from /\ work'[x].from = work[x].from
<1> DEFINE w == [work[x] EXCEPT !.pc = "row", !.idx = FirstRow(x),
                                   !.flushed = FirstRow(x), !.saved = FirstRow(x)]
<1>1. work[x] \in Run
    BY RunTyped
<1>2. FirstRow(x) \in Nat /\ FirstRow(x) = work[x].from
    BY <1>1 DEF Run, FirstRow
<1>3. /\ w \in Run
      /\ w.buf = work[x].buf /\ w.errs = work[x].errs /\ w.queue = work[x].queue /\ w.embErr = work[x].embErr
      /\ w.pc = "row" /\ w.idx = work[x].from /\ w.from = work[x].from
    BY <1>1, <1>2 DEF Run, PCs
<1>4. Become(x, w)
    BY DEF Open
<1> HIDE DEF w
<1> QED
    BY <1>3, <1>4, BecomeFacts DEF HandsKept, PlaceKept

LEMMA BadRowFacts ==
  ASSUME TypeOK, NEW x \in Runs, BadRow(x)
  PROVE  /\ work' \in [Runs -> Run] /\ OthersKept(x)
         /\ work'[x].pc = "row" /\ work'[x].from = work[x].from
         /\ work[x].idx \in Nat /\ work'[x].idx = work[x].idx + 1
         /\ work'[x].buf = work[x].buf /\ work'[x].queue = work[x].queue /\ work'[x].embErr = work[x].embErr
         /\ work'[x].errs = work[x].errs \cup {work[x].idx + 1}
<1> DEFINE r == work[x].idx + 1
           E == work[x].errs \cup {r}
           w == [work[x] EXCEPT !.idx = r, !.errs = E, !.bad = TRUE]
<1>1. work[x] \in Run /\ work[x].pc = "row"
    BY RunTyped DEF BadRow
<1>2. work[x].idx \in Nat /\ r \in Nat /\ E \in SUBSET Nat
    BY <1>1 DEF Run
<1>3. Become(x, w)
    BY DEF BadRow
<1> HIDE DEF r, E
<1>4. /\ w \in Run /\ w.pc = "row" /\ w.from = work[x].from /\ w.idx = r
      /\ w.buf = work[x].buf /\ w.queue = work[x].queue /\ w.embErr = work[x].embErr
      /\ w.errs = E
    BY <1>1, <1>2 DEF Run
<1> HIDE DEF w
<1>5. work' \in [Runs -> Run] /\ OthersKept(x) /\ work'[x] = w
    BY <1>3, <1>4, BecomeFacts
<1> QED
    BY <1>2, <1>4, <1>5 DEF r, E

LEMMA GoodRowFacts ==
  ASSUME TypeOK, NEW x \in Runs, GoodRow(x)
  PROVE  /\ work' \in [Runs -> Run] /\ OthersKept(x)
         /\ work'[x].from = work[x].from
         /\ work[x].idx \in Nat /\ work'[x].idx = work[x].idx + 1
         /\ \/ work'[x].pc = "row"
            \/ work'[x].pc = "flush" /\ work'[x].why # "end"
         /\ work'[x].errs = work[x].errs /\ work'[x].embErr = work[x].embErr
         /\ work'[x].buf = work[x].buf \cup {work[x].idx + 1}
         /\ work'[x].queue = work[x].queue \cup {work[x].idx + 1}
<1> DEFINE r == work[x].idx + 1
           B == work[x].buf \cup {r}
           Q == work[x].queue \cup {r}
           p == IF Due(x, r) = "nothing" THEN "row" ELSE "flush"
           y == IF Due(x, r) = "nothing" THEN work[x].why ELSE Due(x, r)
           w == [work[x] EXCEPT !.idx = r, !.buf = B, !.queue = Q, !.pc = p, !.why = y]
<1>1. work[x] \in Run
    BY RunTyped
<1>2. work[x].idx \in Nat /\ r \in Nat /\ B \in SUBSET Nat /\ Q \in SUBSET Nat
    BY <1>1 DEF Run
<1>3. /\ p \in {"row", "flush"} /\ y \in {"progress", "checkpoint", "end"}
      /\ p = "flush" => y # "end"
    BY <1>1 DEF Run, Due
<1>4. Become(x, w)
    BY DEF GoodRow
<1> HIDE DEF r, B, Q, p, y
<1>5. /\ w \in Run /\ w.pc = p /\ w.why = y /\ w.from = work[x].from /\ w.idx = r
      /\ w.buf = B /\ w.queue = Q /\ w.embErr = work[x].embErr /\ w.errs = work[x].errs
    BY <1>1, <1>2, <1>3 DEF Run, PCs
<1> HIDE DEF w
<1>6. work' \in [Runs -> Run] /\ OthersKept(x) /\ work'[x] = w
    BY <1>4, <1>5, BecomeFacts
<1> QED
    BY <1>2, <1>3, <1>5, <1>6 DEF r, B, Q

LEMMA EofFacts ==
  ASSUME TypeOK, NEW x \in Runs, Eof(x)
  PROVE  /\ work' \in [Runs -> Run] /\ OthersKept(x)
         /\ HandsKept(x)
         /\ work'[x].pc = "flush" /\ work'[x].why = "end"
         /\ work'[x].idx = work[x].idx /\ work'[x].from = work[x].from
<1> DEFINE w == [work[x] EXCEPT !.pc = "flush", !.why = "end"]
<1>1. work[x] \in Run
    BY RunTyped
<1>3. /\ w \in Run
      /\ w.buf = work[x].buf /\ w.errs = work[x].errs /\ w.queue = work[x].queue /\ w.embErr = work[x].embErr
      /\ w.pc = "flush" /\ w.why = "end"
      /\ w.idx = work[x].idx /\ w.from = work[x].from
    BY <1>1 DEF Run, PCs
<1>4. Become(x, w)
    BY DEF Eof
<1> HIDE DEF w
<1> QED
    BY <1>3, <1>4, BecomeFacts DEF HandsKept, PlaceKept

LEMMA FlushFacts ==
  ASSUME TypeOK, NEW x \in Runs, NEW lost, Flush(x, lost)
  PROVE  /\ work' \in [Runs -> Run] /\ OthersKept(x)
         /\ PlaceKept(x)
         /\ work'[x].pc = "embed" /\ work'[x].buf = {}
         /\ work'[x].errs = work[x].errs \cup lost
         /\ work'[x].queue = work[x].queue /\ work'[x].embErr = work[x].embErr
<1> DEFINE w == [work[x] EXCEPT !.pc = "embed", !.buf = {}, !.errs = @ \cup lost,
                                   !.wrote = @ \/ work[x].buf \ lost # {}, !.bad = @ \/ lost # {}]
<1>1. work[x] \in Run
    BY RunTyped
<1>2. lost \subseteq work[x].buf
    BY <1>1 DEF Run, Flush
<1>3. /\ w \in Run
      /\ w.from = work[x].from /\ w.idx = work[x].idx /\ w.why = work[x].why
      /\ w.pc = "embed" /\ w.buf = {}
      /\ w.errs = work[x].errs \cup lost
      /\ w.queue = work[x].queue /\ w.embErr = work[x].embErr
    BY <1>1, <1>2 DEF Run, PCs
<1>4. Become(x, w)
    BY DEF Flush
<1> HIDE DEF w
<1> QED
    BY <1>3, <1>4, BecomeFacts DEF HandsKept, PlaceKept

LEMMA EmbedFacts ==
  ASSUME TypeOK, NEW x \in Runs, Embed(x)
  PROVE  /\ work' \in [Runs -> Run] /\ OthersKept(x)
         /\ PlaceKept(x)
         /\ work'[x].pc = "persist" /\ work'[x].queue = {}
         /\ work'[x].buf = work[x].buf /\ work'[x].errs = work[x].errs /\ work'[x].embErr = work[x].embErr
<1> DEFINE w == [work[x] EXCEPT !.pc = "persist", !.queue = {}]
<1>1. work[x] \in Run
    BY RunTyped
<1>3. /\ w \in Run
      /\ w.from = work[x].from /\ w.idx = work[x].idx /\ w.why = work[x].why
      /\ w.pc = "persist" /\ w.queue = {}
      /\ w.buf = work[x].buf /\ w.errs = work[x].errs /\ w.embErr = work[x].embErr
    BY <1>1 DEF Run, PCs
<1>4. Become(x, w)
    BY DEF Embed
<1> HIDE DEF w
<1> QED
    BY <1>3, <1>4, BecomeFacts DEF HandsKept, PlaceKept

LEMMA EmbedFailsFacts ==
  ASSUME TypeOK, NEW x \in Runs, EmbedFails(x)
  PROVE  /\ work' \in [Runs -> Run] /\ OthersKept(x)
         /\ PlaceKept(x)
         /\ work'[x].pc = "persist" /\ work'[x].embErr = TRUE
         /\ work'[x].buf = work[x].buf /\ work'[x].errs = work[x].errs /\ work'[x].queue = work[x].queue
<1> DEFINE w == [work[x] EXCEPT !.pc = "persist", !.embErr = TRUE, !.bad = TRUE]
<1>1. work[x] \in Run
    BY RunTyped
<1>3. /\ w \in Run
      /\ w.from = work[x].from /\ w.idx = work[x].idx /\ w.why = work[x].why
      /\ w.pc = "persist" /\ w.embErr = TRUE
      /\ w.buf = work[x].buf /\ w.errs = work[x].errs /\ w.queue = work[x].queue
    BY <1>1 DEF Run, PCs
<1>4. Become(x, w)
    BY DEF EmbedFails
<1> HIDE DEF w
<1> QED
    BY <1>3, <1>4, BecomeFacts DEF HandsKept, PlaceKept

LEMMA PersistFacts ==
  ASSUME TypeOK, NEW x \in Runs, Persist(x)
  PROVE  /\ work' \in [Runs -> Run] /\ OthersKept(x)
         /\ work'[x].from = work[x].from /\ work'[x].idx = work[x].idx
         /\ work'[x].buf = work[x].buf /\ work'[x].queue = work[x].queue
         /\ work'[x].errs = {} /\ work'[x].embErr = FALSE
         /\ \/ work'[x].pc = "flush" /\ work'[x].why = "checkpoint" /\ work[x].why = "progress"
            \/ work'[x].pc = "stamp" /\ work'[x].why = "end" /\ work[x].why = "end"
            \/ work'[x].pc = "row" /\ work'[x].why = work[x].why
<1> DEFINE r == work[x].idx
           more == work[x].why = "progress" /\ r - work[x].saved >= CheckpointInterval
           v == IF work[x].why = "checkpoint" THEN r ELSE work[x].saved
           y == IF more THEN "checkpoint" ELSE work[x].why
           p == IF more THEN "flush" ELSE IF work[x].why = "end" THEN "stamp" ELSE "row"
           w == [work[x] EXCEPT !.errs = {}, !.embErr = FALSE, !.flushed = r,
                                !.saved = v, !.why = y, !.pc = p]
<1>1. work[x] \in Run
    BY RunTyped
<1>2. r \in Nat /\ v \in Nat /\ y \in {"progress", "checkpoint", "end"}
    BY <1>1 DEF Run
<1>3. \/ p = "flush" /\ y = "checkpoint" /\ work[x].why = "progress"
      \/ p = "stamp" /\ y = "end" /\ work[x].why = "end"
      \/ p = "row" /\ y = work[x].why
    BY <1>1 DEF Run
<1>4. Become(x, w)
    BY DEF Persist
<1> HIDE DEF v, y, p
<1>5. /\ w \in Run /\ w.pc = p /\ w.why = y /\ w.from = work[x].from /\ w.idx = work[x].idx
      /\ w.buf = work[x].buf /\ w.queue = work[x].queue /\ w.embErr = FALSE /\ w.errs = {}
    BY <1>1, <1>2, <1>3 DEF Run, PCs
<1> HIDE DEF w
<1>6. work' \in [Runs -> Run] /\ OthersKept(x) /\ work'[x] = w
    BY <1>4, <1>5, BecomeFacts
<1> QED
    BY <1>3, <1>5, <1>6

LEMMA CatchFacts ==
  ASSUME TypeOK, NEW x \in Runs, NEW p, NEW s, Catch(x, p, s)
  PROVE  /\ work' \in [Runs -> Run] /\ OthersKept(x)
         /\ work'[x].pc = "release" /\ work'[x].from = work[x].from
<1> DEFINE w == [work[x] EXCEPT !.pc = "release", !.buf = {}]
<1>1. work[x] \in Run
    BY RunTyped
<1>3. /\ w \in Run
      /\ w.pc = "release" /\ w.from = work[x].from
    BY <1>1 DEF Run, PCs
<1>4. Become(x, w)
    BY DEF Catch
<1> HIDE DEF w
<1> QED
    BY <1>3, <1>4, BecomeFacts DEF HandsKept, PlaceKept

-----------------------------------------------------------------------------
(* Types. *)

LEMMA FaultTyped ==
  ASSUME TypeOK, Fault \/ UNCHANGED faults
  PROVE  faults' \in 0 .. MaxFaults
  BY LoadAssumption DEF TypeOK, Fault

LEMMA CountTyped ==
  ASSUME TypeOK
  PROVE  /\ Released(count) \in Nat /\ count + 1 \in Nat
         /\ \A S \in SUBSET Jobs : Cardinality(S) \in Nat
<1>1. \A S \in SUBSET Jobs : Cardinality(S) \in Nat
    BY LoadAssumption, FS_Subset, FS_CardinalityType
<1>2. count \in Nat
    BY Zenon DEF TypeOK
<1> QED
    BY <1>1, <1>2 DEF Released

LEMMA StatusTyped ==
  ASSUME TypeOK, NEW j \in Jobs, NEW t \in Terminal
  PROVE  TrySetTerminal(j, t) => status' \in [Jobs -> Statuses]
  BY DEF TypeOK, TrySetTerminal, Terminal, Statuses

LEMMA OutcomeTyped ==
  ASSUME NEW x
  PROVE  Outcome(x) \in Terminal /\ Outcome(x) # "cancelled"
  BY DEF Outcome, Terminal

LEMMA AnnounceTyped ==
  ASSUME TypeOK, NEW x \in Runs, NEW t \in Terminal, Announce(x, t)
  PROVE  /\ notified' \in [Jobs -> SUBSET Terminal]
         /\ faults' \in 0 .. MaxFaults
<1>1. x[1] \in Jobs
    BY RunParts
<1>2. faults' \in 0 .. MaxFaults
    BY FaultTyped DEF Announce
<1> QED
    BY <1>1, <1>2 DEF TypeOK, Announce

\* The parts of TypeOK a run can disturb.
RunTypes ==
    /\ status \in [Jobs -> Statuses]
    /\ ckpt \in [Jobs -> Nat] /\ errs \in [Jobs -> SUBSET Nat] /\ embedErr \in [Jobs -> BOOLEAN]
    /\ written \in [Jobs -> SUBSET Nat] /\ embeds \in [Jobs -> SUBSET Nat]
    /\ notified \in [Jobs -> SUBSET Terminal]
    /\ count \in Nat /\ abort \subseteq Jobs /\ unresumed \subseteq Jobs
    /\ work \in [Runs -> Run]
    /\ faults \in 0 .. MaxFaults /\ eof \in [Jobs -> Nat]

LEMMA RunTypesLemma == TypeOK => RunTypes
  BY Zenon DEF TypeOK, RunTypes

LEMMA RunTypesBack ==
  ASSUME TypeOK, RunTypes', UNCHANGED still
  PROVE  TypeOK'
  BY DEF TypeOK, RunTypes, still, client

LEMMA TypeRun ==
  ASSUME TypeOK, NEW x \in Runs, RunStep(x)
  PROVE  TypeOK'
<1> DEFINE j == x[1]
<1>j. j \in Jobs
    BY RunParts
<1>t. RunTypes
    BY RunTypesLemma
<1>c. Released(count) \in Nat
    BY CountTyped
<1>pc. {"open", "release", "uncaught", "cancelled", "fail", "notify"} \subseteq PCs
    BY DEF PCs
<1> USE DEF row, substrates, slots
<1>1. CASE Claim(x)
  <2>1. work' \in [Runs -> Run]
    BY <1>1, <1>pc, ToFacts DEF Claim
  <2>2. status' \in [Jobs -> Statuses]
    BY <1>1, <1>t, <1>j DEF Claim, RunTypes, Statuses
  <2> QED
    BY <1>1, <1>t, <2>1, <2>2, RunTypesBack DEF Claim, RunTypes
<1>2. CASE NotClaimed(x) \/ Reenter(x) \/ CancelSeen(x)
  <2>1. work' \in [Runs -> Run]
    BY <1>2, <1>pc, ToFacts DEF NotClaimed, Reenter, CancelSeen
  <2> QED
    BY <1>2, <1>t, <2>1, RunTypesBack DEF NotClaimed, Reenter, CancelSeen, RunTypes
<1>3. CASE Open(x) \/ BadRow(x) \/ GoodRow(x)
  <2>1. work' \in [Runs -> Run]
    BY <1>3, OpenFacts, BadRowFacts, GoodRowFacts
  <2> QED
    BY <1>3, <1>t, <2>1, RunTypesBack DEF Open, BadRow, GoodRow, RunTypes
<1>4. CASE OpenFails(x) \/ Throws(x)
  <2>1. work' \in [Runs -> Run]
    BY <1>4, <1>pc, ToFacts DEF OpenFails, Throws
  <2>2. faults' \in 0 .. MaxFaults
    BY <1>4, FaultTyped DEF OpenFails, Throws
  <2> QED
    BY <1>4, <1>t, <2>1, <2>2, RunTypesBack DEF OpenFails, Throws, RunTypes
<1>5. CASE Eof(x)
  <2>1. work' \in [Runs -> Run]
    BY <1>5, EofFacts
  <2>2. eof' \in [Jobs -> Nat]
    BY <1>5, <1>t, <1>j DEF Eof, RunTypes, TypeOK
  <2> QED
    BY <1>5, <1>t, <2>1, <2>2, RunTypesBack DEF Eof, RunTypes
<1>6. ASSUME NEW lost, Flush(x, lost) PROVE TypeOK'
  <2>1. work' \in [Runs -> Run]
    BY <1>6, FlushFacts
  <2>2. faults' \in 0 .. MaxFaults
    BY <1>6, FaultTyped DEF Flush
  <2>3. work[x].buf \subseteq Nat
    BY RunTyped DEF Run
  <2>4. written' \in [Jobs -> SUBSET Nat]
    BY <1>6, <1>t, <1>j, <2>3 DEF Flush, RunTypes
  <2> QED
    BY <1>6, <1>t, <2>1, <2>2, <2>4, RunTypesBack DEF Flush, RunTypes
<1>7. ASSUME NEW some, FlushThrows(x, some) PROVE TypeOK'
  <2>1. work' \in [Runs -> Run]
    BY <1>7, <1>pc, ToFacts DEF FlushThrows
  <2>2. faults' \in 0 .. MaxFaults
    BY <1>7, FaultTyped DEF FlushThrows
  <2>3. work[x].buf \subseteq Nat
    BY RunTyped DEF Run
  <2>4. written' \in [Jobs -> SUBSET Nat]
    BY <1>7, <1>t, <1>j, <2>3 DEF FlushThrows, RunTypes
  <2> QED
    BY <1>7, <1>t, <2>1, <2>2, <2>4, RunTypesBack DEF FlushThrows, RunTypes
<1>8. CASE Embed(x)
  <2>1. work' \in [Runs -> Run]
    BY <1>8, EmbedFacts
  <2>2. work[x].queue \subseteq Nat
    BY RunTyped DEF Run
  <2>3. embeds' \in [Jobs -> SUBSET Nat]
    BY <1>8, <1>t, <1>j, <2>2 DEF Embed, RunTypes
  <2> QED
    BY <1>8, <1>t, <2>1, <2>3, RunTypesBack DEF Embed, RunTypes
<1>9. CASE EmbedFails(x)
  <2>1. work' \in [Runs -> Run]
    BY <1>9, EmbedFailsFacts
  <2>2. faults' \in 0 .. MaxFaults
    BY <1>9, FaultTyped DEF EmbedFails
  <2> QED
    BY <1>9, <1>t, <2>1, <2>2, RunTypesBack DEF EmbedFails, RunTypes
<1>10. CASE Persist(x)
  <2>1. work' \in [Runs -> Run]
    BY <1>10, PersistFacts
  <2>2. work[x].errs \subseteq Nat /\ work[x].idx \in Nat /\ work[x].embErr \in BOOLEAN
    BY RunTyped DEF Run
  <2>3. errs' \in [Jobs -> SUBSET Nat]
    BY <1>10, <1>t, <1>j, <2>2 DEF Persist, RunTypes
  <2>4. ckpt' \in [Jobs -> Nat]
    BY <1>10, <1>t, <1>j, <2>2 DEF Persist, RunTypes
  <2>5. embedErr' \in [Jobs -> BOOLEAN]
    BY <1>10, <1>t, <1>j, <2>2 DEF Persist, RunTypes
  <2> QED
    BY <1>10, <1>t, <2>1, <2>3, <2>4, <2>5, RunTypesBack DEF Persist, RunTypes
<1>11. CASE Stamp(x)
  <2>1. work' \in [Runs -> Run]
    BY <1>11, <1>pc, ToFacts DEF Stamp
  <2>2. status' \in [Jobs -> Statuses]
    BY <1>11, <1>j, StatusTyped, OutcomeTyped DEF Stamp
  <2>3. abort' \subseteq Jobs
    BY <1>11, <1>t DEF Stamp, RunTypes
  <2> QED
    BY <1>11, <1>t, <2>1, <2>2, <2>3, RunTypesBack DEF Stamp, RunTypes
<1>12. CASE Notify(x)
  <2>1. work' \in [Runs -> Run]
    BY <1>12, <1>pc, ToFacts DEF Notify
  <2>2. notified' \in [Jobs -> SUBSET Terminal] /\ faults' \in 0 .. MaxFaults
    BY <1>12, OutcomeTyped, AnnounceTyped DEF Notify
  <2> QED
    BY <1>12, <1>t, <2>1, <2>2, RunTypesBack DEF Notify, RunTypes
<1>13. ASSUME NEW p, NEW t \in Terminal, Catch(x, p, t) PROVE TypeOK'
  <2>1. work' \in [Runs -> Run]
    BY <1>13, CatchFacts
  <2>2. notified' \in [Jobs -> SUBSET Terminal] /\ faults' \in 0 .. MaxFaults
    BY <1>13, AnnounceTyped DEF Catch
  <2>3. status' \in [Jobs -> Statuses]
    BY <1>13, <1>j, StatusTyped DEF Catch
  <2> QED
    BY <1>13, <1>t, <2>1, <2>2, <2>3, RunTypesBack DEF Catch, RunTypes
<1>14. CASE Failed(x) \/ Cancelled(x)
    BY <1>13, <1>14 DEF Failed, Cancelled, Terminal
<1>15. CASE Uncaught(x)
  <2>1. work' \in [Runs -> Run]
    BY <1>15, IdleType, BecomeFacts DEF Uncaught
  <2>2. status' \in [Jobs -> Statuses]
    BY <1>15, <1>j, <1>t, StatusTyped DEF Uncaught, RunTypes, Terminal
  <2>3. unresumed' \subseteq Jobs
    BY <1>15, <1>j, <1>t DEF Uncaught, RunTypes
  <2> QED
    BY <1>15, <1>t, <1>c, <2>1, <2>2, <2>3, RunTypesBack DEF Uncaught, RunTypes
<1>16. CASE Release(x)
  <2>1. work' \in [Runs -> Run]
    BY <1>16, IdleType, BecomeFacts DEF Release
  <2> QED
    BY <1>16, <1>t, <1>c, <2>1, RunTypesBack DEF Release, RunTypes
<1> QED
    BY <1>1, <1>2, <1>3, <1>4, <1>5, <1>6, <1>7, <1>8, <1>9, <1>10, <1>11, <1>12,
       <1>14, <1>15, <1>16 DEF RunStep

LEMMA TypeRoute ==
  ASSUME TypeOK, NEW j \in Jobs, Route(j)
  PROVE  TypeOK'
<1> USE DEF store, disk, memory, client
<1>c. /\ Released(count) \in Nat /\ count + 1 \in Nat
      /\ Cardinality({k \in Jobs : status[k] # "none"}) + 1 \in Nat
  <2>1. Cardinality({k \in Jobs : status[k] # "none"}) \in Nat
    BY CountTyped
  <2> QED
    BY <2>1, CountTyped
<1>1. CASE Reject(j) \/ Ack(j)
    BY <1>1 DEF Reject, Ack, TypeOK
<1>2. CASE Accept(j)
  <2>1. status' \in [Jobs -> Statuses]
    BY <1>2 DEF Accept, TypeOK, Statuses
  <2>2. created' \in [Jobs -> Nat] /\ count' \in Nat
    BY <1>2, <1>c DEF Accept, TypeOK
  <2> QED
    BY <1>2, <2>1, <2>2 DEF Accept, TypeOK
<1>3. CASE OpenTemp(j) \/ Sweep(j)
    BY <1>3 DEF OpenTemp, Sweep, TypeOK
<1>4. CASE Arrive(j)
  <2>1. arrived' \in [Jobs -> Nat]
    BY <1>4 DEF Arrive, TypeOK
  <2> QED
    BY <1>4, <2>1 DEF Arrive, TypeOK
<1>5. CASE UploadFails(j)
  <2>1. faults' \in 0 .. MaxFaults
    BY <1>5, FaultTyped DEF UploadFails
  <2>2. status' \in [Jobs -> Statuses]
    BY <1>5 DEF UploadFails, TypeOK, Statuses
  <2> QED
    BY <1>5, <1>c, <2>1, <2>2 DEF UploadFails, TypeOK
<1>6. CASE RequestCancel(j)
  <2>1. faults' \in 0 .. MaxFaults
    BY <1>6, FaultTyped DEF RequestCancel
  <2> QED
    BY <1>6, <2>1 DEF RequestCancel, TypeOK
<1>7. CASE StampCancel(j)
  <2>1. status' \in [Jobs -> Statuses]
    BY <1>7, StatusTyped DEF StampCancel, Terminal
  <2> QED
    BY <1>7, <2>1 DEF StampCancel, TypeOK
<1> QED
    BY <1>1, <1>2, <1>3, <1>4, <1>5, <1>6, <1>7 DEF Route

LEMMA ResumeTyped ==
  ASSUME TypeOK, NEW n \in Nat
  PROVE  [Idle EXCEPT !.pc = "claim", !.from = n] \in Run
  BY DEF Idle, Run, PCs

LEMMA ClaimTyped == [Idle EXCEPT !.pc = "claim"] \in Run
  BY DEF Idle, Run, PCs

LEMMA TypeLoop ==
  ASSUME TypeOK, Loop \/ Crash
  PROVE  TypeOK'
<1> USE DEF store, disk, client
<1>1. CASE Reconcile
  <2>1. count' \in Nat
    BY <1>1, CountTyped DEF Reconcile, Received, Running
  <2> QED
    BY <1>1, <2>1 DEF Reconcile, TypeOK
<1>2. CASE ResumeRunning
  <2>1. work' \in [Runs -> Run]
    <3> SUFFICES ASSUME NEW x \in Runs
                 PROVE  /\ [Idle EXCEPT !.pc = "claim", !.from = ckpt[x[1]]] \in Run
                        /\ work[x] \in Run
        BY <1>2 DEF ResumeRunning
    <3>1. ckpt[x[1]] \in Nat
        BY RunParts DEF TypeOK
    <3> QED
        BY <3>1, ResumeTyped, RunTyped
  <2> QED
    BY <1>2, <2>1 DEF ResumeRunning, TypeOK
<1>3. CASE RecoveryFails
  <2>1. faults' \in 0 .. MaxFaults
    BY <1>3, FaultTyped DEF RecoveryFails
  <2>2. unresumed' \subseteq Jobs
    BY <1>3 DEF RecoveryFails, Running
  <2> QED
    BY <1>3, <2>1, <2>2 DEF RecoveryFails, TypeOK
<1>4. CASE ListReceived
  <2>1. tick' \subseteq Jobs
    BY <1>4 DEF ListReceived, OldestReceived, Received
  <2> QED
    BY <1>4, <2>1 DEF ListReceived, TypeOK
<1>5. CASE NextJob
  <2>1. tick' \subseteq Jobs
    BY <1>5 DEF NextJob, TypeOK
  <2>2. work' \in [Runs -> Run]
    BY <1>5, ClaimTyped, WorkTyped DEF NextJob
  <2> QED
    BY <1>5, <2>1, <2>2 DEF NextJob, TypeOK
<1>6. CASE Crash
  <2>1. work' \in [Runs -> Run]
    BY <1>6, IdleType DEF Crash
  <2>2. crashes' \in 0 .. MaxCrashes
    BY <1>6, LoadAssumption DEF Crash, TypeOK
  <2>3. upload' \in [Jobs -> {"none", "rejected", "opening", "streaming", "acked", "failed", "lost"}]
    BY <1>6 DEF Crash, TypeOK
  <2>4. cancel' \in [Jobs -> {"no", "asked", "done"}]
    BY <1>6 DEF Crash, TypeOK
  <2> QED
    BY <1>6, <2>1, <2>2, <2>3, <2>4 DEF Crash, TypeOK
<1> QED
    BY <1>1, <1>2, <1>3, <1>4, <1>5, <1>6 DEF Loop

\* The types are kept by every step.
LEMMA TypeStep == TypeOK /\ [Next]_vars => TypeOK'
<1> SUFFICES ASSUME TypeOK, [Next]_vars PROVE TypeOK'
    OBVIOUS
<1>1. CASE UNCHANGED vars
    BY <1>1 DEF vars, store, disk, memory, client, TypeOK
<1>2. CASE Poll
    BY <1>1, <1>2 DEF Poll
<1> QED
    BY <1>1, <1>2, TypeRoute, TypeRun, TypeLoop DEF Next

LEMMA TypeInit == Init => TypeOK
<1> SUFFICES ASSUME Init PROVE TypeOK
    OBVIOUS
<1>1. work \in [Runs -> Run]
    BY IdleType DEF Init
<1>2. faults \in 0 .. MaxFaults /\ crashes \in 0 .. MaxCrashes
    BY LoadAssumption DEF Init
<1>3. /\ status \in [Jobs -> Statuses] /\ created \in [Jobs -> Nat] /\ ckpt \in [Jobs -> Nat]
      /\ errs \in [Jobs -> SUBSET Nat] /\ embedErr \in [Jobs -> BOOLEAN]
    BY DEF Init, Statuses
<1>4. /\ temp \in [Jobs -> BOOLEAN] /\ arrived \in [Jobs -> Nat] /\ eof \in [Jobs -> Nat]
      /\ written \in [Jobs -> SUBSET Nat] /\ embeds \in [Jobs -> SUBSET Nat]
      /\ notified \in [Jobs -> SUBSET Terminal]
    BY DEF Init
<1>5. /\ boot = "down" /\ loopOn \in BOOLEAN /\ count \in Nat
      /\ abort \subseteq Jobs /\ tick \subseteq Jobs /\ unresumed \subseteq Jobs
    BY DEF Init
<1>6. /\ upload \in [Jobs -> {"none", "rejected", "opening", "streaming", "acked", "failed", "lost"}]
      /\ cancel \in [Jobs -> {"no", "asked", "done"}]
    BY DEF Init
<1> QED
    BY <1>1, <1>2, <1>3, <1>4, <1>5, <1>6 DEF TypeOK

-----------------------------------------------------------------------------
(* What a step of a run leaves alone. *)

\* The rows, errors, embeds and checkpoint of job j.
JobKept(j) ==
    /\ ckpt'[j] = ckpt[j] /\ errs'[j] = errs[j] /\ embedErr'[j] = embedErr[j]
    /\ written'[j] = written[j] /\ embeds'[j] = embeds[j] /\ eof'[j] = eof[j]

\* The status stays, is claimed, or is stamped on a job that is under way.
StatusMoves(x) ==
    \/ status'[x[1]] = status[x[1]]
    \/ Claim(x) /\ status'[x[1]] = "running"
    \/ /\ status[x[1]] \in {"received", "running"} /\ status'[x[1]] \in Terminal
       /\ status'[x[1]] = "complete" => Stamp(x)

LEMMA TerminalMoves ==
  ASSUME TypeOK, NEW j \in Jobs, NEW t, TrySetTerminal(j, t)
  PROVE  /\ \A k \in Jobs \ {j} : status'[k] = status[k]
         /\ \/ status'[j] = status[j]
            \/ status[j] \in {"received", "running"} /\ status'[j] = t
  BY DEF TypeOK, TrySetTerminal

LEMMA RunFrame ==
  ASSUME TypeOK, NEW x \in Runs, RunStep(x)
  PROVE  /\ OthersKept(x) /\ UNCHANGED still /\ work[x].pc # "off"
         /\ \A k \in Jobs \ {x[1]} : JobKept(k) /\ status'[k] = status[k]
         /\ ~Busy(x) => JobKept(x[1])
         /\ StatusMoves(x)
<1> DEFINE j == x[1]
           Goal == /\ OthersKept(x) /\ UNCHANGED still /\ work[x].pc # "off"
                   /\ \A k \in Jobs \ {j} : JobKept(k) /\ status'[k] = status[k]
                   /\ ~Busy(x) => JobKept(j)
                   /\ StatusMoves(x)
<1>j. j \in Jobs
    BY RunParts
<1>t. RunTypes
    BY RunTypesLemma
<1>pc. {"open", "release", "uncaught", "cancelled", "fail", "notify"} \subseteq PCs
    BY DEF PCs
<1> USE DEF row, substrates, slots, JobKept
<1>1. CASE Claim(x)
  <2>1. OthersKept(x)
    BY <1>1, <1>pc, ToFacts DEF Claim
  <2>2. status'[j] = "running" /\ \A k \in Jobs \ {j} : status'[k] = status[k]
    BY <1>1, <1>t, <1>j DEF Claim, RunTypes
  <2> QED
    BY <1>1, <2>1, <2>2 DEF Claim, StatusMoves
<1>2. CASE NotClaimed(x) \/ Reenter(x) \/ CancelSeen(x) \/ OpenFails(x) \/ Throws(x)
  <2>1. OthersKept(x)
    BY <1>2, <1>pc, ToFacts DEF NotClaimed, Reenter, CancelSeen, OpenFails, Throws
  <2> QED
    BY <1>2, <2>1 DEF NotClaimed, Reenter, CancelSeen, OpenFails, Throws, MayEmbed, StatusMoves
<1>3. CASE Open(x) \/ BadRow(x) \/ GoodRow(x) \/ EmbedFails(x)
  <2>1. OthersKept(x)
    BY <1>3, OpenFacts, BadRowFacts, GoodRowFacts, EmbedFailsFacts
  <2> QED
    BY <1>3, <2>1 DEF Open, BadRow, GoodRow, EmbedFails, MayEmbed, StatusMoves
<1>4. CASE Eof(x)
  <2>1. OthersKept(x)
    BY <1>4, EofFacts
  <2>2. \A k \in Jobs \ {j} : eof'[k] = eof[k]
    BY <1>4, <1>t DEF Eof, RunTypes
  <2> QED
    BY <1>4, <2>1, <2>2 DEF Eof, StatusMoves, Busy
<1>5. ASSUME NEW lost, Flush(x, lost) PROVE Goal
  <2>1. OthersKept(x)
    BY <1>5, FlushFacts
  <2>2. \A k \in Jobs \ {j} : written'[k] = written[k]
    BY <1>5, <1>t DEF Flush, RunTypes
  <2> QED
    BY <1>5, <2>1, <2>2 DEF Flush, StatusMoves, Busy
<1>6. ASSUME NEW some, FlushThrows(x, some) PROVE Goal
  <2>1. OthersKept(x)
    BY <1>6, <1>pc, ToFacts DEF FlushThrows
  <2>2. \A k \in Jobs \ {j} : written'[k] = written[k]
    BY <1>6, <1>t DEF FlushThrows, RunTypes
  <2> QED
    BY <1>6, <2>1, <2>2 DEF FlushThrows, StatusMoves, Busy
<1>7. CASE Embed(x)
  <2>1. OthersKept(x)
    BY <1>7, EmbedFacts
  <2>2. \A k \in Jobs \ {j} : embeds'[k] = embeds[k]
    BY <1>7, <1>t DEF Embed, RunTypes
  <2> QED
    BY <1>7, <2>1, <2>2 DEF Embed, MayEmbed, StatusMoves, Busy
<1>8. CASE Persist(x)
  <2>1. OthersKept(x)
    BY <1>8, PersistFacts
  <2>2. \A k \in Jobs \ {j} : errs'[k] = errs[k] /\ embedErr'[k] = embedErr[k] /\ ckpt'[k] = ckpt[k]
    BY <1>8, <1>t DEF Persist, RunTypes
  <2>3. UNCHANGED <<still, status, substrates, eof>> /\ work[x].pc = "persist"
    BY <1>8 DEF Persist
  <2> QED
    BY <2>1, <2>2, <2>3 DEF StatusMoves, Busy
<1>9. CASE Stamp(x)
  <2>1. OthersKept(x)
    BY <1>9, <1>pc, ToFacts DEF Stamp
  <2>2. TrySetTerminal(j, Outcome(x)) /\ work[x].pc = "stamp"
    BY <1>9 DEF Stamp
  <2>3. UNCHANGED <<still, ckpt, errs, embedErr, substrates, eof>>
    BY <1>9 DEF Stamp
  <2> QED
    BY <1>9, <1>j, <2>1, <2>2, <2>3, TerminalMoves, OutcomeTyped DEF StatusMoves
<1>10. CASE Notify(x)
  <2>1. OthersKept(x)
    BY <1>10, <1>pc, ToFacts DEF Notify
  <2> QED
    BY <1>10, <2>1 DEF Notify, StatusMoves
<1>11. ASSUME NEW p \in {"fail", "cancelled"}, NEW t \in {"failed", "cancelled"}, Catch(x, p, t)
       PROVE  Goal
  <2>1. OthersKept(x)
    BY <1>11, CatchFacts
  <2>2. TrySetTerminal(j, t) /\ work[x].pc = p
    BY <1>11 DEF Catch
  <2>3. UNCHANGED <<still, ckpt, errs, embedErr, written, embeds, eof>>
    BY <1>11 DEF Catch
  <2> QED
    BY <1>11, <1>j, <2>1, <2>2, <2>3, TerminalMoves DEF StatusMoves, Terminal
<1>12. CASE Failed(x) \/ Cancelled(x)
    BY <1>11, <1>12 DEF Failed, Cancelled
<1>13. CASE Uncaught(x)
  <2>1. OthersKept(x)
    BY <1>13, IdleType, BecomeFacts DEF Uncaught
  <2>2. TrySetTerminal(j, "failed") \/ UNCHANGED status
    BY <1>13 DEF Uncaught
  <2>3. UNCHANGED <<still, ckpt, errs, embedErr, substrates, eof>> /\ work[x].pc = "uncaught"
    BY <1>13 DEF Uncaught
  <2> QED
    BY <1>j, <2>1, <2>2, <2>3, TerminalMoves DEF StatusMoves, Terminal
<1>14. CASE Release(x)
  <2>1. OthersKept(x)
    BY <1>14, IdleType, BecomeFacts DEF Release
  <2> QED
    BY <1>14, <2>1 DEF Release, StatusMoves
<1> QED
    BY <1>1, <1>2, <1>3, <1>4, <1>5, <1>6, <1>7, <1>8, <1>9, <1>10,
       <1>12, <1>13, <1>14 DEF RunStep

-----------------------------------------------------------------------------
(* Who has a job. *)

\* A run gets hold of its job by claiming it or by resuming it.
LEMMA BecomesBusy ==
  ASSUME TypeOK, NEW x \in Runs, RunStep(x), ~Busy(x), Busy(x)'
  PROVE  Claim(x) \/ Reenter(x)
<1>1. work[x].pc \in {"claim", "release", "uncaught"}
    BY RunFrame DEF Busy
<1>2. \/ Claim(x) \/ Reenter(x) \/ NotClaimed(x) \/ Uncaught(x) \/ Release(x)
    BY <1>1 DEF RunStep, Open, OpenFails, CancelSeen, BadRow, GoodRow, Eof, Flush, FlushThrows,
                Embed, EmbedFails, Persist, Throws, MayEmbed, Stamp, Notify, Failed, Cancelled, Catch
<1>3. ~NotClaimed(x)
  <2> SUFFICES ASSUME NotClaimed(x) PROVE FALSE
    OBVIOUS
  <2>1. "release" \in PCs
    BY DEF PCs
  <2>2. work'[x].pc = "release"
    BY <2>1, ToFacts DEF NotClaimed
  <2> QED
    BY <2>2 DEF Busy
<1>4. ~Uncaught(x) /\ ~Release(x)
  <2> SUFFICES ASSUME Uncaught(x) \/ Release(x) PROVE FALSE
    OBVIOUS
  <2>1. work'[x] = Idle
    BY IdleType, BecomeFacts DEF Uncaught, Release
  <2> QED
    BY <2>1 DEF Busy, Idle
<1> QED
    BY <1>2, <1>3, <1>4

\* Who has which job, without the rows.
Control == TypeOK /\ Fresh /\ Cold /\ OneOwner /\ \A x \in Runs : StartOK(x)

LEMMA ControlRun ==
  ASSUME Control, NEW x \in Runs, RunStep(x)
  PROVE  Fresh' /\ Cold' /\ OneOwner'
<1> DEFINE j == x[1]
<1>f. /\ OthersKept(x) /\ UNCHANGED still /\ work[x].pc # "off"
      /\ \A k \in Jobs \ {j} : JobKept(k) /\ status'[k] = status[k]
      /\ ~Busy(x) => JobKept(j)
      /\ StatusMoves(x)
    BY RunFrame DEF Control
<1>j. j \in Jobs /\ x = <<j, x[2]>> /\ x[2] \in {"loop", "resume"}
    BY RunParts
<1>s. status[j] \notin {"none", "received"} => status'[j] \notin {"none", "received"}
    BY <1>f DEF StatusMoves, Terminal, Claim
<1>1. Fresh'
  <2> SUFFICES ASSUME NEW k \in Jobs, upload[k] \in {"none", "rejected"} PROVE status'[k] = "none"
    BY <1>f DEF Fresh, still, client
  <2>1. status[k] = "none"
    BY DEF Control, Fresh
  <2> QED
    BY <1>f, <2>1 DEF StatusMoves, Claim
<1>2. Cold'
    BY <1>f DEF Control, Cold, still
<1>3. OneOwner'
  <2> SUFFICES ASSUME NEW k \in Jobs
               PROVE  /\ work'[<<k, "resume">>].pc # "off" => status'[k] \notin {"none", "received"}
                      /\ Busy(<<k, "loop">>)' => work'[<<k, "resume">>].pc = "off"
                      /\ Busy(<<k, "loop">>)' => status'[k] \notin {"none", "received"}
                      /\ status'[k] \in {"none", "received"} => ckpt'[k] = 0
    BY DEF OneOwner
  <2>r. <<k, "loop">> \in Runs /\ <<k, "resume">> \in Runs
    BY DEF Runs, Callers
  <2>o. /\ work[<<k, "resume">>].pc # "off" => status[k] \notin {"none", "received"}
        /\ Busy(<<k, "loop">>) => work[<<k, "resume">>].pc = "off"
        /\ Busy(<<k, "loop">>) => status[k] \notin {"none", "received"}
        /\ status[k] \in {"none", "received"} => ckpt[k] = 0
    BY DEF Control, OneOwner
  <2>1. CASE k # j
    <3>1. <<k, "loop">> # x /\ <<k, "resume">> # x
      BY <2>1, <1>j
    <3>2. work'[<<k, "loop">>] = work[<<k, "loop">>] /\ work'[<<k, "resume">>] = work[<<k, "resume">>]
      BY <3>1, <2>r, <1>f DEF OthersKept
    <3> QED
      BY <3>2, <2>1, <2>o, <1>f DEF JobKept, Busy
  <2>2. CASE k = j /\ x[2] = "loop"
    <3>1. x = <<k, "loop">> /\ work'[<<k, "resume">>] = work[<<k, "resume">>]
      BY <2>2, <2>r, <1>j, <1>f DEF OthersKept
    <3>2. Busy(x)' => Busy(x) \/ Claim(x)
      <4>1. ~Reenter(x)
        BY <2>2 DEF Control, StartOK, Reenter, IsResume
      <4> QED
        BY <4>1, BecomesBusy DEF Control
    <3>3. Claim(x) => status[k] = "received" /\ status'[k] = "running"
      BY <2>2, <1>j DEF Control, TypeOK, Claim
    <3>4. status'[k] \in {"none", "received"} => ckpt'[k] = 0
      BY <1>f, <1>s, <2>2, <2>o, <3>1 DEF StatusMoves, JobKept, Claim, Terminal
    <3> QED
      BY <3>1, <3>2, <3>3, <3>4, <2>o, <2>2, <1>s
  <2>3. CASE k = j /\ x[2] = "resume"
    <3>1. x = <<k, "resume">> /\ work'[<<k, "loop">>] = work[<<k, "loop">>]
      BY <2>3, <2>r, <1>j, <1>f DEF OthersKept
    <3>2. status'[k] \notin {"none", "received"} /\ ~Busy(<<k, "loop">>)
      BY <3>1, <2>3, <2>o, <1>f, <1>s
    <3> QED
      BY <3>1, <3>2 DEF Busy
  <2> QED
    BY <2>1, <2>2, <2>3, <1>j
<1> QED
    BY <1>1, <1>2, <1>3

\* What a route does to a status.
LEMMA RouteStatus ==
  ASSUME TypeOK, Fresh, NEW j \in Jobs, Route(j), NEW k \in Jobs
  PROVE  \/ status'[k] = status[k]
         \/ status[k] = "none" /\ status'[k] = "received" /\ Accept(k)
         \/ status'[k] = "cancelled" /\ status[k] \in {"received", "running"}
         \/ status'[k] = "failed" /\ upload'[k] = "failed"
<1>1. CASE Accept(j)
    BY <1>1 DEF Accept, TypeOK, Fresh
<1>2. CASE UploadFails(j)
    BY <1>2 DEF UploadFails, TypeOK
<1>3. CASE StampCancel(j)
    BY <1>3, TerminalMoves DEF StampCancel
<1>4. CASE ~Accept(j) /\ ~UploadFails(j) /\ ~StampCancel(j)
    BY <1>4 DEF Route, Reject, OpenTemp, Arrive, Ack, RequestCancel, Sweep, store
<1> QED
    BY <1>1, <1>2, <1>3, <1>4

LEMMA ControlRoute ==
  ASSUME Control, NEW j \in Jobs, Route(j)
  PROVE  Fresh' /\ Cold' /\ OneOwner'
<1>u. UNCHANGED <<work, boot, loopOn, ckpt>>
    BY DEF Route, Reject, Accept, OpenTemp, Arrive, Ack, UploadFails, RequestCancel, StampCancel,
           Sweep, memory, store
<1>1. Cold'
    BY <1>u DEF Control, Cold
<1>2. \A k \in Jobs : \/ status'[k] = status[k]
                      \/ status[k] = "none" /\ status'[k] = "received" /\ Accept(k)
                      \/ status'[k] \in Terminal /\ status[k] \in {"received", "running"}
                      \/ status'[k] = "failed" /\ upload'[k] = "failed"
    BY RouteStatus DEF Control, Terminal
<1>3. \A k \in Jobs : upload'[k] \in {"none", "rejected"} =>
                          upload[k] \in {"none", "rejected"} /\ ~Accept(k)
    BY DEF Route, Reject, Accept, OpenTemp, Arrive, Ack, UploadFails, RequestCancel, StampCancel,
           Sweep, client, Control, TypeOK
<1>4. Fresh'
    BY <1>2, <1>3 DEF Control, Fresh
<1>5. OneOwner'
  <2> SUFFICES ASSUME NEW k \in Jobs
               PROVE  /\ work[<<k, "resume">>].pc # "off" => status'[k] \notin {"none", "received"}
                      /\ Busy(<<k, "loop">>) => work[<<k, "resume">>].pc = "off"
                      /\ Busy(<<k, "loop">>) => status'[k] \notin {"none", "received"}
                      /\ status'[k] \in {"none", "received"} => ckpt[k] = 0
    BY <1>u DEF OneOwner, Busy
  <2>o. /\ work[<<k, "resume">>].pc # "off" => status[k] \notin {"none", "received"}
        /\ Busy(<<k, "loop">>) => work[<<k, "resume">>].pc = "off"
        /\ Busy(<<k, "loop">>) => status[k] \notin {"none", "received"}
        /\ status[k] \in {"none", "received"} => ckpt[k] = 0
    BY DEF Control, OneOwner
  <2> QED
    BY <2>o, <1>2 DEF Terminal
<1> QED
    BY <1>1, <1>4, <1>5

LEMMA ControlLoop ==
  ASSUME Control, Loop \/ Crash
  PROVE  Fresh' /\ Cold' /\ OneOwner'
<1>r. \A k \in Jobs : <<k, "loop">> \in Runs /\ <<k, "resume">> \in Runs
    BY DEF Runs, Callers
<1>s. UNCHANGED <<status, ckpt>>
    BY DEF Loop, Reconcile, ResumeRunning, RecoveryFails, ListReceived, NextJob, Crash, store
<1>1. Fresh'
  <2>1. \A k \in Jobs : upload'[k] \in {"none", "rejected"} => upload[k] \in {"none", "rejected"}
    BY DEF Loop, Reconcile, ResumeRunning, RecoveryFails, ListReceived, NextJob, Crash, client
  <2> QED
    BY <1>s, <2>1 DEF Control, Fresh
<1>2. CASE Reconcile \/ RecoveryFails \/ ListReceived
  <2>1. work' = work
    BY <1>2 DEF Reconcile, RecoveryFails, ListReceived
  <2>2. Cold'
    BY <1>2, <2>1 DEF Reconcile, RecoveryFails, ListReceived, LoopIdle, Control, Cold
  <2>3. OneOwner'
    BY <1>s, <2>1 DEF Control, OneOwner, Busy
  <2> QED
    BY <1>1, <2>2, <2>3
<1>3. CASE ResumeRunning
  <2>1. \A x \in Runs : work[x].pc = "off"
    BY <1>3 DEF ResumeRunning, Control, Cold
  <2>2. \A k \in Jobs : /\ work'[<<k, "loop">>] = work[<<k, "loop">>]
                        /\ k \notin Running => work'[<<k, "resume">>] = work[<<k, "resume">>]
    BY <1>3, <1>r DEF ResumeRunning
  <2>3. OneOwner'
    BY <1>r, <1>s, <2>1, <2>2 DEF Control, OneOwner, Busy, Running
  <2>4. Cold'
    BY <1>3 DEF ResumeRunning, Cold
  <2> QED
    BY <1>1, <2>3, <2>4
<1>4. CASE NextJob
  <2>1. PICK j \in tick : work' = [work EXCEPT ![<<j, "loop">>] = [Idle EXCEPT !.pc = "claim"]]
    BY <1>4 DEF NextJob
  <2>2. \A k \in Jobs : /\ work'[<<k, "resume">>] = work[<<k, "resume">>]
                        /\ \/ work'[<<k, "loop">>] = work[<<k, "loop">>]
                           \/ work'[<<k, "loop">>].pc = "claim"
    <3>1. [Idle EXCEPT !.pc = "claim"].pc = "claim"
      BY DEF Idle
    <3> QED
      BY <1>r, <2>1, <3>1, WorkTyped DEF Control
  <2>3. OneOwner'
    BY <1>s, <2>2 DEF Control, OneOwner, Busy
  <2>4. Cold'
    BY <1>4 DEF NextJob, LoopIdle, Control, Cold
  <2> QED
    BY <1>1, <2>3, <2>4
<1>5. CASE Crash
  <2>1. \A x \in Runs : work'[x].pc = "off"
    BY <1>5 DEF Crash, Idle
  <2>2. Cold'
    BY <1>5, <2>1 DEF Crash, Cold
  <2>3. OneOwner'
    BY <1>r, <1>s, <2>1 DEF Control, OneOwner, Busy
  <2> QED
    BY <1>1, <2>2, <2>3
<1> QED
    BY <1>2, <1>3, <1>4, <1>5 DEF Loop

-----------------------------------------------------------------------------
(* The rows in the hands of the runs. *)

RunAll(x) == StartOK(x) /\ CoverOK(x) /\ BufferOK(x) /\ EndOK(x)

\* A run is untouched when neither its locals nor its job move.
LEMMA KeptRun ==
  ASSUME NEW y \in Runs, RunAll(y), work'[y] = work[y], JobKept(y[1]),
         status[y[1]] # "complete" => status'[y[1]] # "complete"
  PROVE  RunAll(y)'
<1>1. StartOK(y)'
    BY DEF RunAll, StartOK, JobKept
<1>2. CoverOK(y)'
    BY DEF RunAll, CoverOK, JobKept
<1>3. BufferOK(y)'
    BY DEF RunAll, BufferOK, JobKept, Good
<1>4. EndOK(y)'
    BY DEF RunAll, EndOK, JobKept
<1> QED
    BY <1>1, <1>2, <1>3, <1>4 DEF RunAll

\* A run that has nothing in hand yet.
LEMMA IdleRun ==
  ASSUME NEW y \in Runs, work'[y].pc \in {"off", "release", "uncaught", "notify", "fail", "cancelled"},
         y[2] = "loop" => work'[y].from = 0
  PROVE  RunAll(y)'
  BY DEF RunAll, StartOK, CoverOK, BufferOK, EndOK, Active, Buffering, Flushed

LEMMA InvParts ==
  ASSUME IInv
  PROVE  Control /\ \A x \in Runs : RunAll(x)
  BY DEF IInv, Control, RunOK, RunAll

\* A step of one run leaves the others alone: no two have the same job.
LEMMA OtherRuns ==
  ASSUME IInv, NEW x \in Runs, RunStep(x), NEW y \in Runs \ {x}
  PROVE  RunAll(y)'
<1>f. /\ OthersKept(x) /\ work[x].pc # "off"
      /\ \A k \in Jobs \ {x[1]} : JobKept(k) /\ status'[k] = status[k]
      /\ ~Busy(x) => JobKept(x[1])
      /\ StatusMoves(x)
    BY RunFrame DEF IInv
<1>j. /\ x[1] \in Jobs /\ x = <<x[1], x[2]>> /\ x[2] \in {"loop", "resume"}
      /\ y[1] \in Jobs /\ y = <<y[1], y[2]>> /\ y[2] \in {"loop", "resume"}
    BY RunParts
<1>y. work'[y] = work[y] /\ RunAll(y)
    BY <1>f, InvParts DEF OthersKept
<1>o. \A k \in Jobs : Busy(<<k, "loop">>) => work[<<k, "resume">>].pc = "off"
    BY DEF IInv, OneOwner
<1>1. CASE y[1] # x[1]
    BY <1>1, <1>f, <1>j, <1>y, KeptRun
<1>2. CASE y[1] = x[1] /\ y[2] = "loop"
  <2>1. x = <<x[1], "resume">> /\ y = <<x[1], "loop">>
    BY <1>2, <1>j
  <2>2. ~Busy(y)
    BY <2>1, <1>o, <1>f, <1>j
  <2>3. work[y].pc \in {"off", "claim", "release", "uncaught"}
    BY <2>2 DEF Busy
  <2> QED
    BY <1>y, <1>2, <2>3 DEF RunAll, StartOK, CoverOK, BufferOK, EndOK, Active, Buffering, Flushed
<1>3. CASE y[1] = x[1] /\ y[2] = "resume"
  <2>1. x = <<x[1], "loop">> /\ y = <<x[1], "resume">>
    BY <1>3, <1>j
  <2>2. CASE work[y].pc = "off"
    BY <2>2, <1>y, <1>3, IdleRun
  <2>3. CASE work[y].pc # "off"
    <3>1. ~Busy(x)
      BY <2>1, <2>3, <1>o, <1>j
    <3>2. JobKept(y[1]) /\ ~Stamp(x)
      BY <3>1, <1>f, <1>3 DEF Busy, Stamp
    <3>3. status[y[1]] # "complete" => status'[y[1]] # "complete"
      BY <3>2, <1>f, <1>3 DEF StatusMoves
    <3> QED
      BY <3>2, <3>3, <1>y, KeptRun
  <2> QED
    BY <2>2, <2>3
<1> QED
    BY <1>1, <1>2, <1>3, <1>j

\* The run that steps keeps track of its rows.
LEMMA OwnRun ==
  ASSUME IInv, NEW x \in Runs, RunStep(x)
  PROVE  RunAll(x)'
<1> DEFINE j == x[1]
<1>j. j \in Jobs /\ x = <<j, x[2]>> /\ x[2] \in {"loop", "resume"}
    BY RunParts
<1>i. TypeOK /\ RunTypes /\ RunAll(x)
    BY InvParts, RunTypesLemma DEF IInv
<1>w. /\ work[x] \in Run /\ work[x].idx \in Nat /\ work[x].from \in Nat /\ ckpt[j] \in Nat
      /\ work[x].why \in {"progress", "checkpoint", "end"}
    BY <1>i, <1>j, RunTyped DEF Run, RunTypes
<1>l. x[2] = "loop" => work[x].from = 0
    BY <1>i DEF RunAll, StartOK
<1>pc. {"open", "release", "uncaught", "cancelled", "fail", "notify"} \subseteq PCs
    BY DEF PCs
<1>d. Len(Body[j]) \in Nat /\ Good(j) = {r \in 1 .. Len(Body[j]) : Body[j][r] = "good"}
    BY <1>j, LoadAssumption DEF Good
<1> USE DEF row, substrates, slots
<1>1. CASE Claim(x)
  <2>1. /\ HandsKept(x) /\ PlaceKept(x) /\ work'[x].pc = "open"
    BY <1>1, <1>i, <1>pc, ToFacts DEF Claim
  <2>2. /\ status[j] = "received" /\ work[x].pc = "claim" /\ ckpt' = ckpt
        /\ status'[j] = "running"
    BY <1>1, <1>j, <1>i DEF Claim, RunTypes
  <2>3. ckpt[j] = 0 /\ work[<<j, "resume">>].pc = "off"
    BY <2>2, <1>j DEF IInv, OneOwner
  <2>4. x[2] = "loop"
    BY <2>2, <2>3, <1>j
  <2> QED
    BY <2>1, <2>2, <2>3, <2>4, <1>l, <1>i
    DEF RunAll, StartOK, CoverOK, BufferOK, EndOK, Active, Buffering, Flushed, HandsKept, PlaceKept
<1>2. CASE Reenter(x)
  <2>1. /\ HandsKept(x) /\ PlaceKept(x) /\ work'[x].pc = "open"
    BY <1>2, <1>i, <1>pc, ToFacts DEF Reenter
  <2>2. work[x].pc = "claim" /\ UNCHANGED <<ckpt, status>> /\ x[2] = "resume"
    BY <1>2, <1>l, <1>j DEF Reenter, IsResume
  <2> QED
    BY <2>1, <2>2, <1>i
    DEF RunAll, StartOK, CoverOK, BufferOK, EndOK, Active, Buffering, Flushed, HandsKept, PlaceKept
<1>3. CASE NotClaimed(x) \/ CancelSeen(x) \/ OpenFails(x) \/ Throws(x) \/ Stamp(x) \/ Notify(x)
  <2>1. work'[x].pc \in {"release", "uncaught", "cancelled", "fail", "notify"} /\ PlaceKept(x)
    BY <1>3, <1>i, <1>pc, ToFacts DEF NotClaimed, CancelSeen, OpenFails, Throws, Stamp, Notify
  <2> QED
    BY <2>1, <1>l, IdleRun DEF PlaceKept
<1>4. ASSUME NEW some, FlushThrows(x, some) PROVE RunAll(x)'
  <2>1. work'[x].pc = "fail" /\ PlaceKept(x)
    BY <1>4, <1>i, <1>pc, ToFacts DEF FlushThrows
  <2> QED
    BY <2>1, <1>l, IdleRun DEF PlaceKept
<1>5. CASE Failed(x) \/ Cancelled(x)
  <2>1. work'[x].pc = "release" /\ work'[x].from = work[x].from
    BY <1>5, <1>i, CatchFacts DEF Failed, Cancelled
  <2> QED
    BY <2>1, <1>l, IdleRun
<1>6. CASE Uncaught(x) \/ Release(x)
  <2>1. work'[x] = Idle
    BY <1>6, <1>i, IdleType, BecomeFacts DEF Uncaught, Release
  <2> QED
    BY <2>1, IdleRun DEF Idle
<1>7. CASE Open(x)
  <2>1. /\ HandsKept(x) /\ work'[x].pc = "row" /\ work'[x].idx = work[x].from
        /\ work'[x].from = work[x].from
    BY <1>7, <1>i, OpenFacts
  <2>2. work[x].pc = "open" /\ UNCHANGED <<status, ckpt, errs, embedErr, written, embeds, eof>>
    BY <1>7 DEF Open
  <2>3. work[x].from = ckpt[j] /\ work[x].buf = {} /\ status[j] # "complete"
    BY <2>2, <1>i DEF RunAll, StartOK, EndOK, Active
  <2>4. \A r \in 1 .. ckpt[j] : Settled(j, r)
    BY <1>j DEF IInv, CheckpointDurable, Settled
  <2>5. CoverOK(x)'
    BY <2>1, <2>2, <2>3, <2>4, <1>w DEF CoverOK, Settled
  <2>6. StartOK(x)' /\ BufferOK(x)' /\ EndOK(x)'
    BY <2>1, <2>2, <2>3, <1>l DEF StartOK, BufferOK, EndOK, Active, Buffering, Flushed, HandsKept
  <2> QED
    BY <2>5, <2>6 DEF RunAll
<1>8. CASE BadRow(x)
  <2> DEFINE n == work[x].idx + 1
  <2>1. /\ work'[x].pc = "row" /\ work'[x].from = work[x].from /\ work'[x].idx = n
        /\ work'[x].buf = work[x].buf /\ work'[x].queue = work[x].queue
        /\ work'[x].embErr = work[x].embErr /\ work'[x].errs = work[x].errs \cup {n}
    BY <1>8, <1>i, BadRowFacts
  <2>2. /\ work[x].pc = "row" /\ UNCHANGED <<status, ckpt, errs, embedErr, written, embeds, eof>>
        /\ Body[j][n] = "bad"
    BY <1>8 DEF BadRow
  <2>3. n \notin written[j]
    BY <2>2, <1>j DEF IInv, WrittenGood, Good
  <2>4. CoverOK(x)'
    <3>1. /\ ckpt[j] <= work[x].idx
          /\ \A r \in 1 .. work[x].idx :
              /\ r \in written[j] \cup errs[j] \cup work[x].buf \cup work[x].errs
              /\ r \in written[j] =>
                    \/ r \in embeds[j] \/ embedErr[j] \/ r \in work[x].queue \/ work[x].embErr
      BY <2>2, <1>i DEF RunAll, CoverOK, Active
    <3>2. \A r \in 1 .. n : r \in 1 .. work[x].idx \/ r = n
      BY <1>w
    <3>3. ckpt[j] <= n
      BY <3>1, <1>w
    <3> QED
      BY <2>1, <2>2, <2>3, <3>1, <3>2, <3>3 DEF CoverOK
  <2>5. BufferOK(x)'
    BY <2>1, <2>2, <1>i, <1>w DEF RunAll, BufferOK, Buffering, Flushed, Good
  <2>6. StartOK(x)' /\ EndOK(x)'
    BY <2>1, <2>2, <1>i DEF RunAll, StartOK, EndOK, Active
  <2> QED
    BY <2>4, <2>5, <2>6 DEF RunAll
<1>9. CASE GoodRow(x)
  <2> DEFINE n == work[x].idx + 1
  <2>1. /\ \/ work'[x].pc = "row"
           \/ work'[x].pc = "flush" /\ work'[x].why # "end"
        /\ work'[x].from = work[x].from /\ work'[x].idx = n
        /\ work'[x].buf = work[x].buf \cup {n} /\ work'[x].queue = work[x].queue \cup {n}
        /\ work'[x].embErr = work[x].embErr /\ work'[x].errs = work[x].errs
    BY <1>9, <1>i, GoodRowFacts
  <2>2. /\ work[x].pc = "row" /\ UNCHANGED <<status, ckpt, errs, embedErr, written, embeds, eof>>
        /\ Body[j][n] = "good" /\ n <= arrived[j]
    BY <1>9 DEF GoodRow
  <2>c. /\ ckpt[j] <= work[x].idx
        /\ \A r \in 1 .. work[x].idx :
              /\ r \in written[j] \cup errs[j] \cup work[x].buf \cup work[x].errs
              /\ r \in written[j] =>
                    \/ r \in embeds[j] \/ embedErr[j] \/ r \in work[x].queue \/ work[x].embErr
    BY <2>2, <1>i DEF RunAll, CoverOK, Active
  <2>3. CoverOK(x)'
    <3>1. \A r \in 1 .. n : r \in 1 .. work[x].idx \/ r = n
      BY <1>w
    <3>2. ckpt[j] <= n
      BY <2>c, <1>w
    <3> QED
      BY <2>1, <2>2, <2>c, <3>1, <3>2 DEF CoverOK
  <2>4. BufferOK(x)'
    <3>1. /\ work[x].buf \subseteq Good(j) /\ work[x].buf \subseteq work[x].queue
          /\ \A r \in work[x].buf : ckpt[j] < r /\ r <= work[x].idx
      BY <2>2, <1>i DEF RunAll, BufferOK, Buffering
    <3>a. arrived[j] <= Len(Body[j]) /\ arrived[j] \in Nat
      BY <1>j DEF IInv, ArrivedOK, TypeOK
    <3>b. n \in 1 .. Len(Body[j]) /\ ckpt[j] < n
      BY <3>a, <2>2, <2>c, <1>w, <1>d
    <3>2. n \in Good(j) /\ ckpt[j] < n
      BY <3>b, <2>2, <1>d
    <3>3. work[x].buf \subseteq Nat
      BY <1>w DEF Run
    <3>4. \A r \in work[x].buf \cup {n} : ckpt[j] < r /\ r <= n
      BY <3>1, <3>2, <3>3, <1>w
    <3> QED
      BY <2>1, <2>2, <3>1, <3>2, <3>4 DEF BufferOK, Buffering, Flushed, Good
  <2>5. StartOK(x)' /\ EndOK(x)'
    BY <2>1, <2>2, <1>i DEF RunAll, StartOK, EndOK, Active
  <2> QED
    BY <2>3, <2>4, <2>5 DEF RunAll
<1>10. CASE Eof(x)
  <2>1. /\ HandsKept(x) /\ work'[x].pc = "flush" /\ work'[x].why = "end"
        /\ work'[x].idx = work[x].idx /\ work'[x].from = work[x].from
    BY <1>10, <1>i, EofFacts
  <2>2. /\ work[x].pc = "row" /\ UNCHANGED <<status, ckpt, errs, embedErr, written, embeds>>
        /\ eof'[j] <= work[x].idx
    BY <1>10, <1>i, <1>j DEF Eof, RunTypes
  <2>3. CoverOK(x)' /\ BufferOK(x)'
    BY <2>1, <2>2, <1>i DEF RunAll, CoverOK, BufferOK, Active, Buffering, Flushed, HandsKept, Good
  <2>4. StartOK(x)' /\ EndOK(x)'
    BY <2>1, <2>2, <1>i DEF RunAll, StartOK, EndOK, Active
  <2> QED
    BY <2>3, <2>4 DEF RunAll
<1>11. ASSUME NEW lost, Flush(x, lost) PROVE RunAll(x)'
  <2>1. /\ PlaceKept(x) /\ work'[x].pc = "embed" /\ work'[x].buf = {}
        /\ work'[x].errs = work[x].errs \cup lost
        /\ work'[x].queue = work[x].queue /\ work'[x].embErr = work[x].embErr
    BY <1>11, <1>i, FlushFacts
  <2>2. /\ work[x].pc = "flush" /\ UNCHANGED <<status, ckpt, errs, embedErr, embeds, eof>>
        /\ written'[j] = written[j] \cup (work[x].buf \ lost)
    BY <1>11, <1>i, <1>j DEF Flush, RunTypes
  <2>3. CoverOK(x)'
    <3>1. work[x].buf \subseteq work[x].queue
      BY <2>2, <1>i DEF RunAll, BufferOK, Buffering
    <3>2. /\ ckpt[j] <= work[x].idx
          /\ \A r \in 1 .. work[x].idx :
              /\ r \in written[j] \cup errs[j] \cup work[x].buf \cup work[x].errs
              /\ r \in written[j] =>
                    \/ r \in embeds[j] \/ embedErr[j] \/ r \in work[x].queue \/ work[x].embErr
      BY <2>2, <1>i DEF RunAll, CoverOK, Active
    <3> QED
      BY <2>1, <2>2, <3>1, <3>2 DEF CoverOK, PlaceKept
  <2>4. BufferOK(x)'
    BY <2>1 DEF BufferOK, Buffering, Flushed
  <2>5. StartOK(x)' /\ EndOK(x)'
    BY <2>1, <2>2, <1>i DEF RunAll, StartOK, EndOK, Active, PlaceKept
  <2> QED
    BY <2>3, <2>4, <2>5 DEF RunAll
<1>12. CASE Embed(x)
  <2>1. /\ PlaceKept(x) /\ work'[x].pc = "persist" /\ work'[x].queue = {}
        /\ work'[x].buf = work[x].buf /\ work'[x].errs = work[x].errs
        /\ work'[x].embErr = work[x].embErr
    BY <1>12, <1>i, EmbedFacts
  <2>2. /\ work[x].pc = "embed" /\ UNCHANGED <<status, ckpt, errs, embedErr, written, eof>>
        /\ embeds'[j] = embeds[j] \cup work[x].queue
    BY <1>12, <1>i, <1>j DEF Embed, MayEmbed, RunTypes
  <2>3. CoverOK(x)'
    BY <2>1, <2>2, <1>i DEF RunAll, CoverOK, Active, PlaceKept
  <2>4. BufferOK(x)'
    BY <2>1, <2>2, <1>i DEF RunAll, BufferOK, Buffering, Flushed
  <2>5. StartOK(x)' /\ EndOK(x)'
    BY <2>1, <2>2, <1>i DEF RunAll, StartOK, EndOK, Active, PlaceKept
  <2> QED
    BY <2>3, <2>4, <2>5 DEF RunAll
<1>13. CASE EmbedFails(x)
  <2>1. /\ PlaceKept(x) /\ work'[x].pc = "persist" /\ work'[x].embErr = TRUE
        /\ work'[x].buf = work[x].buf /\ work'[x].errs = work[x].errs
        /\ work'[x].queue = work[x].queue
    BY <1>13, <1>i, EmbedFailsFacts
  <2>2. work[x].pc = "embed" /\ UNCHANGED <<status, ckpt, errs, embedErr, written, embeds, eof>>
    BY <1>13 DEF EmbedFails, MayEmbed
  <2>3. CoverOK(x)'
    BY <2>1, <2>2, <1>i DEF RunAll, CoverOK, Active, PlaceKept
  <2>4. BufferOK(x)'
    BY <2>1, <2>2, <1>i DEF RunAll, BufferOK, Buffering, Flushed
  <2>5. StartOK(x)' /\ EndOK(x)'
    BY <2>1, <2>2, <1>i DEF RunAll, StartOK, EndOK, Active, PlaceKept
  <2> QED
    BY <2>3, <2>4, <2>5 DEF RunAll
<1>14. CASE Persist(x)
  <2>1. /\ work'[x].from = work[x].from /\ work'[x].idx = work[x].idx
        /\ work'[x].buf = work[x].buf /\ work'[x].queue = work[x].queue
        /\ work'[x].errs = {} /\ work'[x].embErr = FALSE
        /\ \/ work'[x].pc = "flush" /\ work'[x].why = "checkpoint"
           \/ work'[x].pc = "stamp" /\ work'[x].why = "end" /\ work[x].why = "end"
           \/ work'[x].pc = "row" /\ work'[x].why = work[x].why
    BY <1>14, <1>i, PersistFacts
  <2>2. /\ work[x].pc = "persist" /\ UNCHANGED <<status, written, embeds, eof>>
        /\ errs'[j] = errs[j] \cup work[x].errs
        /\ embedErr'[j] = (embedErr[j] \/ work[x].embErr)
        /\ ckpt'[j] \in {ckpt[j], work[x].idx}
    BY <1>14, <1>i, <1>j DEF Persist, RunTypes
  <2>3. work[x].buf = {}
    BY <2>2, <1>i DEF RunAll, BufferOK, Flushed
  <2>4. CoverOK(x)'
    <3>1. /\ ckpt[j] <= work[x].idx
          /\ \A r \in 1 .. work[x].idx :
              /\ r \in written[j] \cup errs[j] \cup work[x].buf \cup work[x].errs
              /\ r \in written[j] =>
                    \/ r \in embeds[j] \/ embedErr[j] \/ r \in work[x].queue \/ work[x].embErr
      BY <2>2, <1>i DEF RunAll, CoverOK, Active
    <3>2. ckpt'[j] <= work[x].idx
      BY <3>1, <2>2, <1>w
    <3> QED
      BY <2>1, <2>2, <3>1, <3>2 DEF CoverOK
  <2>5. BufferOK(x)'
    BY <2>1, <2>3 DEF BufferOK, Buffering, Flushed
  <2>6. StartOK(x)' /\ EndOK(x)'
    BY <2>1, <2>2, <1>i DEF RunAll, StartOK, EndOK, Active
  <2> QED
    BY <2>4, <2>5, <2>6 DEF RunAll
<1> QED
    BY <1>1, <1>2, <1>3, <1>4, <1>5, <1>6, <1>7, <1>8, <1>9, <1>10, <1>11, <1>12, <1>13,
       <1>14 DEF RunStep

-----------------------------------------------------------------------------
(* What is in the substrates. *)

\* A job whose rows do not move keeps its promises, unless it is stamped complete.
LEMMA KeptJob ==
  ASSUME IInv, NEW k \in Jobs, JobKept(k), status'[k] = "complete" => status[k] = "complete"
  PROVE  /\ written'[k] \subseteq Good(k)
         /\ \A r \in 1 .. ckpt'[k] : Settled(k, r)'
         /\ status'[k] = "complete" => \A r \in 1 .. eof'[k] : r \in written'[k] \cup errs'[k]
  BY DEF IInv, WrittenGood, CheckpointDurable, NothingSkipped, Settled, JobKept

\* The three promises, job by job.
LEMMA DataParts ==
  ASSUME \A k \in Jobs :
            /\ written'[k] \subseteq Good(k)
            /\ \A r \in 1 .. ckpt'[k] : Settled(k, r)'
            /\ status'[k] = "complete" => \A r \in 1 .. eof'[k] : r \in written'[k] \cup errs'[k]
  PROVE  WrittenGood' /\ CheckpointDurable' /\ NothingSkipped'
  BY DEF WrittenGood, CheckpointDurable, NothingSkipped, Settled, Good

\* The job of the run that steps.
LEMMA DataOwn ==
  ASSUME IInv, NEW x \in Runs, RunStep(x)
  PROVE  LET k == x[1]
         IN  /\ written'[k] \subseteq Good(k)
             /\ \A r \in 1 .. ckpt'[k] : Settled(k, r)'
             /\ status'[k] = "complete" => \A r \in 1 .. eof'[k] : r \in written'[k] \cup errs'[k]
<1> DEFINE j == x[1]
           Goal == /\ written'[j] \subseteq Good(j)
                   /\ \A r \in 1 .. ckpt'[j] : Settled(j, r)'
                   /\ status'[j] = "complete" => \A r \in 1 .. eof'[j] : r \in written'[j] \cup errs'[j]
<1>j. j \in Jobs
    BY RunParts
<1>i. TypeOK /\ RunTypes /\ RunAll(x)
    BY InvParts, RunTypesLemma DEF IInv
<1>w. work[x].idx \in Nat /\ ckpt[j] \in Nat /\ eof[j] \in Nat
    BY <1>i, <1>j, RunTyped DEF Run, RunTypes
<1>s. StatusMoves(x)
    BY <1>i, RunFrame
<1>d. /\ written[j] \subseteq Good(j)
      /\ \A r \in 1 .. ckpt[j] : Settled(j, r)
    BY <1>j DEF IInv, WrittenGood, CheckpointDurable, Settled
<1> USE DEF row, substrates, slots
<1>1. ASSUME NEW S, work[x].pc = "flush", S \subseteq work[x].buf,
             written'[j] = written[j] \cup S, UNCHANGED <<status, ckpt, errs, embedErr, embeds, eof>>
      PROVE  Goal
  <2>1. /\ work[x].buf \subseteq Good(j) /\ \A r \in work[x].buf : ckpt[j] < r
        /\ status[j] # "complete"
    BY <1>1, <1>i DEF RunAll, BufferOK, Buffering, EndOK, Active
  <2>2. \A r \in 1 .. ckpt[j] : r \notin S
    BY <1>1, <2>1, <1>w
  <2> QED
    BY <1>1, <1>d, <2>1, <2>2 DEF Settled
<1>2. ASSUME NEW lost, Flush(x, lost) PROVE Goal
  <2>1. /\ work[x].pc = "flush" /\ written'[j] = written[j] \cup (work[x].buf \ lost)
        /\ UNCHANGED <<status, ckpt, errs, embedErr, embeds, eof>>
    BY <1>2, <1>i, <1>j DEF Flush, RunTypes
  <2> QED
    BY <2>1, <1>1
<1>3. ASSUME NEW some, FlushThrows(x, some) PROVE Goal
  <2>1. /\ work[x].pc = "flush" /\ written'[j] = written[j] \cup some /\ some \subseteq work[x].buf
        /\ UNCHANGED <<status, ckpt, errs, embedErr, embeds, eof>>
    BY <1>3, <1>i, <1>j DEF FlushThrows, RunTypes
  <2> QED
    BY <2>1, <1>1
<1>4. CASE Embed(x)
  <2>1. /\ work[x].pc = "embed" /\ embeds'[j] = embeds[j] \cup work[x].queue
        /\ UNCHANGED <<status, ckpt, errs, embedErr, written, eof>>
    BY <1>4, <1>i, <1>j DEF Embed, MayEmbed, RunTypes
  <2>2. status[j] # "complete"
    BY <2>1, <1>i DEF RunAll, EndOK, Active
  <2> QED
    BY <1>d, <2>1, <2>2 DEF Settled
<1>5. CASE Eof(x)
  <2>1. /\ work[x].pc = "row" /\ UNCHANGED <<status, ckpt, errs, embedErr, written, embeds>>
    BY <1>5 DEF Eof
  <2>2. status[j] # "complete"
    BY <2>1, <1>i DEF RunAll, EndOK, Active
  <2> QED
    BY <1>d, <2>1, <2>2 DEF Settled
<1>6. CASE Persist(x)
  <2>1. /\ work[x].pc = "persist" /\ UNCHANGED <<status, written, embeds, eof>>
        /\ errs'[j] = errs[j] \cup work[x].errs
        /\ embedErr'[j] = (embedErr[j] \/ work[x].embErr)
        /\ ckpt'[j] \in {ckpt[j], work[x].idx}
    BY <1>6, <1>i, <1>j DEF Persist, RunTypes
  <2>2. /\ work[x].buf = {} /\ (work[x].queue = {} \/ work[x].embErr) /\ status[j] # "complete"
        /\ \A r \in 1 .. work[x].idx :
              /\ r \in written[j] \cup errs[j] \cup work[x].buf \cup work[x].errs
              /\ r \in written[j] =>
                    \/ r \in embeds[j] \/ embedErr[j] \/ r \in work[x].queue \/ work[x].embErr
    BY <2>1, <1>i DEF RunAll, CoverOK, BufferOK, EndOK, Active, Flushed
  <2>3. \A r \in 1 .. work[x].idx : Settled(j, r)'
    BY <2>1, <2>2 DEF Settled
  <2>4. \A r \in 1 .. ckpt[j] : Settled(j, r)'
    BY <2>1, <1>d DEF Settled
  <2> QED
    BY <1>d, <2>1, <2>2, <2>3, <2>4
<1>7. CASE Stamp(x)
  <2>1. work[x].pc = "stamp" /\ UNCHANGED <<ckpt, errs, embedErr, written, embeds, eof>>
    BY <1>7 DEF Stamp
  <2>2. /\ work[x].buf = {} /\ work[x].errs = {} /\ eof[j] <= work[x].idx
        /\ \A r \in 1 .. work[x].idx : r \in written[j] \cup errs[j] \cup work[x].buf \cup work[x].errs
    BY <2>1, <1>i DEF RunAll, CoverOK, BufferOK, EndOK, Active, Flushed
  <2>3. \A r \in 1 .. eof[j] : r \in written[j] \cup errs[j]
    BY <2>2, <1>w
  <2> QED
    BY <1>d, <2>1, <2>3 DEF Settled
<1>8. CASE ~Stamp(x) /\ JobKept(j)
    BY <1>8, <1>j, <1>s, KeptJob DEF StatusMoves
<1>9. \/ Embed(x) \/ Eof(x) \/ Persist(x) \/ Stamp(x) \/ JobKept(j)
      \/ \E S \in SUBSET work[x].buf : Flush(x, S) \/ FlushThrows(x, S)
    BY DEF RunStep, Claim, NotClaimed, Reenter, Open, OpenFails, CancelSeen, BadRow, GoodRow,
           EmbedFails, Throws, Notify, Failed, Cancelled, Catch, Uncaught, Release, JobKept
<1> QED
    BY <1>2, <1>3, <1>4, <1>5, <1>6, <1>7, <1>8, <1>9

LEMMA InvRun ==
  ASSUME IInv, NEW x \in Runs, RunStep(x)
  PROVE  IInv'
<1>1. TypeOK' /\ Fresh' /\ Cold' /\ OneOwner'
    BY TypeRun, ControlRun, InvParts DEF IInv
<1>2. RunOK'
  <2>1. \A y \in Runs : RunAll(y)'
    BY OwnRun, OtherRuns
  <2> QED
    BY <2>1 DEF RunOK, RunAll
<1>3. \A k \in Jobs : /\ written'[k] \subseteq Good(k)
                      /\ \A r \in 1 .. ckpt'[k] : Settled(k, r)'
                      /\ status'[k] = "complete" =>
                            \A r \in 1 .. eof'[k] : r \in written'[k] \cup errs'[k]
  <2> SUFFICES ASSUME NEW k \in Jobs
               PROVE  /\ written'[k] \subseteq Good(k)
                      /\ \A r \in 1 .. ckpt'[k] : Settled(k, r)'
                      /\ status'[k] = "complete" =>
                            \A r \in 1 .. eof'[k] : r \in written'[k] \cup errs'[k]
    OBVIOUS
  <2>1. CASE k = x[1]
    BY <2>1, DataOwn
  <2>2. CASE k # x[1]
    <3>1. JobKept(k) /\ status'[k] = status[k]
      BY <2>2, RunFrame DEF IInv
    <3> QED
      BY <3>1, KeptJob
  <2> QED
    BY <2>1, <2>2
<1>4. ArrivedOK'
    BY RunFrame DEF IInv, ArrivedOK, still
<1> QED
    BY <1>1, <1>2, <1>3, <1>4, DataParts DEF IInv

LEMMA InvRoute ==
  ASSUME IInv, NEW j \in Jobs, Route(j)
  PROVE  IInv'
<1>1. TypeOK' /\ Fresh' /\ Cold' /\ OneOwner'
    BY TypeRoute, ControlRoute, InvParts DEF IInv
<1>2. UNCHANGED <<work, ckpt, errs, embedErr, written, embeds, eof>>
    BY DEF Route, Reject, Accept, OpenTemp, Arrive, Ack, UploadFails, RequestCancel, StampCancel,
           Sweep, memory, store, disk
<1>3. \A k \in Jobs : JobKept(k) /\ (status'[k] = "complete" => status[k] = "complete")
    BY <1>2, RouteStatus DEF IInv, JobKept
<1>4. RunOK'
  <2>1. \A y \in Runs : RunAll(y)'
    BY <1>2, <1>3, KeptRun, InvParts, RunParts
  <2> QED
    BY <2>1 DEF RunOK, RunAll
<1>5. WrittenGood' /\ CheckpointDurable' /\ NothingSkipped'
    BY <1>3, KeptJob, DataParts
<1>6. ArrivedOK'
  <2>1. CASE Arrive(j)
    <3>1. \A k \in Jobs : Len(Body[k]) \in Nat /\ arrived[k] \in Nat /\ arrived[k] <= Len(Body[k])
      BY LoadAssumption DEF IInv, ArrivedOK, TypeOK
    <3> QED
      BY <2>1, <3>1 DEF Arrive, IInv, TypeOK, ArrivedOK
  <2>2. CASE ~Arrive(j)
    BY <2>2 DEF Route, Reject, Accept, OpenTemp, Ack, UploadFails, RequestCancel, StampCancel,
                Sweep, disk, IInv, ArrivedOK
  <2> QED
    BY <2>1, <2>2
<1> QED
    BY <1>1, <1>4, <1>5, <1>6 DEF IInv

LEMMA InvLoop ==
  ASSUME IInv, Loop \/ Crash
  PROVE  IInv'
<1>1. TypeOK' /\ Fresh' /\ Cold' /\ OneOwner'
    BY TypeLoop, ControlLoop, InvParts DEF IInv
<1>2. UNCHANGED <<status, ckpt, errs, embedErr, written, embeds, eof, arrived>>
    BY DEF Loop, Reconcile, ResumeRunning, RecoveryFails, ListReceived, NextJob, Crash, store, disk
<1>3. \A k \in Jobs : JobKept(k)
    BY <1>2 DEF JobKept
<1>4. WrittenGood' /\ CheckpointDurable' /\ NothingSkipped' /\ ArrivedOK'
    BY <1>2, <1>3, KeptJob, DataParts DEF IInv, ArrivedOK
<1>5. \A y \in Runs : RunAll(y)'
  <2> SUFFICES ASSUME NEW y \in Runs PROVE RunAll(y)'
    OBVIOUS
  <2>y. y[1] \in Jobs /\ (y[2] = "loop" \/ y[2] = "resume") /\ RunAll(y)
    BY RunParts, InvParts
  <2>1. CASE work'[y] = work[y]
    BY <2>1, <2>y, <1>2, <1>3, KeptRun
  <2>2. CASE /\ work'[y].pc = "claim" /\ work'[y].buf = {}
             /\ y[2] = "loop" => work'[y].from = 0
             /\ y[2] = "resume" => work'[y].from = ckpt[y[1]] /\ status[y[1]] = "running"
    BY <2>2, <1>2 DEF RunAll, StartOK, CoverOK, BufferOK, EndOK, Active, Buffering, Flushed
  <2>3. CASE work'[y] = Idle
    BY <2>3, IdleRun DEF Idle
  <2>4. CASE ResumeRunning
    <3>1. CASE y[2] = "resume" /\ y[1] \in Running
      <4>1. work'[y] = [Idle EXCEPT !.pc = "claim", !.from = ckpt[y[1]]]
        BY <2>4, <3>1 DEF ResumeRunning
      <4>2. work'[y].pc = "claim" /\ work'[y].buf = {} /\ work'[y].from = ckpt[y[1]]
        BY <4>1 DEF Idle
      <4> QED
        BY <4>2, <3>1, <2>2 DEF Running
    <3>2. CASE ~(y[2] = "resume" /\ y[1] \in Running)
      BY <2>4, <3>2, <2>1 DEF ResumeRunning
    <3> QED
      BY <3>1, <3>2
  <2>5. CASE NextJob
    <3>1. PICK j \in tick : work' = [work EXCEPT ![<<j, "loop">>] = [Idle EXCEPT !.pc = "claim"]]
      BY <2>5 DEF NextJob
    <3>2. CASE y = <<j, "loop">>
      <4>1. work'[y] = [Idle EXCEPT !.pc = "claim"]
        BY <3>1, <3>2, WorkTyped DEF IInv
      <4>2. work'[y].pc = "claim" /\ work'[y].buf = {} /\ work'[y].from = 0 /\ y[2] = "loop"
        BY <4>1, <3>2 DEF Idle
      <4> QED
        BY <4>2, <2>2
    <3>3. CASE y # <<j, "loop">>
      BY <3>1, <3>3, <2>1, WorkTyped DEF IInv
    <3> QED
      BY <3>2, <3>3
  <2>6. CASE Crash
    BY <2>3, <2>6 DEF Crash
  <2>7. CASE Reconcile \/ RecoveryFails \/ ListReceived
    BY <2>1, <2>7 DEF Reconcile, RecoveryFails, ListReceived
  <2> QED
    BY <2>4, <2>5, <2>6, <2>7 DEF Loop
<1> QED
    BY <1>1, <1>4, <1>5 DEF IInv, RunOK, RunAll

LEMMA InvStutter ==
  ASSUME IInv, UNCHANGED vars
  PROVE  IInv'
<1>1. TypeOK' /\ Fresh' /\ Cold' /\ OneOwner' /\ ArrivedOK'
    BY TypeStep DEF IInv, Fresh, Cold, OneOwner, Busy, ArrivedOK, vars, store, disk, memory, client
<1>2. UNCHANGED <<status, ckpt, errs, embedErr, written, embeds, eof, work>>
    BY DEF vars, store, disk, memory
<1>3. \A k \in Jobs : JobKept(k) /\ status'[k] = status[k]
    BY <1>2 DEF JobKept
<1>4. \A y \in Runs : RunAll(y)'
    BY <1>2, <1>3, KeptRun, InvParts, RunParts
<1> QED
    BY <1>1, <1>3, <1>4, KeptJob, DataParts DEF IInv, RunOK, RunAll

LEMMA InvInit == Init => IInv
<1> SUFFICES ASSUME Init PROVE IInv
    OBVIOUS
<1>1. TypeOK
    BY TypeInit
<1>2. \A x \in Runs : work[x] = Idle
    BY DEF Init
<1>3. RunOK
    BY <1>2 DEF RunOK, StartOK, CoverOK, BufferOK, EndOK, Active, Buffering, Flushed, Idle
<1>4. \A k \in Jobs : work[<<k, "loop">>].pc = "off" /\ work[<<k, "resume">>].pc = "off"
    BY <1>2 DEF Idle, Runs, Callers
<1>5. Fresh /\ Cold /\ OneOwner
    BY <1>2, <1>4 DEF Init, Fresh, Cold, OneOwner, Busy, Idle
<1>6. ArrivedOK
    BY LoadAssumption DEF Init, ArrivedOK
<1>7. WrittenGood /\ CheckpointDurable /\ NothingSkipped
    BY DEF Init, WrittenGood, CheckpointDurable, NothingSkipped
<1> QED
    BY <1>1, <1>3, <1>5, <1>6, <1>7 DEF IInv

\* The invariant is inductive.
LEMMA InvStep == IInv /\ [Next]_vars => IInv'
  BY InvRun, InvRoute, InvLoop, InvStutter DEF Next, Poll

LEMMA Inductive == Spec => []IInv
  BY InvInit, InvStep, PTL DEF Spec

-----------------------------------------------------------------------------

\* The store, the daemon's memory and the clients always have their types.
THEOREM LoadsTypeCorrect == Spec => []TypeOK
  BY Inductive, PTL DEF IInv

\* What a checkpoint covers is durable, whatever the runner, the routes, their
\* faults and the crashes do.
THEOREM CheckpointsDurable == Spec => []CheckpointDurable
  BY Inductive, PTL DEF IInv

\* A complete job has written or reported every row its parse read.
THEOREM CompleteSkipsNothing == Spec => []NothingSkipped
  BY Inductive, PTL DEF IInv

\* The loop and a resume never process the same job at once.
THEOREM OneRunPerJob == Spec => []NoDoubleRun
<1>1. IInv => NoDoubleRun
  <2> SUFFICES ASSUME IInv, NEW j \in Jobs PROVE ~(Busy(<<j, "loop">>) /\ Busy(<<j, "resume">>))
    BY DEF NoDoubleRun, Callers
  <2> QED
    BY DEF IInv, OneOwner, Busy
<1> QED
    BY <1>1, Inductive, PTL

\* A cancel that has been stamped is never turned into a run or a success.
THEOREM CancelIsFinal == Spec => CancelWins
<1> DEFINE Kept == \A j \in Jobs : status[j] = "cancelled" => status'[j] \in {"cancelled", "failed"}
<1>1. IInv /\ [Next]_vars => Kept
  <2> SUFFICES ASSUME IInv, [Next]_vars, NEW j \in Jobs, status[j] = "cancelled"
               PROVE  status'[j] \in {"cancelled", "failed"}
    OBVIOUS
  <2>1. ASSUME NEW x \in Runs, RunStep(x) PROVE status'[j] = "cancelled"
    <3>1. (j # x[1] => status'[j] = status[j]) /\ StatusMoves(x)
      BY <2>1, RunFrame DEF IInv
    <3> QED
      BY <3>1 DEF StatusMoves, Claim
  <2>2. ASSUME NEW k \in Jobs, Route(k) PROVE status'[j] \in {"cancelled", "failed"}
    BY <2>2, RouteStatus DEF IInv
  <2>3. CASE Loop \/ Crash
    BY <2>3 DEF Loop, Reconcile, ResumeRunning, RecoveryFails, ListReceived, NextJob, Crash, store
  <2>4. CASE UNCHANGED vars
    BY <2>4 DEF vars, store
  <2> QED
    BY <2>1, <2>2, <2>3, <2>4 DEF Next, Poll
<1>2. IInv /\ [Next]_vars => [Kept]_vars
    BY <1>1
<1> QED
    BY <1>2, Inductive, PTL DEF Spec, CancelWins

=============================================================================
