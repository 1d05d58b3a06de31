-------------------------- MODULE LoadSlotsProofs --------------------------
(***************************************************************************)
(* For any number of jobs and any cap: the concurrency counter and the     *)
(* jobs it stands for bound each other.  No slot is kept for nobody, and   *)
(* once the counters are recovered no job is admitted beyond the cap, but  *)
(* for one per failed upload.                                              *)
(***************************************************************************)
EXTENDS LoadJobsProofs

-----------------------------------------------------------------------------
(* The inductive invariant. *)

\* The daemon that is down, or is still recovering, has nothing in memory.
Blank ==
    /\ boot = "down" => count = 0
    /\ boot \in {"down", "reconciled"} => tick = {} /\ unresumed = {}

\* A job is with the loop, listed or run, or with a resume, never with both; and what
\* the loop has claimed is not received any more.
OneHand ==
    \A j \in Jobs :
        /\ j \in tick \/ work[<<j, "loop">>].pc # "off" =>
              work[<<j, "resume">>].pc = "off" /\ status[j] # "none"
        /\ work[<<j, "loop">>].pc # "off" => j \notin tick
        /\ work[<<j, "loop">>].pc \notin {"off", "claim"} => status[j] # "received"
        /\ j \in unresumed => status[j] # "none"

HasRun(j) == \E c \in Callers : work[<<j, c>>].pc # "off"

\* The jobs that hold, or will ask to give back, a slot.
Holding ==
    {j \in Jobs : \/ status[j] = "received" \/ j \in tick \/ HasRun(j)
                  \/ boot = "reconciled" /\ status[j] = "running"}

\* Every such job has its slot, but for one per upload that failed.
Covered ==
    boot \in {"reconciled", "up"} => Cardinality(Holding) <= count + Cardinality(FailedUploads)

SlotInv == IInv /\ Blank /\ OneHand /\ SlotsReturned /\ Covered

-----------------------------------------------------------------------------
(* Counting jobs. *)

\* Sets of jobs and their sizes: a part, a part that lacks one job, and one job more.
LEMMA JobCounts ==
  ASSUME NEW S \in SUBSET Jobs, NEW T \in SUBSET Jobs
  PROVE  /\ Cardinality(S) \in Nat /\ Cardinality(T) \in Nat
         /\ S \subseteq T => Cardinality(S) <= Cardinality(T)
         /\ \A j \in Jobs : S \subseteq T /\ j \in T /\ j \notin S
                              => Cardinality(S) + 1 <= Cardinality(T)
         /\ \A j \in Jobs : T \subseteq S \cup {j} => Cardinality(T) <= Cardinality(S) + 1
<1>1. \A V \in SUBSET Jobs : IsFiniteSet(V) /\ Cardinality(V) \in Nat
    BY LoadAssumption, FS_Subset, FS_CardinalityType
<1>2. \A V, W \in SUBSET Jobs : V \subseteq W => Cardinality(V) <= Cardinality(W)
    BY <1>1, FS_Subset
<1>3. ASSUME NEW j \in Jobs
      PROVE  /\ S \cup {j} \in SUBSET Jobs
             /\ Cardinality(S \cup {j}) = IF j \in S THEN Cardinality(S) ELSE Cardinality(S) + 1
    BY <1>1, <1>3, FS_AddElement
<1>4. ASSUME NEW j \in Jobs, S \subseteq T, j \in T, j \notin S
      PROVE  Cardinality(S) + 1 <= Cardinality(T)
  <2>1. S \cup {j} \subseteq T
    BY <1>4
  <2> QED
    BY <2>1, <1>2, <1>3, <1>4
<1>5. ASSUME NEW j \in Jobs, T \subseteq S \cup {j}
      PROVE  Cardinality(T) <= Cardinality(S) + 1
  <2>1. Cardinality(T) <= Cardinality(S \cup {j})
    BY <1>2, <1>3, <1>5
  <2> QED
    BY <2>1, <1>1, <1>3
<1> QED
    BY <1>1, <1>2, <1>4, <1>5

\* The sets that are counted are sets of jobs, hence finite.
LEMMA SlotSets ==
  /\ SlotUsers \in SUBSET Jobs /\ Holding \in SUBSET Jobs
  /\ InFlight \in SUBSET Jobs /\ FailedUploads \in SUBSET Jobs
  BY DEF SlotUsers, Holding, InFlight, FailedUploads

\* Giving a slot back takes at most one from the counter.
LEMMA ReleasedOne ==
  ASSUME TypeOK
  PROVE  /\ count \in Nat /\ Released(count) \in Nat
         /\ Released(count) <= count /\ count <= Released(count) + 1
         /\ count > 0 => Released(count) = count - 1
<1>1. count \in Nat
    BY Zenon DEF TypeOK
<1> QED
    BY <1>1 DEF Released

-----------------------------------------------------------------------------
(* What a step of a run does to the slots. *)

\* A run keeps its slot until its last step, which gives one back.
LEMMA RunSlots ==
  ASSUME TypeOK, NEW x \in Runs, RunStep(x)
  PROVE  /\ unresumed \subseteq unresumed' /\ unresumed' \subseteq unresumed \cup {x[1]}
         /\ \/ count' = count /\ work'[x].pc # "off"
            \/ /\ count' = Released(count) /\ work'[x].pc = "off"
               /\ work[x].pc \in {"release", "uncaught"}
<1>pc. {"open", "release", "uncaught", "cancelled", "fail", "notify"} \subseteq PCs
    BY DEF PCs
<1> USE DEF row, substrates, slots
<1>1. CASE \/ Claim(x) \/ NotClaimed(x) \/ Reenter(x) \/ CancelSeen(x) \/ OpenFails(x)
           \/ Throws(x) \/ Notify(x) \/ Stamp(x)
  <2>1. work'[x].pc \in {"open", "release", "uncaught", "cancelled", "fail", "notify"}
    BY <1>1, <1>pc, ToFacts DEF Claim, NotClaimed, Reenter, CancelSeen, OpenFails, Throws, Notify,
                                Stamp
  <2> QED
    BY <1>1, <2>1 DEF Claim, NotClaimed, Reenter, CancelSeen, OpenFails, Throws, Notify, Stamp
<1>2. CASE Open(x) \/ BadRow(x) \/ GoodRow(x) \/ EmbedFails(x) \/ Embed(x) \/ Persist(x) \/ Eof(x)
  <2>1. work'[x].pc # "off"
    BY <1>2, OpenFacts, BadRowFacts, GoodRowFacts, EmbedFailsFacts, EmbedFacts, PersistFacts,
       EofFacts
  <2> QED
    BY <1>2, <2>1 DEF Open, BadRow, GoodRow, EmbedFails, Embed, Persist, Eof
<1>3. ASSUME NEW lost, Flush(x, lost)
      PROVE  UNCHANGED <<count, unresumed>> /\ work'[x].pc # "off"
    BY <1>3, FlushFacts DEF Flush
<1>4. ASSUME NEW some, FlushThrows(x, some)
      PROVE  UNCHANGED <<count, unresumed>> /\ work'[x].pc # "off"
    BY <1>4, <1>pc, ToFacts DEF FlushThrows
<1>5. CASE Failed(x) \/ Cancelled(x)
    BY <1>5, CatchFacts DEF Failed, Cancelled, Catch
<1>6. CASE Uncaught(x) \/ Release(x)
  <2>1. work'[x] = Idle
    BY <1>6, IdleType, BecomeFacts DEF Uncaught, Release
  <2>2. work'[x].pc = "off"
    BY <2>1 DEF Idle
  <2> QED
    BY <1>6, <2>2 DEF Uncaught, Release
<1> QED
    BY <1>1, <1>2, <1>3, <1>4, <1>5, <1>6 DEF RunStep

\* A claimed job is not received any more.
LEMMA LoopClaims ==
  ASSUME IInv, OneHand, NEW x \in Runs, RunStep(x), x[2] = "loop",
         work'[x].pc \notin {"off", "claim"}
  PROVE  status'[x[1]] # "received"
<1> DEFINE j == x[1]
<1>j. j \in Jobs /\ x = <<j, "loop">>
    BY RunParts
<1>f. StatusMoves(x)
    BY RunFrame DEF IInv
<1>1. CASE work[x].pc = "claim"
  <2>1. \/ Claim(x) \/ NotClaimed(x) \/ Reenter(x)
    BY <1>1 DEF RunStep, Open, OpenFails, CancelSeen, BadRow, GoodRow, Eof, Flush, FlushThrows,
                Embed, EmbedFails, Persist, Throws, MayEmbed, Stamp, Notify, Failed, Cancelled,
                Catch, Uncaught, Release
  <2>2. ~IsResume(x)
    BY DEF IInv, RunOK, StartOK, IsResume
  <2>3. CASE Claim(x)
    BY <2>3, <1>j DEF Claim, IInv, TypeOK
  <2>4. CASE NotClaimed(x)
    BY <2>2, <2>4 DEF NotClaimed, row
  <2> QED
    BY <2>1, <2>2, <2>3, <2>4 DEF Reenter
<1>2. CASE work[x].pc # "claim"
  <2>1. work[x].pc # "off"
    BY RunFrame DEF IInv
  <2>2. status[j] # "received"
    BY <1>2, <1>j, <2>1 DEF OneHand
  <2> QED
    BY <1>f, <2>2 DEF StatusMoves, Terminal
<1> QED
    BY <1>1, <1>2

\* A run of job x[1] steps.
LEMMA SlotsRun ==
  ASSUME SlotInv, NEW x \in Runs, RunStep(x)
  PROVE  Blank' /\ OneHand' /\ SlotsReturned' /\ Covered'
<1> DEFINE j == x[1]
<1>i. IInv /\ TypeOK /\ Blank /\ OneHand /\ OneOwner /\ Cold
    BY DEF SlotInv, IInv
<1>j. j \in Jobs /\ x = <<j, x[2]>> /\ x[2] \in {"loop", "resume"}
    BY RunParts
<1>f. /\ OthersKept(x) /\ work[x].pc # "off" /\ UNCHANGED <<boot, tick, upload>>
      /\ \A k \in Jobs \ {j} : status'[k] = status[k]
      /\ StatusMoves(x)
    BY <1>i, RunFrame DEF still, client
<1>s. /\ unresumed \subseteq unresumed' /\ unresumed' \subseteq unresumed \cup {j}
      /\ \/ count' = count /\ work'[x].pc # "off"
         \/ /\ count' = Released(count) /\ work'[x].pc = "off"
            /\ work[x].pc \in {"release", "uncaught"}
    BY <1>i, RunSlots
<1>b. boot \notin {"down", "reconciled"}
    BY <1>i, <1>f DEF Cold
<1>n. status[j] # "none" /\ status'[j] # "none"
  <2>1. status[j] # "none"
    BY <1>i, <1>j, <1>f DEF OneHand, OneOwner
  <2> QED
    BY <2>1, <1>f DEF StatusMoves, Terminal
<1>r. \A k \in Jobs : /\ <<k, "loop">> \in Runs /\ <<k, "resume">> \in Runs
                      /\ k # j => <<k, "loop">> # x /\ <<k, "resume">> # x
    BY <1>j DEF Runs, Callers
<1>k. \A k \in Jobs \ {j} : /\ work'[<<k, "loop">>] = work[<<k, "loop">>]
                            /\ work'[<<k, "resume">>] = work[<<k, "resume">>]
    BY <1>r, <1>f DEF OthersKept
<1>1. Blank'
    BY <1>b, <1>f DEF Blank
<1>2. OneHand'
  <2> SUFFICES ASSUME NEW k \in Jobs
               PROVE  /\ k \in tick \/ work'[<<k, "loop">>].pc # "off" =>
                           work'[<<k, "resume">>].pc = "off" /\ status'[k] # "none"
                      /\ work'[<<k, "loop">>].pc # "off" => k \notin tick
                      /\ work'[<<k, "loop">>].pc \notin {"off", "claim"} => status'[k] # "received"
                      /\ k \in unresumed' => status'[k] # "none"
    BY <1>f DEF OneHand
  <2>h. /\ k \in tick \/ work[<<k, "loop">>].pc # "off" =>
              work[<<k, "resume">>].pc = "off" /\ status[k] # "none"
        /\ work[<<k, "loop">>].pc # "off" => k \notin tick
        /\ work[<<k, "loop">>].pc \notin {"off", "claim"} => status[k] # "received"
        /\ k \in unresumed => status[k] # "none"
    BY <1>i DEF OneHand
  <2>1. CASE k # j
    BY <2>1, <2>h, <1>k, <1>f, <1>s
  <2>2. CASE k = j /\ x[2] = "loop"
    <3>1. x = <<k, "loop">> /\ work'[<<k, "resume">>] = work[<<k, "resume">>]
      BY <2>2, <1>r, <1>j, <1>f DEF OthersKept
    <3>2. work'[x].pc \notin {"off", "claim"} => status'[k] # "received"
      BY <2>2, <1>i, LoopClaims
    <3> QED
      BY <3>1, <3>2, <2>2, <2>h, <1>f, <1>n
  <2>3. CASE k = j /\ x[2] = "resume"
    <3>1. x = <<k, "resume">> /\ work'[<<k, "loop">>] = work[<<k, "loop">>]
      BY <2>3, <1>r, <1>j, <1>f DEF OthersKept
    <3> QED
      BY <3>1, <2>3, <2>h, <1>f, <1>n
  <2> QED
    BY <2>1, <2>2, <2>3, <1>j
<1>u. SlotUsers \subseteq SlotUsers' \cup {j}
    BY <1>f, <1>s, <1>k DEF SlotUsers, Callers
<1>3. SlotsReturned'
  <2>0. count <= Cardinality(SlotUsers) /\ SlotUsers' \in SUBSET Jobs
    BY SlotSets DEF SlotInv, SlotsReturned, SlotUsers
  <2>c. /\ Cardinality(SlotUsers) \in Nat /\ Cardinality(SlotUsers') \in Nat
        /\ SlotUsers \subseteq SlotUsers' => Cardinality(SlotUsers) <= Cardinality(SlotUsers')
        /\ Cardinality(SlotUsers) <= Cardinality(SlotUsers') + 1
    BY <2>0, <1>j, <1>u, SlotSets, JobCounts
  <2>1. CASE count' = count /\ work'[x].pc # "off"
    <3>1. j \in SlotUsers'
      BY <2>1, <1>j DEF SlotUsers, Callers
    <3> QED
      BY <3>1, <2>0, <2>1, <2>c, <1>u, <1>i, ReleasedOne DEF SlotsReturned
  <2>2. CASE count' = Released(count)
    BY <2>0, <2>2, <2>c, <1>i, ReleasedOne DEF SlotsReturned, Released
  <2> QED
    BY <2>1, <2>2, <1>s
<1>4. Covered'
  <2> SUFFICES ASSUME boot = "up"
               PROVE  Cardinality(Holding') <= count' + Cardinality(FailedUploads')
    BY <1>b, <1>f DEF Covered
  <2>0. /\ Cardinality(Holding) <= count + Cardinality(FailedUploads)
        /\ FailedUploads' = FailedUploads /\ Holding' \in SUBSET Jobs
    BY <1>f DEF SlotInv, Covered, Holding, FailedUploads
  <2>1. Holding' \subseteq Holding /\ j \in Holding
    BY <1>b, <1>f, <1>j, <1>k DEF Holding, HasRun, Callers
  <2>c. /\ Cardinality(Holding) \in Nat /\ Cardinality(Holding') \in Nat
        /\ Cardinality(FailedUploads) \in Nat
        /\ Cardinality(Holding') <= Cardinality(Holding)
        /\ j \notin Holding' => Cardinality(Holding') + 1 <= Cardinality(Holding)
    BY <2>0, <2>1, <1>j, SlotSets, JobCounts
  <2>2. CASE count' = count
    BY <2>0, <2>2, <2>c, <1>i, ReleasedOne
  <2>3. CASE /\ count' = Released(count) /\ work'[x].pc = "off"
             /\ work[x].pc \in {"release", "uncaught"}
    <3>1. ASSUME x[2] = "loop" PROVE j \notin Holding'
      <4>1. /\ x = <<j, "loop">> /\ work'[<<j, "resume">>] = work[<<j, "resume">>]
        BY <3>1, <1>r, <1>j, <1>f DEF OthersKept
      <4>2. /\ work[<<j, "resume">>].pc = "off" /\ j \notin tick /\ status[j] # "received"
        BY <4>1, <2>3, <1>i, <1>j DEF OneHand
      <4>3. status'[j] # "received"
        BY <4>2, <1>f DEF StatusMoves, Terminal
      <4> QED
        BY <4>1, <4>2, <4>3, <2>3, <1>b, <1>f DEF Holding, HasRun, Callers
    <3>2. ASSUME x[2] = "resume" PROVE j \notin Holding'
      <4>1. /\ x = <<j, "resume">> /\ work'[<<j, "loop">>] = work[<<j, "loop">>]
        BY <3>2, <1>r, <1>j, <1>f DEF OthersKept
      <4>2. /\ work[<<j, "loop">>].pc = "off" /\ j \notin tick /\ status[j] # "received"
        BY <4>1, <2>3, <1>i, <1>j DEF OneHand, OneOwner
      <4>3. status'[j] # "received"
        BY <4>2, <1>f DEF StatusMoves, Terminal
      <4> QED
        BY <4>1, <4>2, <4>3, <2>3, <1>b, <1>f DEF Holding, HasRun, Callers
    <3>3. j \notin Holding'
      BY <3>1, <3>2, <1>j
    <3> QED
      BY <3>3, <2>0, <2>3, <2>c, <1>i, ReleasedOne
  <2> QED
    BY <2>2, <2>3, <1>s
<1> QED
    BY <1>1, <1>2, <1>3, <1>4

\* A step that leaves the runs, the lists, the counter and the failed uploads alone,
\* and moves a status at most from waiting or running to cancelled.
LEMMA SlotsKept ==
  ASSUME SlotInv, UNCHANGED <<boot, count, tick, work, unresumed, FailedUploads>>,
         \A k \in Jobs : \/ status'[k] = status[k]
                         \/ status'[k] = "cancelled" /\ status[k] \in {"received", "running"}
  PROVE  Blank' /\ OneHand' /\ SlotsReturned' /\ Covered'
<1>1. Blank'
    BY DEF SlotInv, Blank
<1>2. OneHand'
    BY DEF SlotInv, OneHand
<1>s. /\ SlotUsers \subseteq SlotUsers' /\ SlotUsers' \in SUBSET Jobs
      /\ Holding' \subseteq Holding /\ Holding' \in SUBSET Jobs
    BY DEF SlotUsers, Holding, HasRun
<1>c. /\ Cardinality(SlotUsers) <= Cardinality(SlotUsers')
      /\ Cardinality(Holding') <= Cardinality(Holding)
      /\ Cardinality(SlotUsers) \in Nat /\ Cardinality(SlotUsers') \in Nat
      /\ Cardinality(Holding) \in Nat /\ Cardinality(Holding') \in Nat
      /\ Cardinality(FailedUploads) \in Nat /\ count \in Nat
    BY <1>s, SlotSets, JobCounts, ReleasedOne DEF SlotInv, IInv
<1>3. SlotsReturned'
    BY <1>c DEF SlotInv, SlotsReturned
<1>4. Covered'
    BY <1>c DEF SlotInv, Covered
<1> QED
    BY <1>1, <1>2, <1>3, <1>4

\* The routes: upload, cancel and their failures.
LEMMA SlotsRoute ==
  ASSUME SlotInv, NEW j \in Jobs, Route(j)
  PROVE  Blank' /\ OneHand' /\ SlotsReturned' /\ Covered'
<1>i. IInv /\ TypeOK /\ Fresh /\ Blank /\ OneHand /\ OneOwner /\ Cold
    BY DEF SlotInv, IInv
<1>n. count \in Nat
    BY <1>i, ReleasedOne
<1>0. /\ count <= Cardinality(SlotUsers) /\ SlotUsers' \in SUBSET Jobs
      /\ Holding' \in SUBSET Jobs /\ FailedUploads' \in SUBSET Jobs
    BY DEF SlotInv, SlotsReturned, SlotUsers, Holding, FailedUploads
<1>1. CASE Accept(j)
  <2>1. /\ Serving /\ upload[j] \in {"none", "rejected"} /\ count' = count + 1
        /\ UNCHANGED <<boot, unresumed, tick, work>>
        /\ status'[j] = "received" /\ \A k \in Jobs \ {j} : status'[k] = status[k]
        /\ FailedUploads' = FailedUploads
    BY <1>1, <1>i DEF Accept, TypeOK, FailedUploads
  <2>2. status[j] = "none"
    BY <2>1, <1>i DEF Fresh
  <2>3. /\ work[<<j, "loop">>].pc = "off" /\ work[<<j, "resume">>].pc = "off"
        /\ j \notin tick /\ j \notin unresumed
    BY <2>2, <1>i DEF OneHand, OneOwner
  <2>4. Blank'
    BY <2>1 DEF Blank, Serving
  <2>5. OneHand'
    BY <2>1, <2>3, <1>i DEF OneHand
  <2>6. SlotsReturned'
    <3>1. j \notin SlotUsers /\ j \in SlotUsers' /\ SlotUsers \subseteq SlotUsers'
      BY <2>1, <2>2, <2>3 DEF SlotUsers, Callers, Serving
    <3>2. Cardinality(SlotUsers) + 1 <= Cardinality(SlotUsers')
      BY <3>1, <1>0, SlotSets, JobCounts
    <3>3. Cardinality(SlotUsers) \in Nat /\ Cardinality(SlotUsers') \in Nat
      BY <1>0, SlotSets, JobCounts
    <3> QED
      BY <3>2, <3>3, <2>1, <1>0, <1>n DEF SlotsReturned
  <2>7. Covered'
    <3>1. Holding' \subseteq Holding \cup {j}
      BY <2>1 DEF Holding, HasRun
    <3>2. /\ Cardinality(Holding') <= Cardinality(Holding) + 1
          /\ Cardinality(Holding) \in Nat /\ Cardinality(Holding') \in Nat
          /\ Cardinality(FailedUploads) \in Nat
      BY <3>1, <1>0, SlotSets, JobCounts
    <3> QED
      BY <3>2, <2>1, <1>n DEF SlotInv, Covered
  <2> QED
    BY <2>4, <2>5, <2>6, <2>7
<1>2. CASE UploadFails(j)
  <2>1. /\ upload[j] \in {"opening", "streaming"} /\ count' = Released(count)
        /\ UNCHANGED <<boot, unresumed, tick, work>>
        /\ status'[j] = "failed" /\ \A k \in Jobs \ {j} : status'[k] = status[k]
        /\ upload'[j] = "failed" /\ \A k \in Jobs \ {j} : upload'[k] = upload[k]
    BY <1>2, <1>i DEF UploadFails, TypeOK
  <2>2. Released(count) \in Nat /\ count <= Released(count) + 1 /\ Released(count) <= count
    BY <1>i, ReleasedOne
  <2>4. Blank'
    BY <2>1, <2>2, <1>n, <1>i DEF Blank
  <2>5. OneHand'
    BY <2>1, <1>i DEF OneHand
  <2>6. SlotsReturned'
    <3>1. SlotUsers \subseteq SlotUsers' \cup {j}
      BY <2>1 DEF SlotUsers
    <3>2. /\ Cardinality(SlotUsers) <= Cardinality(SlotUsers') + 1
          /\ Cardinality(SlotUsers) \in Nat /\ Cardinality(SlotUsers') \in Nat
      BY <3>1, <1>0, SlotSets, JobCounts
    <3> QED
      BY <3>2, <2>1, <1>0, <1>n DEF SlotsReturned, Released
  <2>7. Covered'
    <3>1. /\ Holding' \subseteq Holding
          /\ FailedUploads \subseteq FailedUploads' /\ j \in FailedUploads' /\ j \notin FailedUploads
      BY <2>1 DEF Holding, HasRun, FailedUploads
    <3>2. /\ Cardinality(Holding') <= Cardinality(Holding)
          /\ Cardinality(FailedUploads) + 1 <= Cardinality(FailedUploads')
      BY <3>1, <1>0, SlotSets, JobCounts
    <3>3. /\ Cardinality(Holding) \in Nat /\ Cardinality(Holding') \in Nat
          /\ Cardinality(FailedUploads) \in Nat /\ Cardinality(FailedUploads') \in Nat
      BY <1>0, SlotSets, JobCounts
    <3> QED
      BY <3>2, <3>3, <2>1, <2>2, <1>n DEF SlotInv, Covered
  <2> QED
    BY <2>4, <2>5, <2>6, <2>7
<1>3. CASE StampCancel(j)
  <2>1. \A k \in Jobs : \/ status'[k] = status[k]
                        \/ status'[k] = "cancelled" /\ status[k] \in {"received", "running"}
    BY <1>3, <1>i, TerminalMoves DEF StampCancel
  <2>2. UNCHANGED <<boot, count, tick, work, unresumed, FailedUploads>>
    BY <1>3 DEF StampCancel, memory, FailedUploads
  <2> QED
    BY <2>1, <2>2, SlotsKept
<1>4. CASE Reject(j) \/ OpenTemp(j) \/ Arrive(j) \/ Ack(j) \/ RequestCancel(j) \/ Sweep(j)
  <2>1. UNCHANGED <<boot, count, tick, work, unresumed, status>>
    BY <1>4 DEF Reject, OpenTemp, Arrive, Ack, RequestCancel, Sweep, memory, store
  <2>2. FailedUploads' = FailedUploads
    BY <1>4, <1>i DEF Reject, OpenTemp, Arrive, Ack, RequestCancel, Sweep, client, FailedUploads,
                      TypeOK
  <2> QED
    BY <2>1, <2>2, SlotsKept
<1> QED
    BY <1>1, <1>2, <1>3, <1>4 DEF Route

\* A boot, a tick or a crash.
LEMMA SlotsLoop ==
  ASSUME SlotInv, Loop \/ Crash
  PROVE  Blank' /\ OneHand' /\ SlotsReturned' /\ Covered'
<1>i. IInv /\ TypeOK /\ Blank /\ OneHand /\ OneOwner /\ Cold
    BY DEF SlotInv, IInv
<1>n. count \in Nat
    BY <1>i, ReleasedOne
<1>r. \A k \in Jobs : <<k, "loop">> \in Runs /\ <<k, "resume">> \in Runs
    BY DEF Runs, Callers
<1>0. /\ count <= Cardinality(SlotUsers) /\ SlotUsers' \in SUBSET Jobs
      /\ Holding' \in SUBSET Jobs
      /\ Received \cup Running \in SUBSET Jobs
    BY DEF SlotInv, SlotsReturned, SlotUsers, Holding, Received, Running
<1>c. /\ Cardinality(SlotUsers) \in Nat /\ Cardinality(SlotUsers') \in Nat
      /\ Cardinality(Holding) \in Nat /\ Cardinality(Holding') \in Nat
      /\ Cardinality(FailedUploads) \in Nat /\ Cardinality(Received \cup Running) \in Nat
      /\ SlotUsers \subseteq SlotUsers' => Cardinality(SlotUsers) <= Cardinality(SlotUsers')
      /\ Holding' \subseteq Holding => Cardinality(Holding') <= Cardinality(Holding)
      /\ Received \cup Running \subseteq SlotUsers' =>
            Cardinality(Received \cup Running) <= Cardinality(SlotUsers')
      /\ Holding' \subseteq Received \cup Running =>
            Cardinality(Holding') <= Cardinality(Received \cup Running)
    BY <1>0, SlotSets, JobCounts
<1>s. UNCHANGED status /\ FailedUploads' = FailedUploads
  <2>1. \A k \in Jobs : upload'[k] = "failed" <=> upload[k] = "failed"
    BY DEF Loop, Reconcile, ResumeRunning, RecoveryFails, ListReceived, NextJob, Crash, client
  <2> QED
    BY <2>1 DEF Loop, Reconcile, ResumeRunning, RecoveryFails, ListReceived, NextJob, Crash, store,
                FailedUploads
<1>k. ASSUME SlotUsers \subseteq SlotUsers', count' = count PROVE SlotsReturned'
    BY <1>k, <1>c, <1>0, <1>n DEF SlotsReturned
<1>h. ASSUME Holding' \subseteq Holding, count' = count, boot \in {"reconciled", "up"} PROVE Covered'
    BY <1>h, <1>c, <1>s, <1>n DEF SlotInv, Covered
<1>o. boot \in {"down", "reconciled"} =>
         \A k \in Jobs : work[<<k, "loop">>].pc = "off" /\ work[<<k, "resume">>].pc = "off"
    BY <1>i, <1>r DEF Cold
<1>1. CASE Reconcile
  <2>1. /\ boot = "down" /\ boot' = "reconciled" /\ count' = Cardinality(Received \cup Running)
        /\ UNCHANGED <<work, tick, unresumed>>
    BY <1>1 DEF Reconcile
  <2>2. Blank' /\ OneHand'
    BY <2>1, <1>s, <1>i DEF Blank, OneHand
  <2>3. Received \cup Running \subseteq SlotUsers'
    BY <2>1, <1>s DEF SlotUsers, Received, Running
  <2>4. Holding' \subseteq Received \cup Running
    BY <2>1, <1>s, <1>o, <1>i DEF Holding, HasRun, Callers, Received, Running, Blank
  <2> QED
    BY <2>1, <2>2, <2>3, <2>4, <1>c, <1>s DEF SlotsReturned, Covered
<1>2. CASE ResumeRunning
  <2>1. /\ boot = "reconciled" /\ boot' = "up" /\ UNCHANGED <<count, tick, unresumed>>
        /\ \A k \in Jobs :
              /\ work'[<<k, "loop">>] = work[<<k, "loop">>]
              /\ k \notin Running => work'[<<k, "resume">>] = work[<<k, "resume">>]
              /\ k \in Running => work'[<<k, "resume">>].pc = "claim"
    BY <1>2, <1>r DEF ResumeRunning, Idle
  <2>2. Blank' /\ OneHand'
    BY <2>1, <1>s, <1>o, <1>i DEF Blank, OneHand
  <2>3. SlotUsers \subseteq SlotUsers'
    BY <2>1, <1>s, <1>o DEF SlotUsers, Callers, Running
  <2>4. Holding' \subseteq Holding
    BY <2>1, <1>s, <1>o, <1>i DEF Holding, HasRun, Callers, Running, Blank
  <2> QED
    BY <2>1, <2>2, <2>3, <2>4, <1>k, <1>h
<1>3. CASE RecoveryFails
  <2>1. /\ boot \in {"down", "reconciled"} /\ boot' = IF boot = "down" THEN "blind" ELSE "up"
        /\ unresumed' = Running /\ UNCHANGED <<count, tick, work>>
    BY <1>3 DEF RecoveryFails
  <2>2. Blank' /\ OneHand'
    BY <2>1, <1>s, <1>i DEF Blank, OneHand, Running
  <2>3. SlotUsers \subseteq SlotUsers'
    BY <2>1, <1>s, <1>i DEF SlotUsers, Running, Blank
  <2>4. Holding' \subseteq Holding
    BY <2>1, <1>s, <1>i DEF Holding, HasRun
  <2>5. Covered'
    BY <2>1, <2>4, <1>h DEF Covered
  <2> QED
    BY <2>1, <2>2, <2>3, <2>5, <1>k
<1>4. CASE ListReceived
  <2>1. /\ LoopIdle /\ tick' \subseteq Received /\ UNCHANGED <<boot, count, unresumed, work>>
        /\ loopOn
    BY <1>4 DEF ListReceived, OldestReceived, LoopIdle
  <2>2. boot \in {"up", "blind"}
    BY <2>1, <1>i DEF Cold, TypeOK
  <2>3. Blank'
    BY <2>1, <2>2 DEF Blank
  <2>4. OneHand'
    BY <2>1, <1>s, <1>i DEF OneHand, OneOwner, LoopIdle, Received
  <2>5. SlotUsers \subseteq SlotUsers'
    BY <2>1, <1>s DEF SlotUsers
  <2>6. Holding' \subseteq Holding
    BY <2>1, <1>s DEF Holding, HasRun, Received
  <2>7. Covered'
    BY <2>1, <2>2, <2>6, <1>h DEF Covered
  <2> QED
    BY <2>1, <2>3, <2>4, <2>5, <2>7, <1>k
<1>5. CASE NextJob
  <2>1. PICK j \in tick : /\ tick' = tick \ {j}
                          /\ work' = [work EXCEPT ![<<j, "loop">>] = [Idle EXCEPT !.pc = "claim"]]
    BY <1>5 DEF NextJob
  <2>2. /\ LoopIdle /\ loopOn /\ UNCHANGED <<boot, count, unresumed>> /\ j \in Jobs
    BY <1>5, <1>i DEF NextJob, LoopIdle, TypeOK
  <2>3. /\ work'[<<j, "loop">>].pc = "claim"
        /\ \A k \in Jobs : work'[<<k, "resume">>] = work[<<k, "resume">>]
        /\ \A k \in Jobs \ {j} : work'[<<k, "loop">>] = work[<<k, "loop">>]
    <3>1. [Idle EXCEPT !.pc = "claim"].pc = "claim"
      BY DEF Idle
    <3> QED
      BY <1>r, <1>i, <2>1, <2>2, <3>1, WorkTyped
  <2>4. boot \in {"up", "blind"}
    BY <2>2, <1>i DEF Cold, TypeOK
  <2>5. Blank'
    BY <2>2, <2>4 DEF Blank
  <2>6. OneHand'
    BY <2>1, <2>2, <2>3, <1>s, <1>i DEF OneHand
  <2>7. SlotUsers \subseteq SlotUsers'
    BY <2>2, <2>3, <1>s DEF SlotUsers, Callers
  <2>8. Holding' \subseteq Holding
    BY <2>1, <2>2, <2>3, <1>s DEF Holding, HasRun, Callers
  <2>9. Covered'
    BY <2>2, <2>4, <2>8, <1>h DEF Covered
  <2> QED
    BY <2>2, <2>5, <2>6, <2>7, <2>9, <1>k
<1>6. CASE Crash
  <2>1. /\ boot' = "down" /\ count' = 0 /\ tick' = {} /\ unresumed' = {}
        /\ \A y \in Runs : work'[y].pc = "off"
    BY <1>6 DEF Crash, Idle
  <2>2. Blank' /\ OneHand'
    BY <2>1, <1>r DEF Blank, OneHand
  <2> QED
    BY <2>1, <2>2, <1>c DEF SlotsReturned, Covered
<1> QED
    BY <1>1, <1>2, <1>3, <1>4, <1>5, <1>6 DEF Loop

-----------------------------------------------------------------------------

\* A fresh daemon counts no slot and has no job in hand.
LEMMA SlotInit == Init => SlotInv
<1> SUFFICES ASSUME Init PROVE SlotInv
    OBVIOUS
<1>1. IInv
    BY InvInit
<1>2. \A k \in Jobs : work[<<k, "loop">>].pc = "off" /\ work[<<k, "resume">>].pc = "off"
    BY DEF Init, Idle, Runs, Callers
<1>3. Blank /\ OneHand /\ Covered
    BY <1>2 DEF Init, Blank, OneHand, Covered
<1>4. Cardinality(SlotUsers) \in Nat
    BY SlotSets, JobCounts
<1>5. SlotsReturned
    BY <1>4 DEF Init, SlotsReturned
<1> QED
    BY <1>1, <1>3, <1>5 DEF SlotInv

\* The invariant is inductive.
LEMMA SlotStep == SlotInv /\ [Next]_vars => SlotInv'
<1> SUFFICES ASSUME SlotInv, [Next]_vars PROVE SlotInv'
    OBVIOUS
<1>1. IInv'
    BY InvStep DEF SlotInv
<1>2. CASE UNCHANGED vars
  <2>1. UNCHANGED <<boot, count, tick, work, unresumed, FailedUploads, status>>
    BY <1>2 DEF vars, memory, client, store, FailedUploads
  <2> QED
    BY <2>1, <1>1, SlotsKept DEF SlotInv
<1>3. CASE Next
    BY <1>1, <1>2, <1>3, SlotsRun, SlotsRoute, SlotsLoop DEF Next, Poll, SlotInv
<1> QED
    BY <1>2, <1>3

\* Hence the invariant of the counter holds always.
LEMMA SlotInductive == Spec => []SlotInv
  BY SlotInit, SlotStep, PTL DEF Spec

\* Every slot in use is accounted for by a job: the runner, the routes and the
\* recovery give back what they take, a crash anywhere included.
THEOREM SlotsComeBack == Spec => []SlotsReturned
  BY SlotInductive, PTL DEF SlotInv

\* The admission check of POST /api/load keeps the cap, for any cap and number of
\* jobs, but for one job per upload that failed.
THEOREM CapRespected == Spec => CapHolds
<1> DEFINE Kept == \A j \in Jobs :
                      upload[j] # "opening" /\ upload'[j] = "opening" /\ boot = "up" =>
                          Cardinality(InFlight) < Cap + Cardinality(FailedUploads)
<1>1. SlotInv /\ [Next]_vars => Kept
  <2> SUFFICES ASSUME SlotInv, [Next]_vars, NEW j \in Jobs,
                      upload[j] # "opening", upload'[j] = "opening", boot = "up"
               PROVE  Cardinality(InFlight) < Cap + Cardinality(FailedUploads)
    OBVIOUS
  <2>1. count < Cap
    <3>1. ASSUME NEW k \in Jobs, Route(k) PROVE count < Cap
      BY <3>1 DEF Route, Reject, Accept, OpenTemp, Arrive, Ack, UploadFails, RequestCancel,
                  StampCancel, Sweep, client, SlotInv, IInv, TypeOK
    <3>2. ASSUME NEW x \in Runs, RunStep(x) PROVE FALSE
      BY <3>2, RunFrame DEF SlotInv, IInv, still, client
    <3>3. CASE Loop \/ Crash
      BY <3>3 DEF Loop, Reconcile, ResumeRunning, RecoveryFails, ListReceived, NextJob, Crash, client
    <3>4. CASE UNCHANGED vars
      BY <3>4 DEF vars, client
    <3> QED
      BY <3>1, <3>2, <3>3, <3>4 DEF Next, Poll
  <2>2. InFlight \subseteq Holding
    BY DEF InFlight, Holding, HasRun, Busy
  <2>3. /\ Cardinality(InFlight) <= Cardinality(Holding)
        /\ Cardinality(InFlight) \in Nat /\ Cardinality(Holding) \in Nat
        /\ Cardinality(FailedUploads) \in Nat /\ count \in Nat
    BY <2>2, SlotSets, JobCounts, ReleasedOne DEF SlotInv, IInv
  <2> QED
    BY <2>1, <2>3, LoadAssumption DEF SlotInv, Covered
<1>2. SlotInv /\ [Next]_vars => [Kept]_vars
    BY <1>1
<1> QED
    BY <1>2, SlotInductive, PTL DEF Spec, CapHolds

=============================================================================
