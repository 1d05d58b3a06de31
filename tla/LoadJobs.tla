------------------------------ MODULE LoadJobs ------------------------------
(***************************************************************************)
(* The bulk loader of one workspace: POST /api/load streams a body into a  *)
(* temp file under a load_jobs row, the runner claims the row, parses the  *)
(* file, flushes rows into the substrates, checkpoints, and stamps the     *)
(* outcome; a restarted daemon resumes from the checkpoint.                *)
(*                                                                         *)
(* Row r of a job is the r-th row of its body.  A step runs from one await *)
(* to the next; a crash may fall between any two.                          *)
(***************************************************************************)
EXTENDS Integers, Sequences, FiniteSets

CONSTANTS
    Jobs,
    Body,             \* Body[j]: the rows of the upload, "good" or "bad" (parse error)
    Cap,              \* LORE_LOAD_MAX_CONCURRENT_PER_WORKSPACE
    MaxJobsPerTick,
    ProgressInterval,
    CheckpointInterval,
    MaxFaults,        \* bound on uploads that break off, cancels and failed writes
    MaxCrashes        \* bound on restarts

ASSUME LoadAssumption ==
    /\ IsFiniteSet(Jobs)
    /\ \A j \in Jobs : Body[j] \in Seq({"good", "bad"})
    /\ Cap \in Nat \ {0} /\ MaxJobsPerTick \in Nat \ {0}
    /\ ProgressInterval \in Nat \ {0} /\ CheckpointInterval \in Nat \ {0}
    /\ MaxFaults \in Nat /\ MaxCrashes \in Nat

VARIABLES
    \* load_jobs
    status,       \* status, "none" before the row exists
    created,      \* created_at: the place of the job among the rows, from 1
    ckpt,         \* checkpoint_row
    errs,         \* errors_json: the rows reported as failed
    embedErr,     \* errors_json: an embed_batch_enqueue_failed is reported
    \* the disk
    temp,         \* temp_file_path is set and the file exists
    arrived,      \* rows in the temp file
    written,      \* rows in the substrates
    embeds,       \* rows with an embed.batch outbox row
    notified,     \* the outcomes told by load.done rows
    \* memory of the daemon
    boot,         \* how far start() is
    loopOn,       \* the poll loop runs
    count,        \* WorkspaceConcurrencyManager.counts
    abort,        \* LoadJobAbortRegistry.ids
    tick,         \* the listed jobs the tick has yet to run, oldest first
    work,         \* the runs of runOneJob, per job and caller
    unresumed,    \* 'running' jobs this boot failed to resume
    \* the clients
    upload,       \* the state of each POST /api/load
    cancel,       \* the state of each cancel request
    \* bounds and history
    faults,
    crashes,
    eof           \* history: the rows a finished parse has read

store  == <<status, created, ckpt, errs, embedErr>>
disk   == <<temp, arrived, written, embeds, notified>>
memory == <<boot, loopOn, count, abort, tick, work, unresumed>>
client == <<upload, cancel>>
vars   == <<store, disk, memory, client, faults, crashes, eof>>

Statuses == {"none", "received", "running", "complete", "failed", "cancelled"}
Terminal == {"complete", "failed", "cancelled"}
Callers  == {"loop", "resume"}
Runs     == Jobs \X Callers
Rows(j)  == 1 .. Len(Body[j])

PCs == {"off", "claim", "open", "row", "flush", "embed", "persist", "stamp",
        "notify", "fail", "cancelled", "release", "uncaught"}

\* The locals of runOneJobInner and of its dispatcher.
Idle == [pc      |-> "off",
         from    |-> 0,       \* resumeFromRow
         idx     |-> 0,       \* rowIdx
         flushed |-> 0,       \* lastFlushIdx
         saved   |-> 0,       \* lastCheckpointIdx
         why     |-> "end",   \* what the flush is for
         buf     |-> {},      \* rows in the substrate buffers
         errs    |-> {},      \* failed rows not persisted yet
         embErr  |-> FALSE,   \* a failed enqueue not persisted yet
         queue   |-> {},      \* queuedEmbedIds
         wrote   |-> FALSE,   \* the dispatcher's written > 0
         bad     |-> FALSE]   \* failures > 0

Run == [pc : PCs, from : Nat, idx : Nat, flushed : Nat, saved : Nat,
        why : {"progress", "checkpoint", "end"},
        buf : SUBSET Nat, errs : SUBSET Nat, embErr : BOOLEAN,
        queue : SUBSET Nat, wrote : BOOLEAN, bad : BOOLEAN]

TypeOK ==
    /\ status \in [Jobs -> Statuses]
    /\ created \in [Jobs -> Nat]
    /\ ckpt \in [Jobs -> Nat]
    /\ errs \in [Jobs -> SUBSET Nat]
    /\ embedErr \in [Jobs -> BOOLEAN]
    /\ temp \in [Jobs -> BOOLEAN]
    /\ arrived \in [Jobs -> Nat]
    /\ written \in [Jobs -> SUBSET Nat]
    /\ embeds \in [Jobs -> SUBSET Nat]
    /\ notified \in [Jobs -> SUBSET Terminal]
    /\ boot \in {"down", "reconciled", "up", "blind"}
    /\ loopOn \in BOOLEAN
    /\ count \in Nat
    /\ abort \subseteq Jobs
    /\ tick \subseteq Jobs
    /\ work \in [Runs -> Run]
    /\ unresumed \subseteq Jobs
    /\ upload \in [Jobs -> {"none", "rejected", "opening", "streaming", "acked", "failed", "lost"}]
    /\ cancel \in [Jobs -> {"no", "asked", "done"}]
    /\ faults \in 0 .. MaxFaults /\ crashes \in 0 .. MaxCrashes
    /\ eof \in [Jobs -> Nat]

Init ==
    /\ status = [j \in Jobs |-> "none"]
    /\ created = [j \in Jobs |-> 0]
    /\ ckpt = [j \in Jobs |-> 0]
    /\ errs = [j \in Jobs |-> {}]
    /\ embedErr = [j \in Jobs |-> FALSE]
    /\ temp = [j \in Jobs |-> FALSE]
    /\ arrived = [j \in Jobs |-> 0]
    /\ written = [j \in Jobs |-> {}]
    /\ embeds = [j \in Jobs |-> {}]
    /\ notified = [j \in Jobs |-> {}]
    /\ boot = "down"
    /\ loopOn = FALSE
    /\ count = 0
    /\ abort = {}
    /\ tick = {}
    /\ work = [x \in Runs |-> Idle]
    /\ unresumed = {}
    /\ upload = [j \in Jobs |-> "none"]
    /\ cancel = [j \in Jobs |-> "no"]
    /\ faults = 0 /\ crashes = 0
    /\ eof = [j \in Jobs |-> 0]

\* Something goes wrong, within the bound.
Fault == faults < MaxFaults /\ faults' = faults + 1

-----------------------------------------------------------------------------
(* LoadJobsStore and WorkspaceConcurrencyManager *)

Received == {j \in Jobs : status[j] = "received"}
Running  == {j \in Jobs : status[j] = "running"}

\* Mutant: stamps whatever the status is.
TrySetTerminalAlways(j, s) == status' = [status EXCEPT ![j] = s]

\* Stamped only while the job is still received or running.
TrySetTerminal(j, s) ==
    status' = IF status[j] \in {"received", "running"}
              THEN [status EXCEPT ![j] = s] ELSE status

\* Mutant: not clamped at zero.
ReleasedUnclamped(n) == n - 1

Released(n) == IF n > 0 THEN n - 1 ELSE 0

-----------------------------------------------------------------------------
(* The routes.  They serve once the runner has started, recovered or not. *)

Serving == boot \in {"up", "blind"}

\* POST /api/load at the cap: 429.
Reject(j) ==
    /\ Serving /\ upload[j] = "none" /\ count >= Cap
    /\ upload' = [upload EXCEPT ![j] = "rejected"]
    /\ UNCHANGED <<store, disk, memory, cancel, faults, crashes, eof>>

\* A slot, then the row; the body is still to come.
Accept(j) ==
    /\ Serving /\ upload[j] \in {"none", "rejected"} /\ count < Cap
    /\ count' = count + 1
    /\ status' = [status EXCEPT ![j] = "received"]
    /\ created' = [created EXCEPT ![j] = Cardinality({k \in Jobs : status[k] # "none"}) + 1]
    /\ upload' = [upload EXCEPT ![j] = "opening"]
    /\ UNCHANGED <<ckpt, errs, embedErr, disk, boot, unresumed, loopOn, abort, tick, work,
                   cancel, faults, crashes, eof>>

\* createWriteStream opens the temp file.
OpenTemp(j) ==
    /\ upload[j] = "opening"
    /\ temp' = [temp EXCEPT ![j] = TRUE]
    /\ upload' = [upload EXCEPT ![j] = "streaming"]
    /\ UNCHANGED <<store, arrived, written, embeds, notified, memory, cancel, faults, crashes, eof>>

\* One more row reaches the file.
Arrive(j) ==
    /\ upload[j] = "streaming" /\ arrived[j] < Len(Body[j])
    /\ arrived' = [arrived EXCEPT ![j] = @ + 1]
    /\ UNCHANGED <<store, temp, written, embeds, notified, memory, client, faults, crashes, eof>>

\* End of the body: 200, whatever has become of the job meanwhile.
Ack(j) ==
    /\ upload[j] = "streaming" /\ arrived[j] = Len(Body[j])
    /\ upload' = [upload EXCEPT ![j] = "acked"]
    /\ UNCHANGED <<store, disk, memory, cancel, faults, crashes, eof>>

\* The stream breaks off (500) or is too large (413): the row is stamped without
\* looking at it, and the slot is given back.
UploadFails(j) ==
    /\ Fault /\ upload[j] \in {"opening", "streaming"}
    /\ status' = [status EXCEPT ![j] = "failed"]
    /\ count' = Released(count)
    /\ upload' = [upload EXCEPT ![j] = "failed"]
    /\ UNCHANGED <<created, ckpt, errs, embedErr, disk, boot, unresumed, loopOn, abort, tick, work,
                   cancel, crashes, eof>>

\* The cancel route signals the runner ...
RequestCancel(j) ==
    /\ Fault /\ Serving /\ status[j] # "none" /\ cancel[j] = "no"
    /\ abort' = abort \cup {j}
    /\ cancel' = [cancel EXCEPT ![j] = "asked"]
    /\ UNCHANGED <<store, disk, boot, unresumed, loopOn, count, tick, work, upload, crashes, eof>>

\* ... and then stamps the row.
StampCancel(j) ==
    /\ cancel[j] = "asked"
    /\ TrySetTerminal(j, "cancelled")
    /\ cancel' = [cancel EXCEPT ![j] = "done"]
    /\ UNCHANGED <<created, ckpt, errs, embedErr, disk, memory, upload, faults, crashes, eof>>

\* The sweeper, hours after the job ended: its upload is over.
Sweep(j) ==
    /\ Serving /\ temp[j] /\ status[j] \in {"complete", "failed"}
    /\ upload[j] # "streaming"
    /\ temp' = [temp EXCEPT ![j] = FALSE]
    /\ UNCHANGED <<store, arrived, written, embeds, notified, memory, client, faults, crashes, eof>>

-----------------------------------------------------------------------------
(* start, the poll loop *)

\* Mutant: the loop starts beside the recovery.
ReconcileLoopOn ==
    /\ boot = "down"
    /\ count' = Cardinality(Received \cup Running)
    /\ boot' = "reconciled"
    /\ loopOn' = TRUE
    /\ UNCHANGED <<store, disk, abort, tick, work, unresumed, client, faults, crashes, eof>>

\* Mutant: the jobs that still wait get no slot.
ReconcileRunningOnly ==
    /\ boot = "down"
    /\ count' = Cardinality(Running)
    /\ boot' = "reconciled"
    /\ UNCHANGED <<store, disk, unresumed, loopOn, abort, tick, work, client, faults, crashes, eof>>

\* The slots of what the store says is in flight.
Reconcile ==
    /\ boot = "down"
    /\ count' = Cardinality(Received \cup Running)
    /\ boot' = "reconciled"
    /\ UNCHANGED <<store, disk, unresumed, loopOn, abort, tick, work, client, faults, crashes, eof>>

\* Every job left 'running' is run again, not awaited; then the loop starts.
ResumeRunning ==
    /\ boot = "reconciled"
    /\ boot' = "up" /\ loopOn' = TRUE
    /\ work' = [x \in Runs |->
                   IF x[2] = "resume" /\ x[1] \in Running
                   THEN [Idle EXCEPT !.pc = "claim", !.from = ckpt[x[1]]]
                   ELSE work[x]]
    /\ UNCHANGED <<store, disk, count, abort, tick, unresumed, client, faults, crashes, eof>>

\* The recovery throws: logged, and the loop starts all the same.
RecoveryFails ==
    /\ Fault /\ boot \in {"down", "reconciled"}
    /\ boot' = IF boot = "down" THEN "blind" ELSE "up"
    /\ loopOn' = TRUE
    /\ unresumed' = Running
    /\ UNCHANGED <<store, disk, count, abort, tick, work, client, crashes, eof>>

LoopIdle == loopOn /\ \A j \in Jobs : work[<<j, "loop">>].pc = "off"

\* The MaxJobsPerTick oldest.
OldestReceived ==
    {j \in Received :
        Cardinality({k \in Received : created[k] < created[j]}) < MaxJobsPerTick}

\* tickOnce lists ...
ListReceived ==
    /\ LoopIdle /\ tick = {} /\ Received # {}
    /\ tick' = OldestReceived
    /\ UNCHANGED <<store, disk, boot, unresumed, loopOn, count, abort, work, client, faults, crashes, eof>>

\* ... and runs the listed jobs one after the other.
NextJob ==
    /\ LoopIdle
    /\ \E j \in tick :
          /\ \A k \in tick : created[j] <= created[k]
          /\ tick' = tick \ {j}
          /\ work' = [work EXCEPT ![<<j, "loop">>] = [Idle EXCEPT !.pc = "claim"]]
    /\ UNCHANGED <<store, disk, boot, unresumed, loopOn, count, abort, client, faults, crashes, eof>>

Poll == LoopIdle /\ tick = {} /\ Received = {} /\ UNCHANGED vars

-----------------------------------------------------------------------------
(* runOneJob, for run x of job x[1] *)

\* What no run changes, and the rest in groups.
still      == <<created, temp, arrived, boot, loopOn, tick, client, crashes>>
row        == <<status, ckpt, errs, embedErr>>
substrates == <<written, embeds, notified>>
slots      == <<count, abort, unresumed>>

\* The locals of x become w; of them only pc changes.
Become(x, w) == work' = [work EXCEPT ![x] = w]

To(x, pc) == Become(x, [work[x] EXCEPT !.pc = pc])

\* Mutant: a resumed job has to be claimed like a new one.
IsResumeNever(x) == FALSE

IsResume(x) == work[x].from > 0

Claim(x) ==
    /\ work[x].pc = "claim" /\ ~IsResume(x) /\ status[x[1]] = "received"
    /\ status' = [status EXCEPT ![x[1]] = "running"]
    /\ To(x, "open")
    /\ UNCHANGED <<still, ckpt, errs, embedErr, substrates, slots, faults, eof>>

\* Cancelled or gone.
NotClaimed(x) ==
    /\ work[x].pc = "claim"
    /\ IF IsResume(x) THEN x[1] \in abort ELSE status[x[1]] # "received"
    /\ To(x, "release")
    /\ UNCHANGED <<still, row, substrates, slots, faults, eof>>

\* A resume keeps the status it found.
Reenter(x) ==
    /\ work[x].pc = "claim" /\ IsResume(x) /\ x[1] \notin abort
    /\ To(x, "open")
    /\ UNCHANGED <<still, row, substrates, slots, faults, eof>>

\* Mutant: the first row past the checkpoint is skipped too.
FirstRowOffByOne(x) == IF IsResume(x) THEN work[x].from + 1 ELSE 0

\* Rows below the checkpoint are read and skipped.
FirstRow(x) == work[x].from

Open(x) ==
    /\ work[x].pc = "open" /\ temp[x[1]]
    /\ Become(x, [work[x] EXCEPT !.pc = "row", !.idx = FirstRow(x),
                                 !.flushed = FirstRow(x), !.saved = FirstRow(x)])
    /\ UNCHANGED <<still, row, substrates, slots, faults, eof>>

\* No temp file (yet, or any more), or the adapters cannot be built: thrown before
\* the try block, so that nothing is stamped here.
OpenFails(x) ==
    /\ work[x].pc = "open"
    /\ IF temp[x[1]] THEN Fault ELSE UNCHANGED faults
    /\ To(x, "uncaught")
    /\ UNCHANGED <<still, row, substrates, slots, eof>>

\* throwIfCancelled: before each row and each flush, and after the last flush.
CancelSeen(x) ==
    /\ \/ work[x].pc \in {"row", "flush"}
       \/ work[x].pc = "embed" /\ work[x].why = "end"
    /\ x[1] \in abort
    /\ To(x, "cancelled")
    /\ UNCHANGED <<still, row, substrates, slots, faults, eof>>

\* A line that does not parse is reported and counted, without the interval checks.
BadRow(x) ==
    LET j == x[1]  r == work[x].idx + 1
    IN  /\ work[x].pc = "row" /\ j \notin abort
        /\ r <= arrived[j] /\ Body[j][r] = "bad"
        /\ Become(x, [work[x] EXCEPT !.idx = r, !.errs = @ \cup {r}, !.bad = TRUE])
        /\ UNCHANGED <<still, row, substrates, slots, faults, eof>>

\* What is due after row r; the progress flush comes first.
Due(x, r) ==
    IF r - work[x].flushed >= ProgressInterval THEN "progress"
    ELSE IF r - work[x].saved >= CheckpointInterval THEN "checkpoint" ELSE "nothing"

\* Buffered for the substrates and for the embed queue.
GoodRow(x) ==
    LET j == x[1]  r == work[x].idx + 1  due == Due(x, r)
    IN  /\ work[x].pc = "row" /\ j \notin abort
        /\ r <= arrived[j] /\ Body[j][r] = "good"
        /\ Become(x, [work[x] EXCEPT !.idx = r, !.buf = @ \cup {r}, !.queue = @ \cup {r},
                                     !.pc = IF due = "nothing" THEN "row" ELSE "flush",
                                     !.why = IF due = "nothing" THEN @ ELSE due])
        /\ UNCHANGED <<still, row, substrates, slots, faults, eof>>

\* The read stream ends where the file ends now.
Eof(x) ==
    /\ work[x].pc = "row" /\ x[1] \notin abort /\ work[x].idx >= arrived[x[1]]
    /\ Become(x, [work[x] EXCEPT !.pc = "flush", !.why = "end"])
    /\ eof' = [eof EXCEPT ![x[1]] = arrived[x[1]]]
    /\ UNCHANGED <<still, row, substrates, slots, faults>>

\* Mutant: a checkpoint takes the counters without flushing (snapshot).
FlushNotForCheckpoint(x, lost) ==
    LET j == x[1]  ok == work[x].buf \ lost
    IN  /\ work[x].pc = "flush" /\ j \notin abort
        /\ lost = {}
        /\ IF work[x].why = "checkpoint"
           THEN To(x, "embed") /\ UNCHANGED written
           ELSE /\ written' = [written EXCEPT ![j] = @ \cup ok]
                /\ Become(x, [work[x] EXCEPT !.pc = "embed", !.buf = {}])
        /\ UNCHANGED <<still, row, embeds, notified, slots, faults, eof>>

\* flushAll: the buffers are written; single rows may fail.
Flush(x, lost) ==
    LET j == x[1]  ok == work[x].buf \ lost
    IN  /\ work[x].pc = "flush" /\ j \notin abort
        /\ lost \subseteq work[x].buf
        /\ IF lost = {} THEN UNCHANGED faults ELSE Fault
        /\ written' = [written EXCEPT ![j] = @ \cup ok]
        /\ Become(x, [work[x] EXCEPT !.pc = "embed", !.buf = {}, !.errs = @ \cup lost,
                                     !.wrote = @ \/ ok # {}, !.bad = @ \/ lost # {}])
        /\ UNCHANGED <<still, row, embeds, notified, slots, eof>>

\* Past the cancel check that follows the last flush.
MayEmbed(x) == work[x].pc = "embed" /\ ~(work[x].why = "end" /\ x[1] \in abort)

\* The link intents, the progress or the outcome cannot be written.
Throws(x) ==
    /\ Fault
    /\ MayEmbed(x) \/ work[x].pc \in {"persist", "stamp"}
    /\ To(x, "fail")
    /\ UNCHANGED <<still, row, substrates, slots, eof>>

\* A write throws after some of the rows.
FlushThrows(x, some) ==
    /\ Fault /\ work[x].pc = "flush" /\ x[1] \notin abort
    /\ some \subseteq work[x].buf /\ work[x].buf # {}
    /\ written' = [written EXCEPT ![x[1]] = @ \cup some]
    /\ To(x, "fail")
    /\ UNCHANGED <<still, row, embeds, notified, slots, eof>>

\* emitQueuedEmbeds, strictly after the flush.
Embed(x) ==
    /\ MayEmbed(x)
    /\ embeds' = [embeds EXCEPT ![x[1]] = @ \cup work[x].queue]
    /\ Become(x, [work[x] EXCEPT !.pc = "persist", !.queue = {}])
    /\ UNCHANGED <<still, row, written, notified, slots, faults, eof>>

\* The insert throws: the ids are kept for the next flush, the failure is reported.
EmbedFails(x) ==
    /\ Fault /\ MayEmbed(x) /\ work[x].queue # {}
    /\ Become(x, [work[x] EXCEPT !.pc = "persist", !.embErr = TRUE, !.bad = TRUE])
    /\ UNCHANGED <<still, row, substrates, slots, eof>>

\* updateProgress, or writeCheckpoint in one transaction with it.
Persist(x) ==
    LET j == x[1]  r == work[x].idx  why == work[x].why
        more == why = "progress" /\ r - work[x].saved >= CheckpointInterval
    IN  /\ work[x].pc = "persist"
        /\ errs' = [errs EXCEPT ![j] = @ \cup work[x].errs]
        /\ embedErr' = [embedErr EXCEPT ![j] = @ \/ work[x].embErr]
        /\ ckpt' = IF why = "checkpoint" THEN [ckpt EXCEPT ![j] = r] ELSE ckpt
        /\ Become(x, [work[x] EXCEPT
               !.errs = {}, !.embErr = FALSE,
               !.flushed = r,
               !.saved = IF why = "checkpoint" THEN r ELSE @,
               !.why = IF more THEN "checkpoint" ELSE @,
               !.pc = IF more THEN "flush" ELSE IF why = "end" THEN "stamp" ELSE "row"])
        /\ UNCHANGED <<still, status, substrates, slots, faults, eof>>

\* Complete, unless nothing was written and something failed.
Outcome(x) == IF ~work[x].wrote /\ work[x].bad THEN "failed" ELSE "complete"

\* Stamped, or the cancel won the race: then nothing is announced.
Stamp(x) ==
    /\ work[x].pc = "stamp"
    /\ TrySetTerminal(x[1], Outcome(x))
    /\ To(x, IF status[x[1]] \in {"received", "running"} THEN "notify" ELSE "release")
    /\ abort' = IF status[x[1]] \in {"received", "running"} THEN abort ELSE abort \ {x[1]}
    /\ UNCHANGED <<still, ckpt, errs, embedErr, substrates, count, unresumed, faults, eof>>

\* emitLoadDone; a failed insert is only logged.
Announce(x, s) ==
    \/ notified' = [notified EXCEPT ![x[1]] = @ \cup {s}] /\ UNCHANGED faults
    \/ Fault /\ UNCHANGED notified

Notify(x) ==
    /\ work[x].pc = "notify"
    /\ Announce(x, Outcome(x))
    /\ abort' = abort \ {x[1]}
    /\ To(x, "release")
    /\ UNCHANGED <<still, row, written, embeds, count, unresumed, eof>>

\* The catch block: buffers dropped, outcome stamped if nobody did, announced.
Catch(x, pc, s) ==
    /\ work[x].pc = pc
    /\ TrySetTerminal(x[1], s)
    /\ Announce(x, s)
    /\ abort' = abort \ {x[1]}
    /\ Become(x, [work[x] EXCEPT !.pc = "release", !.buf = {}])
    /\ UNCHANGED <<still, ckpt, errs, embedErr, written, embeds, count, unresumed, eof>>

Failed(x)    == Catch(x, "fail", "failed")
Cancelled(x) == Catch(x, "cancelled", "cancelled")

\* tickOnce stamps what runOneJob threw, after its finally; a resume is only logged.
Uncaught(x) ==
    LET j == x[1]
    IN  /\ work[x].pc = "uncaught"
        /\ count' = Released(count)
        /\ IF x[2] = "loop"
           THEN TrySetTerminal(j, "failed") /\ UNCHANGED unresumed
           ELSE unresumed' = unresumed \cup {j} /\ UNCHANGED status
        /\ Become(x, Idle)
        /\ UNCHANGED <<still, ckpt, errs, embedErr, substrates, abort, faults, eof>>

\* Mutant: the slot of a job that completed is kept.
ReleaseUnlessComplete(x) ==
    /\ work[x].pc = "release"
    /\ count' = IF status[x[1]] = "complete" THEN count ELSE Released(count)
    /\ Become(x, Idle)
    /\ UNCHANGED <<still, row, substrates, abort, unresumed, faults, eof>>

\* runOneJob's finally.
Release(x) ==
    /\ work[x].pc = "release"
    /\ count' = Released(count)
    /\ Become(x, Idle)
    /\ UNCHANGED <<still, row, substrates, abort, unresumed, faults, eof>>

RunStep(x) ==
    \/ Claim(x) \/ NotClaimed(x) \/ Reenter(x) \/ Open(x) \/ OpenFails(x)
    \/ CancelSeen(x) \/ BadRow(x) \/ GoodRow(x) \/ Eof(x)
    \/ \E s \in SUBSET work[x].buf : Flush(x, s) \/ FlushThrows(x, s)
    \/ Embed(x) \/ EmbedFails(x) \/ Persist(x) \/ Throws(x)
    \/ Stamp(x) \/ Notify(x) \/ Failed(x) \/ Cancelled(x)
    \/ Uncaught(x) \/ Release(x)

-----------------------------------------------------------------------------
\* The process dies; what it kept in memory is gone.
Crash ==
    /\ crashes < MaxCrashes
    /\ crashes' = crashes + 1
    /\ boot' = "down" /\ loopOn' = FALSE
    /\ count' = 0 /\ abort' = {} /\ tick' = {}
    /\ work' = [x \in Runs |-> Idle] /\ unresumed' = {}
    /\ upload' = [j \in Jobs |-> IF upload[j] \in {"opening", "streaming"}
                                 THEN "lost" ELSE upload[j]]
    /\ cancel' = [j \in Jobs |-> IF cancel[j] = "asked" THEN "done" ELSE cancel[j]]
    /\ UNCHANGED <<store, disk, faults, eof>>

Route(j) ==
    \/ Reject(j) \/ Accept(j) \/ OpenTemp(j) \/ Arrive(j) \/ Ack(j) \/ UploadFails(j)
    \/ RequestCancel(j) \/ StampCancel(j) \/ Sweep(j)

Loop == Reconcile \/ ResumeRunning \/ RecoveryFails \/ ListReceived \/ NextJob

Next ==
    \/ \E j \in Jobs : Route(j)
    \/ \E x \in Runs : RunStep(x)
    \/ Loop \/ Poll \/ Crash

Spec == Init /\ [][Next]_vars

\* The event loop serves every promise that is ready; nothing is assumed of the
\* clients.
Fairness ==
    /\ WF_vars(Loop)
    /\ \A x \in Runs : WF_vars(RunStep(x))
    /\ \A j \in Jobs : WF_vars(StampCancel(j))

FairSpec == Spec /\ Fairness

-----------------------------------------------------------------------------
(* Properties *)

\* The rows below a checkpoint are safe for ever: written or reported, and what was
\* written is queued for embedding or the failure to do so is reported.  A resume
\* never reads them again.
CheckpointDurable ==
    \A j \in Jobs : \A r \in 1 .. ckpt[j] :
        /\ r \in written[j] \cup errs[j]
        /\ r \in written[j] => r \in embeds[j] \/ embedErr[j]

\* A job that ended as complete has written or reported every row its parse read,
\* over however many restarts.
NothingSkipped ==
    \A j \in Jobs : status[j] = "complete" =>
        \A r \in 1 .. eof[j] : r \in written[j] \cup errs[j]

Busy(x) == work[x].pc \notin {"off", "claim", "release", "uncaught"}

\* A job is never processed by the loop and by a resume at once.
NoDoubleRun ==
    \A j \in Jobs :
        ~ \A c \in Callers : Busy(<<j, c>>)

InFlight == {j \in Jobs : \/ status[j] = "received"
                          \/ \E c \in Callers : Busy(<<j, c>>)}

FailedUploads == {j \in Jobs : upload[j] = "failed"}

\* Once the counters are recovered, a job is admitted only while fewer than Cap jobs
\* wait or are being run, but for one more per upload that failed: its slot may come
\* back twice, from the route and from the runner.  (A boot whose recovery failed
\* counts from zero and admits too many; they are still there after a restart.)
CapHolds ==
    [][\A j \in Jobs : upload[j] # "opening" /\ upload'[j] = "opening" /\ boot = "up" =>
          Cardinality(InFlight) < Cap + Cardinality(FailedUploads)]_vars

\* The jobs that account for a slot: those that wait or have a run, those cancelled
\* (a job cancelled before it is listed is never run, and never gives its slot back),
\* and those whose recovery is to come or failed.
SlotUsers ==
    {j \in Jobs : \/ status[j] \in {"received", "cancelled"}
                  \/ j \in unresumed
                  \/ boot = "reconciled" /\ status[j] = "running"
                  \/ \E c \in Callers : work[<<j, c>>].pc # "off"}

\* No slot is kept for nobody.
SlotsReturned == count <= Cardinality(SlotUsers)

\* A cancelled job never runs and is never complete again.
CancelWins ==
    [][\A j \in Jobs : status[j] = "cancelled" => status'[j] \in {"cancelled", "failed"}]_vars

\* A job that has a checkpoint is brought to its end, whatever restarts there are,
\* unless this boot failed to resume it (it is tried again at the next).
CheckpointedJobsSettle ==
    \A j \in Jobs :
        (status[j] = "running" /\ ckpt[j] > 0) ~> (status[j] \in Terminal \/ j \in unresumed)

\* Every job in the table is brought to its end ("kill -> restart resumes").
EveryJobSettles ==
    \A j \in Jobs : status[j] # "none" ~> status[j] \in Terminal

\* A complete job whose upload was accepted in full has all its rows written or
\* reported.
CompleteMeansLoaded ==
    \A j \in Jobs : status[j] = "complete" /\ upload[j] = "acked" =>
        \A r \in Rows(j) : r \in written[j] \cup errs[j]

=============================================================================
