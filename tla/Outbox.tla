-------------------------------- MODULE Outbox --------------------------------
(***************************************************************************)
(* The node write path of one daemon and the outbox replicator that        *)
(* re-asserts its writes: the requests that hold a node's lock, the        *)
(* replicator loop (tick, self-heal, pending_commit settle, prune), the    *)
(* graph substrate, crashes and boot recovery.                             *)
(*                                                                         *)
(* A node's lock is not a variable: at most one request per node is under  *)
(* way (req), and a request that waits for the lock has no state yet.      *)
(* Every await of the code that another actor can slip into is a step      *)
(* boundary here.                                                          *)
(***************************************************************************)
EXTENDS OutboxStore

CONSTANTS
    Operations,     \* what clients do (a subset of OperationKinds)
    MaxAttempts,    \* replicator retry budget of a row
    BatchSize,      \* rows one tick takes
    Faults,         \* the faults that may happen (a subset of FaultKinds)
    MaxRows,        \* bound: outbox rows recorded in a behaviour
    MaxTransients,  \* bound: transient failures of a row before its ceiling
    MaxCrashes      \* bound: crashes of the daemon

OperationKinds ==
    {"create",     \* an upsert that finds no node
     "update",     \* an upsert that finds one
     "delete"}

FaultKinds ==
    {"commit",     \* a graph write throws, applied or not
     "unknown",    \* a graph write times out and may be applied later
     "flip",       \* markCommitted throws
     "fanout",     \* the verbatim.upsert row cannot be recorded
     "undo",       \* the rollback of a graph write throws
     "delete",     \* an inline delete throws
     "replay",     \* a replay throws an error that counts as an attempt
     "transient",  \* a replay throws a transient error
     "unreadable", \* the graph does not answer the settle sweep
     "requeue",    \* an operator requeues a dead row
     "prune"}      \* the retention window of a replicated row elapses

ASSUME BoundsAssumption ==
    /\ MaxAttempts \in Nat \ {0} /\ BatchSize \in Nat \ {0}
    /\ MaxRows \in Nat /\ MaxTransients \in Nat /\ MaxCrashes \in Nat
    /\ Operations \subseteq OperationKinds /\ Faults \subseteq FaultKinds

VARIABLES
    rows,      \* the outbox table
    nextRow,   \* the next row id
    cursor,    \* outbox_replication_state.lastReplicatedSeq
    graph,     \* the graph substrate
    req,       \* the request that holds each node's lock
    hung,      \* graph writes sent by a request that no longer waits for them
    pc,        \* where the replicator is
    batch,     \* the tick's snapshot of the rows it has not finished
    cur,       \* the row being replayed, healed or settled
    advanced,  \* the highest sequence id the tick replicated
    deferred,  \* nodes whose replay the tick put off
    todo,      \* rows the self-heal or settle sweep has not come to yet
    verdict,   \* what the sweep read about `cur'
    crashes,   \* crashes so far
    acked,     \* the last acknowledged content of each node
    maybe      \* contents of writes that were neither acknowledged nor refused

N == INSTANCE RevisionedNode

storeVars == <<rows, nextRow, cursor>>
replVars  == <<pc, batch, cur, advanced, deferred, todo, verdict>>
ackVars   == <<acked, maybe>>
vars      == <<storeVars, graph, req, hung, replVars, crashes, ackVars>>

-----------------------------------------------------------------------------
(* Requests and replicator phases *)

Phases == {"idle", "commit", "flip", "fanout", "undo", "retract",
           "compensate", "reread", "delete"}

\* `prior' is the node as read under the lock, `row' the outbox row of the
\* write, `back' what a compensating row must re-assert.
Request == [phase: Phases, content: Contents \cup {NoContent}, prior: N!Node,
            row: Nat, conflict: BOOLEAN, back: N!Node]

NoRequest == [phase |-> "idle", content |-> NoContent, prior |-> N!Absent,
              row |-> 0, conflict |-> FALSE, back |-> N!Absent]

HungWrite == [row: Nat, key: Keys, rev: Nat, content: Contents]

PCs == {"down", "tick", "next", "claim", "skip", "dispatch", "mark", "settle",
        "late", "defer", "heal", "probe", "healmark", "sweep", "read", "act", "prune"}

Verdicts == {"none", "flip", "retract", "wait"}

LockHeld(k) == req[k].phase # "idle"

\* Bound: a request starts only if there is room for its row and for the
\* compensating rows of the requests under way.
Busy == {k \in Keys : LockHeld(k)}
Room(n) == nextRow + n + Cardinality(Busy) <= MaxRows + 1

TypeOK ==
    /\ nextRow \in Nat \ {0}
    /\ DOMAIN rows \subseteq 1 .. (nextRow - 1)
    /\ \A i \in DOMAIN rows : rows[i] \in Row
    /\ cursor \in Nat
    /\ graph \in [Keys -> N!Node]
    /\ req \in [Keys -> Request]
    /\ hung \subseteq HungWrite
    /\ pc \in PCs
    /\ DOMAIN batch \subseteq Nat
    /\ \A i \in DOMAIN batch : batch[i] \in Row
    /\ cur \in Nat
    /\ advanced \in Nat
    /\ deferred \subseteq Keys
    /\ todo \subseteq Nat
    /\ verdict \in Verdicts
    /\ crashes \in Nat
    /\ acked \in [Keys -> Contents \cup {NoContent}]
    /\ maybe \in [Keys -> SUBSET (Contents \cup {NoContent})]

\* A node is absent, or was written before and its row is long gone.
Init ==
    /\ rows = NoRows
    /\ nextRow = 1
    /\ cursor = 0
    /\ graph \in [Keys -> {N!Absent} \cup [rev: {1}, content: Contents]]
    /\ req = [k \in Keys |-> NoRequest]
    /\ hung = {}
    /\ pc = "tick"
    /\ batch = NoRows
    /\ cur = 0
    /\ advanced = 0
    /\ deferred = {}
    /\ todo = {}
    /\ verdict = "none"
    /\ crashes = 0
    /\ acked = [k \in Keys |-> graph[k].content]
    /\ maybe = [k \in Keys |-> {}]

-----------------------------------------------------------------------------
(* Steps of the write path.  The daemon serves requests only while it is up. *)

Up == pc # "down"

\* Record `spec' under the next id.
RecordRow(spec) ==
    /\ rows' = Record(rows, nextRow, spec, cursor)
    /\ nextRow' = nextRow + 1
    /\ UNCHANGED cursor

\* The request on node k ends; what it wrote becomes `a' for its caller.
Finish(k) == req' = [req EXCEPT ![k] = NoRequest]
Acknowledge(k, c) ==
    /\ acked' = [acked EXCEPT ![k] = c]
    /\ maybe' = [maybe EXCEPT ![k] = {}]
LeaveOpen(k, c) ==
    /\ maybe' = [maybe EXCEPT ![k] = @ \cup {c}]
    /\ UNCHANGED acked

\* nodeUpsert: lock, read the node, record its row ahead of the commit.
UpsertRecord(k, c) ==
    /\ Up /\ ~LockHeld(k) /\ Room(1)
    /\ (IF N!IsPresent(graph[k]) THEN "update" ELSE "create") \in Operations
    /\ RecordRow(UpsertSpec(k, graph[k].rev + 1, c, "pending_commit"))
    /\ req' = [req EXCEPT ![k] = [NoRequest EXCEPT !.phase = "commit",
                  !.content = c, !.prior = graph[k], !.row = nextRow]]
    /\ UNCHANGED <<graph, hung, replVars, crashes, ackVars>>

\* The conditional graph write lands.
UpsertCommit(k) ==
    /\ req[k].phase = "commit"
    /\ N!CanCommitAt(graph[k], req[k].prior.rev)
    /\ graph' = [graph EXCEPT ![k] =
                    N!CommitAt(@, req[k].prior.rev, req[k].content)]
    /\ req' = [req EXCEPT ![k].phase = "flip"]
    /\ UNCHANGED <<storeVars, hung, replVars, crashes, ackVars>>

\* RevisionConflictError: take the row back, whatever happens next.
UpsertConflict(k) ==
    /\ req[k].phase = "commit"
    /\ ~N!CanCommitAt(graph[k], req[k].prior.rev)
    /\ req' = [req EXCEPT ![k].phase = "retract", ![k].conflict = TRUE]
    /\ UNCHANGED <<storeVars, graph, hung, replVars, crashes, ackVars>>

\* Any other definite error of the graph write, applied or not: roll back.
UpsertThrows(k, applied) ==
    /\ "commit" \in Faults
    /\ req[k].phase = "commit"
    /\ applied => N!CanCommitAt(graph[k], req[k].prior.rev)
    /\ graph' = IF applied
                THEN [graph EXCEPT ![k] =
                        N!CommitAt(@, req[k].prior.rev, req[k].content)]
                ELSE graph
    /\ req' = [req EXCEPT ![k].phase = "undo"]
    /\ UNCHANGED <<storeVars, hung, replVars, crashes, ackVars>>

\* Outcome unknown: the error goes to the caller and the row stays behind.
UpsertUnknown(k) ==
    /\ "unknown" \in Faults
    /\ req[k].phase = "commit"
    /\ hung' = hung \cup {[row |-> req[k].row, key |-> k,
                           rev |-> req[k].prior.rev, content |-> req[k].content]}
    /\ Finish(k)
    /\ LeaveOpen(k, req[k].content)
    /\ UNCHANGED <<storeVars, graph, replVars, crashes>>

\* commitHotRows never throws; the flip itself may fail.
UpsertFlip(k, ok) ==
    /\ req[k].phase = "flip"
    /\ ok \/ "flip" \in Faults
    /\ rows' = IF ok THEN MarkCommitted(rows, req[k].row) ELSE rows
    /\ req' = [req EXCEPT ![k].phase = "fanout"]
    /\ UNCHANGED <<nextRow, cursor, graph, hung, replVars, crashes, ackVars>>

\* The verbatim row is recorded: unlock and acknowledge.
FanoutDone(k) ==
    /\ req[k].phase = "fanout"
    /\ Finish(k)
    /\ Acknowledge(k, req[k].content)
    /\ UNCHANGED <<storeVars, graph, hung, replVars, crashes>>

FanoutFails(k) ==
    /\ "fanout" \in Faults
    /\ req[k].phase = "fanout"
    /\ req' = [req EXCEPT ![k].phase = "undo"]
    /\ UNCHANGED <<storeVars, graph, hung, replVars, crashes, ackVars>>

\* undoGraphWrite: delete a node this write created, put an older one back,
\* leave alone one that is gone.
Undone(k) ==
    IF ~N!IsPresent(req[k].prior) \/ ~N!IsPresent(graph[k])
    THEN N!Absent
    ELSE N!RestoreOver(graph[k], req[k].prior.content)

Undo(k) ==
    /\ req[k].phase = "undo"
    /\ graph' = [graph EXCEPT ![k] = Undone(k)]
    /\ req' = [req EXCEPT ![k].phase = "retract", ![k].back = Undone(k)]
    /\ UNCHANGED <<storeVars, hung, replVars, crashes, ackVars>>

\* The undo throws: the compensating row, if one is needed, re-asserts the
\* previous node without a revision.
UndoFails(k) ==
    /\ "undo" \in Faults
    /\ req[k].phase = "undo"
    /\ req' = [req EXCEPT ![k].phase = "retract",
                          ![k].back = [req[k].prior EXCEPT !.rev = 0]]
    /\ LeaveOpen(k, req[k].content)
    /\ UNCHANGED <<storeVars, graph, hung, replVars, crashes>>

\* removeIfPending: gone if nobody claimed the row, else compensate.
Retract(k) ==
    LET after == IF req[k].conflict THEN "reread" ELSE "idle"
    IN  /\ req[k].phase = "retract"
        /\ rows' = RemoveIfPending(rows, req[k].row)
        /\ IF ~RemoveIfPendingResult(rows, req[k].row)
           THEN req' = [req EXCEPT ![k].phase = "compensate"]
           ELSE IF after = "idle" THEN Finish(k)
           ELSE req' = [req EXCEPT ![k].phase = after]
        /\ UNCHANGED <<nextRow, cursor, graph, hung, replVars, crashes, ackVars>>

\* A claimed row of a refused write is followed by one that re-asserts what the
\* graph holds (conflict) or was put back to (rollback).
Compensate(k) ==
    LET back == IF req[k].conflict THEN graph[k] ELSE req[k].back
    IN  /\ req[k].phase = "compensate"
        /\ RecordRow(IF N!IsPresent(back)
                     THEN UpsertSpec(k, back.rev, back.content, "pending")
                     ELSE DeleteSpec(k))
        /\ IF req[k].conflict THEN req' = [req EXCEPT ![k].phase = "reread"]
                              ELSE Finish(k)
        /\ UNCHANGED <<graph, hung, replVars, crashes, ackVars>>

\* Retry a lost conditional write from what is stored now ...
Reread(k) ==
    /\ req[k].phase = "reread" /\ Room(0)
    /\ RecordRow(UpsertSpec(k, graph[k].rev + 1, req[k].content, "pending_commit"))
    /\ req' = [req EXCEPT ![k].phase = "commit", ![k].prior = graph[k],
                          ![k].row = nextRow, ![k].conflict = FALSE]
    /\ UNCHANGED <<graph, hung, replVars, crashes, ackVars>>

\* ... or report the conflict (ifRevision, or every attempt lost).
GiveUp(k) ==
    /\ req[k].phase = "reread"
    /\ Finish(k)
    /\ UNCHANGED <<storeVars, graph, hung, replVars, crashes, ackVars>>

\* deleteNodeEverywhere: the row first, ready at once, then the graph.
DeleteRecord(k) ==
    /\ "delete" \in Operations /\ Up /\ ~LockHeld(k) /\ Room(0)
    /\ RecordRow(DeleteSpec(k))
    /\ req' = [req EXCEPT ![k] = [NoRequest EXCEPT !.phase = "delete",
                                                   !.row = nextRow]]
    /\ UNCHANGED <<graph, hung, replVars, crashes, ackVars>>

DeleteApply(k) ==
    /\ req[k].phase = "delete"
    /\ graph' = [graph EXCEPT ![k] = N!Absent]
    /\ Finish(k)
    /\ Acknowledge(k, NoContent)
    /\ UNCHANGED <<storeVars, hung, replVars, crashes>>

DeleteThrows(k) ==
    /\ "delete" \in Faults
    /\ req[k].phase = "delete"
    /\ Finish(k)
    /\ LeaveOpen(k, NoContent)
    /\ UNCHANGED <<storeVars, graph, hung, replVars, crashes>>

\* A write nobody waits for is applied late, if its condition still holds, or
\* lost.
HungLands(h) ==
    /\ h \in hung
    /\ N!CanCommitAt(graph[h.key], h.rev)
    /\ graph' = [graph EXCEPT ![h.key] = N!CommitAt(@, h.rev, h.content)]
    /\ hung' = hung \ {h}
    /\ LeaveOpen(h.key, h.content)
    /\ UNCHANGED <<storeVars, req, replVars, crashes>>

HungLost(h) ==
    /\ h \in hung
    /\ hung' = hung \ {h}
    /\ UNCHANGED <<storeVars, graph, req, replVars, crashes, ackVars>>

-----------------------------------------------------------------------------
(* The replicator tick *)

Goto(p) == pc' = p
sysVars == <<graph, req, hung, crashes, ackVars>>

\* Where the loop may start each of its turns.  A round is tick, self-heal,
\* settle, prune; each of the three sweeps has its own cadence, so a round may
\* pass over any of them.
AtHeal  == pc = "heal"
AtSweep == pc \in {"heal", "sweep"}
AtPrune == pc \in {"heal", "sweep", "prune"}
AtTick  == pc \in {"heal", "sweep", "prune", "tick"}

\* The row being replayed, as the tick's snapshot has it.
entry == batch[cur]

TickStart ==
    /\ AtTick
    /\ LET ids == ListPending(rows, BatchSize)
       IN  /\ batch' = [i \in ids |-> rows[i]]
           /\ advanced' = IF ids = {} THEN 0 ELSE cursor
           /\ Goto(IF ids = {} THEN "heal" ELSE "next")
    /\ UNCHANGED <<storeVars, cur, deferred, todo, verdict, sysVars>>

\* Mutant: a deferred node does not hold back its later rows.
TickNextUnordered(i) ==
    /\ pc = "next"
    /\ i \in DOMAIN batch
    /\ \A j \in DOMAIN batch : batch[i].seq <= batch[j].seq
    /\ cur' = i
    /\ Goto(IF IsSuperseded(rows, batch[i]) THEN "skip" ELSE "claim")
    /\ UNCHANGED <<storeVars, batch, advanced, deferred, todo, verdict, sysVars>>

\* Take the next row of the snapshot and ask the supersession guards.  A row
\* of a deferred node waits for the next tick.
TickNext(i) ==
    /\ pc = "next"
    /\ i \in DOMAIN batch
    /\ \A j \in DOMAIN batch : batch[i].seq <= batch[j].seq
    /\ IF batch[i].key \in deferred
       THEN batch' = Remove(batch, {i}) /\ UNCHANGED <<pc, cur>>
       ELSE /\ cur' = i
            /\ Goto(IF IsSuperseded(rows, batch[i]) THEN "skip" ELSE "claim")
            /\ UNCHANGED batch
    /\ UNCHANGED <<storeVars, advanced, deferred, todo, verdict, sysVars>>

\* replicateOne returns: the loop moves on to the next row of the snapshot.
RowDone ==
    /\ batch' = Remove(batch, {cur})
    /\ cur' = 0
    /\ Goto("next")

SkipSuperseded ==
    /\ pc = "skip"
    /\ rows' = MarkEntryStatus(rows, cur, "dead", 0, "superseded")
    /\ RowDone
    /\ UNCHANGED <<nextRow, cursor, advanced, deferred, todo, verdict, sysVars>>

\* A row that cannot be claimed is not dispatched.
Claim ==
    /\ pc = "claim"
    /\ rows' = ClaimForReplication(rows, cur)
    /\ IF cur \in Eligible(rows)
       THEN Goto("dispatch") /\ UNCHANGED <<batch, cur>>
       ELSE RowDone
    /\ UNCHANGED <<nextRow, cursor, advanced, deferred, todo, verdict, sysVars>>

\* The replay runs under the node lock; a throw may come after the effect.
Dispatch(ok, applied) ==
    /\ pc = "dispatch"
    /\ ~LockHeld(entry.key)
    /\ ok => applied
    /\ ~ok /\ applied => "replay" \in Faults
    /\ ~ok /\ ~applied => Faults \cap {"replay", "transient"} # {}
    /\ graph' = IF applied
                THEN [graph EXCEPT ![entry.key] = N!Replay(@, entry)]
                ELSE graph
    /\ Goto(IF ok THEN "mark" ELSE IF applied THEN "late" ELSE "settle")
    /\ UNCHANGED <<storeVars, batch, cur, advanced, deferred, todo, verdict,
                   req, hung, crashes, ackVars>>

\* The lock stays busy for the whole bounded wait: the replay never started.
DispatchTimesOut ==
    /\ pc = "dispatch"
    /\ LockHeld(entry.key)
    /\ deferred' = deferred \cup {entry.key}
    /\ Goto("defer")
    /\ UNCHANGED <<storeVars, batch, cur, advanced, todo, verdict, sysVars>>

ReleaseDeferred ==
    /\ pc = "defer"
    /\ rows' = MarkEntryStatus(rows, cur, "pending", 0, "none")
    /\ RowDone
    /\ UNCHANGED <<nextRow, cursor, advanced, deferred, todo, verdict, sysVars>>

MarkReplicated ==
    /\ pc = "mark"
    /\ rows' = MarkEntryStatus(rows, cur, "replicated", 0, "none")
    /\ advanced' = WriteReplicationState(advanced, entry.seq)
    /\ RowDone
    /\ UNCHANGED <<nextRow, cursor, deferred, todo, verdict, sysVars>>

\* recordReplayFailure, on the snapshot's counters.
SettleCounted ==
    /\ pc \in {"settle", "late"}
    /\ "replay" \in Faults
    /\ rows' = IF entry.attempts + 1 >= MaxAttempts
               THEN MarkEntryStatus(rows, cur, "dead", 1, "unreplayable")
               ELSE MarkEntryStatus(rows, cur, "failed", 1, "none")
    /\ RowDone
    /\ UNCHANGED <<nextRow, cursor, advanced, deferred, todo, verdict, sysVars>>

\* A transient error ("nothing was applied, replay later") counts no attempt and
\* may halt the batch; the row dies
\* once its transient time ceiling is over, which needs an earlier one.
SettleTransient(ceiling, halt) ==
    /\ pc = "settle"
    /\ "transient" \in Faults
    /\ IF ceiling THEN entry.transients > 0
                  ELSE entry.transients < MaxTransients
    /\ rows' = IF ceiling
               THEN MarkEntryStatus(rows, cur, "dead", 0, "unreplayable")
               ELSE RecordTransientFailure(rows, cur)
    /\ batch' = IF halt THEN NoRows ELSE Remove(batch, {cur})
    /\ cur' = 0
    /\ Goto("next")
    /\ UNCHANGED <<nextRow, cursor, advanced, deferred, todo, verdict, sysVars>>

TickEnd ==
    /\ pc = "next"
    /\ DOMAIN batch = {}
    /\ cursor' = WriteReplicationState(cursor, advanced)
    /\ advanced' = 0
    /\ deferred' = {}
    /\ Goto("heal")
    /\ UNCHANGED <<rows, nextRow, batch, cur, todo, verdict, sysVars>>

-----------------------------------------------------------------------------
(* The sweeps between two ticks *)

tickVars == <<batch, advanced, deferred>>

\* Self-heal: failed rows older than the grace, and never dead ones.
HealStart ==
    /\ AtHeal
    /\ \E S \in SUBSET WithStatus(rows, "failed") : S # {} /\ todo' = S
    /\ Goto("probe")
    /\ UNCHANGED <<storeVars, tickVars, cur, verdict, sysVars>>

HealProbe(i) ==
    /\ pc = "probe"
    /\ i \in todo
    /\ todo' = todo \ {i}
    /\ IF i \in DOMAIN rows /\ N!VerifyApplied(graph[rows[i].key], rows[i])
       THEN cur' = i /\ Goto("healmark")
       ELSE UNCHANGED <<pc, cur>>
    /\ UNCHANGED <<storeVars, tickVars, verdict, sysVars>>

HealMark ==
    /\ pc = "healmark"
    /\ rows' = MarkEntryStatus(rows, cur, "replicated", 0, "none")
    /\ cur' = 0
    /\ Goto("probe")
    /\ UNCHANGED <<nextRow, cursor, tickVars, todo, verdict, sysVars>>

HealEnd ==
    /\ pc = "probe"
    /\ todo = {}
    /\ Goto("sweep")
    /\ UNCHANGED <<storeVars, tickVars, cur, todo, verdict, sysVars>>

\* Settle the pending_commit rows: ask the graph, never guess.
SweepStart ==
    /\ AtSweep
    /\ WithStatus(rows, "pending_commit") # {}
    /\ todo' = WithStatus(rows, "pending_commit")
    /\ Goto("read")
    /\ UNCHANGED <<storeVars, tickVars, cur, verdict, sysVars>>

\* Bound on real time: a row outlives the grace period only when neither its
\* request nor a late write of it is under way any more.
PastGrace(i) ==
    /\ \A k \in Keys : req[k].row # i
    /\ \A h \in hung : h.row # i

\* Mutant: a row the graph does not show is kept for ever.
SweepVerdictNoRetract(i) ==
    IF i \in DOMAIN rows /\ N!RowCommitted(graph[rows[i].key], rows[i])
    THEN "flip" ELSE "wait"

\* What the graph says about row i: flip it, retract it, or leave it (the row
\* is gone meanwhile, too young, or the graph does not answer).
SweepVerdict(i) ==
    IF i \notin DOMAIN rows THEN "wait"
    ELSE IF N!RowCommitted(graph[rows[i].key], rows[i]) THEN "flip"
    ELSE IF PastGrace(i) THEN "retract" ELSE "wait"

SweepRead(i) ==
    /\ pc = "read"
    /\ i \in todo
    /\ todo' = todo \ {i}
    /\ cur' = i
    /\ verdict' = SweepVerdict(i)
    /\ Goto("act")
    /\ UNCHANGED <<storeVars, tickVars, sysVars>>

SweepUnreadable ==
    /\ "unreadable" \in Faults
    /\ pc = "read"
    /\ todo # {}
    /\ todo' = {}
    /\ UNCHANGED <<storeVars, tickVars, cur, verdict, pc, sysVars>>

SweepAct ==
    /\ pc = "act"
    /\ rows' = CASE verdict = "flip"    -> MarkCommitted(rows, cur)
                 [] verdict = "retract" -> RemoveIfPending(rows, cur)
                 [] OTHER               -> rows
    /\ verdict' = "none"
    /\ cur' = 0
    /\ Goto("read")
    /\ UNCHANGED <<nextRow, cursor, tickVars, todo, sysVars>>

SweepEnd ==
    /\ pc = "read"
    /\ todo = {}
    /\ Goto("prune")
    /\ UNCHANGED <<storeVars, tickVars, cur, todo, verdict, sysVars>>

\* Bound on real time: the retention window (7 d) is longer than a row can stay
\* unfinished (24 h), so a pruned row has no unfinished one before it.
Unfinished(r) == r.status \notin {"replicated", "dead"}

PastRetention(i) ==
    \A j \in DOMAIN rows :
        Unfinished(rows[j]) => rows[j].key # rows[i].key \/ rows[j].seq > rows[i].seq

Prune ==
    /\ AtPrune
    /\ "prune" \in Faults
    /\ \E S \in SUBSET WithStatus(rows, "replicated") :
        /\ S # {}
        /\ \A i \in S : PastRetention(i)
        /\ rows' = Remove(rows, S)
    /\ Goto("tick")
    /\ UNCHANGED <<nextRow, cursor, tickVars, cur, todo, verdict, sysVars>>

-----------------------------------------------------------------------------
(* The clock, the operator, crashes *)

BackoffElapses(i) ==
    /\ i \in DOMAIN rows
    /\ ~rows[i].due
    /\ rows' = [rows EXCEPT ![i].due = TRUE]
    /\ UNCHANGED <<nextRow, cursor, replVars, sysVars>>

OperatorRequeues(i) ==
    /\ "requeue" \in Faults /\ Up
    /\ i \in WithStatus(rows, "dead")
    /\ rows' = RequeueDead(rows, i)
    /\ UNCHANGED <<nextRow, cursor, replVars, sysVars>>

\* Every request dies with the daemon; one that had sent its write leaves it
\* in flight.
Crash ==
    /\ Up /\ crashes < MaxCrashes
    /\ crashes' = crashes + 1
    /\ hung' = hung \cup {[row |-> req[k].row, key |-> k, rev |-> req[k].prior.rev,
                           content |-> req[k].content] :
                            k \in {x \in Keys : req[x].phase = "commit"}}
    /\ req' = [k \in Keys |-> NoRequest]
    /\ maybe' = [k \in Keys |->
                    IF LockHeld(k) THEN maybe[k] \cup {req[k].content} ELSE maybe[k]]
    /\ pc' = "down"
    /\ batch' = NoRows
    /\ cur' = 0
    /\ deferred' = {}
    /\ advanced' = 0
    /\ todo' = {}
    /\ verdict' = "none"
    /\ UNCHANGED <<storeVars, graph, acked>>

\* runBootRecovery, then replicator.start.
Recover ==
    /\ pc = "down"
    /\ rows' = RequeueReplicating(rows)
    /\ Goto("tick")
    /\ UNCHANGED <<nextRow, cursor, tickVars, cur, todo, verdict, sysVars>>

-----------------------------------------------------------------------------

RequestStep(k) ==
    \/ UpsertCommit(k) \/ UpsertConflict(k) \/ UpsertUnknown(k)
    \/ \E b \in BOOLEAN : UpsertThrows(k, b) \/ UpsertFlip(k, b)
    \/ FanoutDone(k) \/ FanoutFails(k)
    \/ Undo(k) \/ UndoFails(k) \/ Retract(k) \/ Compensate(k)
    \/ Reread(k) \/ GiveUp(k)
    \/ DeleteApply(k) \/ DeleteThrows(k)

Client(k) == (\E c \in Contents : UpsertRecord(k, c)) \/ DeleteRecord(k)

LateWrite == \E h \in hung : HungLands(h) \/ HungLost(h)

ReplicatorStep ==
    \/ TickStart \/ (\E i \in DOMAIN batch : TickNext(i)) \/ TickEnd
    \/ SkipSuperseded \/ Claim
    \/ \E ok, applied \in BOOLEAN : Dispatch(ok, applied)
    \/ DispatchTimesOut \/ ReleaseDeferred
    \/ MarkReplicated \/ SettleCounted
    \/ \E ceiling, halt \in BOOLEAN : SettleTransient(ceiling, halt)
    \/ HealStart \/ (\E i \in todo : HealProbe(i)) \/ HealMark \/ HealEnd
    \/ SweepStart \/ (\E i \in todo : SweepRead(i)) \/ SweepUnreadable
    \/ SweepAct \/ SweepEnd
    \/ Prune

Next ==
    \/ \E k \in Keys : Client(k) \/ RequestStep(k)
    \/ LateWrite
    \/ ReplicatorStep
    \/ \E i \in DOMAIN rows : BackoffElapses(i) \/ OperatorRequeues(i)
    \/ Crash
    \/ Recover

Spec == Init /\ [][Next]_vars

-----------------------------------------------------------------------------
(* Fairness: the event loop keeps running every request and the replicator,  *)
(* timers fire, a restarted daemon boots, and a write in flight is applied   *)
(* or lost.  A sweep whose cadence is due is taken at its next turn in the   *)
(* loop, although other turns may pass over it: strong fairness.             *)

Fairness ==
    /\ \A k \in Keys : WF_vars(RequestStep(k))
    /\ WF_vars(ReplicatorStep)
    /\ SF_vars(SweepStart)
    /\ WF_vars(LateWrite)
    /\ WF_vars(\E i \in DOMAIN rows : BackoffElapses(i))
    /\ WF_vars(Recover)

FairSpec == Spec /\ Fairness

-----------------------------------------------------------------------------
(* Safety *)

Replaying == {"dispatch", "mark", "settle", "late", "defer"}

\* What the replicator dispatches, marks or settles is a live row that it has
\* claimed and that nobody retracted, settled or reclaimed since: the claim of
\* replicatorClaim.ts against removeIfPending, the sweeps and the operator.
DispatchOwnsRow ==
    pc \in Replaying => cur \in DOMAIN rows /\ rows[cur].status = "replicating"

\* A row is 'replicating' only while its replay is under way, or until the
\* daemon that crashed in its replay boots again: no claim is ever orphaned.
NoOrphanClaim ==
    \A i \in WithStatus(rows, "replicating") :
        pc = "down" \/ (pc \in Replaying /\ cur = i)

\* Live rows have sequence ids in the order they were recorded, so the tick's
\* ORDER BY and the newer-than guards follow the order of the writes.
SeqFollowsOrder ==
    \A i, j \in DOMAIN rows : i < j => rows[i].seq < rows[j].seq

\* Nothing is under way for node k: the outbox has said its last word.
Quiet(k) ==
    /\ Up
    /\ ~LockHeld(k)
    /\ \A h \in hung : h.key # k
    /\ \A i \in DOMAIN rows : rows[i].key = k => ~Unfinished(rows[i])

\* A row of k sits in the dead-letter queue for the operator.
DeadLettered(k) ==
    \E i \in DOMAIN rows : /\ rows[i].key = k
                           /\ rows[i].status = "dead"
                           /\ rows[i].reason # "superseded"

\* Once the outbox is done with a node and reported no dead letter for it, the
\* graph holds the last acknowledged write, or a write whose caller was told
\* neither success nor failure; never a refused write, never an older one.
Settled(k) == Quiet(k) /\ ~DeadLettered(k)
Agreed(k) == graph[k].content \in {acked[k]} \cup maybe[k]

Converged == \A k \in Keys : Settled(k) => Agreed(k)

\* The part of it that loses data: an acknowledged write is still there once the
\* outbox is done, unless something later may have replaced it.
AckedWriteSurvives ==
    \A k \in Keys : Settled(k) /\ acked[k] # NoContent => Agreed(k)

\* The other part: a node whose delete was acknowledged stays away.  No row that
\* was recorded before the delete, no refused write and no claim that passed the
\* newer-delete guard too early brings it back for good.
DeleteFinal ==
    \A k \in Keys : Settled(k) /\ acked[k] = NoContent => Agreed(k)

-----------------------------------------------------------------------------
(* Action properties *)

\* The revision of a node that stays present only goes up, and its content never
\* changes under an unchanged revision (revision.ts).
RevisionStep ==
    \A k \in Keys : N!IsPresent(graph[k]) /\ N!IsPresent(graph'[k]) =>
        \/ graph'[k].rev > graph[k].rev
        \/ graph'[k] = graph[k]

RevisionOnlyUp == [][RevisionStep]_vars

\* Every row moves along the documented statuses only (RowLifecycle): whatever
\* the request, the replicator, the sweeps, the operator and a crash do to it
\* between two awaits of each other, no claimed row is retracted, no finished
\* row is reopened but by the operator, and no removed row comes back.
RowLife == [i \in 1 .. (nextRow - 1) |->
               IF i \in DOMAIN rows THEN rows[i].status ELSE "gone"]

L == INSTANCE RowLifecycle WITH life <- RowLife

Lifecycle == L!Spec

-----------------------------------------------------------------------------
(* Liveness *)

\* Every recorded row is eventually replicated, dead-lettered or gone: no row is
\* starved behind the cursor, a deferral, a backoff or a lost flip.
EveryRowSettles ==
    \A i \in 1 .. MaxRows :
        (i \in DOMAIN rows /\ Unfinished(rows[i]))
            ~> (i \notin DOMAIN rows \/ ~Unfinished(rows[i]))

=============================================================================
