# Lore: TLA+ models of the write path, the locks, bulk loads and migrations

This directory is a verification development of `packages/lore`, the daemon that
stores nodes, edges and verbatim text for agents.  It models four parts of it, the
ones in which several actors, failures and restarts meet:

* the outbox write path: how one logical write of a node reaches several substrates;
* the write locks it runs under;
* the bulk loader, which streams uploads into jobs and resumes them after a crash;
* the online migration coordinator, which changes a table that is in use.

All paths below are relative to `src/packages/lore/src/`.

## 1. The system

### Components, their state and their operations

| component | state | operations |
|---|---|---|
| outbox store (`outbox/sqliteStore.ts`, `sqliteDeadLetters.ts`, `sqlitePendingCommit.ts`) | table of rows (kind, payload, sequence id, status, attempts, backoff), cursor per workspace | record, removeIfPending, markCommitted, claimForReplication, markEntryStatus, recordTransientFailure, requeueDead, pruneReplicated, newer-than queries, writeReplicationState |
| hot lane (`outbox/hotLane.ts`, `pendingCommit.ts`) | - (rows) | recordHotWrite, commitHotRows, settlePendingCommits |
| replicator (`outbox/replicator.ts`, `replicatorClaim.ts`, `replayDeferred.ts`, `deleteAwareReplay.ts`, `failureDisposition.ts`) | position in the loop, snapshot of a tick, deferred entities | tick, claim, dispatch, deferral, failure disposition, self-heal, settle sweep, prune |
| dispatcher and wiring (`outbox/dispatcher.ts`, `outbox/wiring.ts`, `engines/arcade/arcadeOutboxWiring.ts`) | - | dispatch under the node lock, verifyApplied |
| boot recovery (`outbox/recovery.ts`, `coordinator.ts`) | rows, steps of legacy rows | recoverOutbox |
| node write path (`core/nodeService.ts`, `nodeServiceConditional.ts`, `nodeServiceVerbatim.ts`, `nodeDeleteService.ts`) | a request in flight | nodeUpsert, rollback, retraction, compensation, deleteNodeEverywhere |
| graph revisions (`engines/graphShared/`, `engines/arcade/arcadeGraphStore.ts`, `engines/sqlite/sqliteGraphWrites.ts`) | nodes with a revision | upsertNode, upsertNodeAtRevision, replayNodeAtRevision, deleteNode, unknown outcomes |
| node locks (`core/nodeWriteLock.ts`, `engines/writeQueue.ts`, `engines/holdContext.ts`) | a promise chain per key, wait allowances | withNodeLock, withNodeLockBudgeted, withNodeLocks, withEdgeLocks |
| load jobs (`storage/loadJobs*.ts`, `mcp/http/routes/load.ts`, `bulkLoader/loaderDispatcher.ts`) | job table, temp files, concurrency counter, abort registry, substrate buffers | upload, cancel, poll, claim, parse, flush, checkpoint, stamp, notify, sweep, reconcile, resume |
| migration coordinator (`migration/`, `cli/commands/migrateOnline.ts`) | migrations table, the columns of the migrated table | apply, advance, rollback, backfill, contract |
| verbatim consolidation and purge, half-completion reaper | vector rows, batches | group dispatch, purge guard, reap |
| lag cache, recallable waiter, version store | cached depth; waiters; version chains | admission, wait, prune |
| verbatim promotion (`engines/verbatimPromotion*.ts`) | staged table, gate | stage, catch up, cut over |
| sync engine, multi-master, WAL push | pull cursors, conflict records | push, pull, reconcile |
| schema approvals, ingestion, workspace erase | approvals, jobs, phases | see the plan |
| MCP and HTTP surface, recall and ranking, extractors and embedders, configuration | none that a step could break | - |

`PROJECT.json` lists the same components with what is modelled of each.

### How they interact

A request takes the lock of its node, reads the node, records a `node.upsert` row
as `pending_commit` with revision *r*+1, and writes the graph on the condition that
the stored revision is still *r*.  When the write lands, the row is flipped to
`pending` and the verbatim row is recorded; only then is the caller told.  When
something fails on the way, the graph write is undone and the row retracted, unless
the replicator has already claimed it; then a compensating row follows it.  A delete
records its row ready at once and deletes the node.

The replicator is one loop beside the requests.  It takes a snapshot of eligible
rows in sequence order and, for each, asks the supersession guards, claims the row,
waits a bounded time for the node's lock, dispatches, and marks the row.  Between
ticks it heals failed rows the graph already shows, settles `pending_commit` rows by
reading the graph, and prunes old replicated rows.  Every one of these is an `await`
at which requests, other sweeps, an operator or a crash may slip in.

The write locks are chains of promises in memory.  A batch takes the locks of all its
nodes in sorted order, the replicator takes one lock per row with one wait allowance
per tick, and a wait that runs out leaves an abandoned slot in the chain.

`POST /api/load` takes a slot of its workspace, creates a job row as `received` and
streams the body into a temp file.  A poll loop claims received jobs, parses the file,
buffers rows for the substrates and, every so many rows, flushes, queues embeddings in
the outbox and persists progress or a checkpoint.  At boot the counter is reconciled
and jobs left `running` are run again from their checkpoint, beside the loop.

`lore migrate` is a command per step: `apply` adds the new column, `advance` backfills,
then copies once more and drops the old column, then marks the end; `rollback` goes
back a phase.  The program that owns the table knows nothing of it.

### What is hard

* the request's retraction races the replicator's claim;
* the guard, the claim and the dispatch are three separate awaits;
* a graph write may time out and land later, after its caller has gone;
* a claimed row of a refused write may be replayed before or after the rollback;
* a node that is deleted and created again starts at revision 1 once more;
* the cursor, the guards and the prune all rely on one another's order;
* a lock's timer may fire in the microtask in which the lock becomes free, and an
  entry of the lock table outlives its last op by one microtask;
* a checkpoint promises that everything below it is durable in stores it does not
  share a transaction with;
* the poll loop and the crash recovery run the same jobs; the upload route and the
  runner give back the same slot; a cancel is signalled in memory and stamped on disk;
* a migration's table changes and its row are updated apart, and the table is written
  meanwhile;
* the daemon, or the command, may die anywhere in between.

`PROJECT.json` lists these hazards at their lines with the properties that watch
them.

## 2. The modules

| module | models |
|---|---|
| `RevisionedNode` | one node of the graph: revision and content, and what each write does to it |
| `OutboxStore` | the outbox table and cursor; each operator is one SQL statement or one synchronous transaction |
| `Outbox` | the system: requests, late writes, the replicator loop, clock, operator, crash, boot |
| `RowLifecycle` | the abstract promise about a row: the statuses it may pass through |
| `NodeLocks` | `KeyedMutex` and the bounded waits on top of it, a step per microtask boundary |
| `LockService` | the abstract promise of the locks: who may run when |
| `LoadJobs` | uploads, cancels, the job table, the runner and its recovery, for one workspace |
| `Migration` | one migration of a SQLite table, its commands and the owner of the table |
| `MCOutbox`, `MCSequence`, `MCNodeLocks`, `MCLoadJobs`, `MCMigration` | instances for TLC; `MCSequence` adds a history variable, the highest sequence id issued |
| `OutboxProofs`, `NodeLocksProofs`, `LoadJobsProofs`, `MigrationProofs` | theorems about each |
| `OutboxConvergence` | on top of `OutboxProofs`: convergence without deletes |
| `OutboxDeletes` | on top of `OutboxConvergence`: acknowledged deletes are final |
| `LoadSlotsProofs` | on top of `LoadJobsProofs`: the concurrency counter |

`Outbox` composes `OutboxStore` and `RevisionedNode` and relies on what `LockService`
promises for one key.  The other models share no state with it: a load job's outbox rows
(`embed.batch`, `load.done`) are of kinds the replicator treats on their own, and
migrations run on tables of other programs.

### Outbox
`rows` (a function from ids to rows), `nextRow` and `cursor` are the tables;
`graph` is the substrate; `req[k]` is the request that holds node `k`'s lock, at
the await named by its phase (`idle`: nobody holds it); `hung` are conditional
writes that were sent and that nobody waits for; `pc`, `batch`, `cur`, `advanced`,
`deferred`, `todo`, `verdict` are the locals of the replicator's loop.  `acked` and
`maybe` are ghosts: the content last acknowledged to a caller, and the contents of
writes whose caller was told neither success nor failure.

| action | code |
|---|---|
| `UpsertRecord`, `UpsertCommit`, `UpsertConflict`, `Reread`, `GiveUp` | `writeNodeAtRevision` and the conflict arm of `nodeUpsert` |
| `UpsertThrows`, `UpsertUnknown` | the catch of `nodeUpsert`: a definite error rolls back, an unknown outcome does nothing |
| `UpsertFlip`, `FanoutDone`, `FanoutFails` | `commitHotRows`, `applyVerbatimFanout` |
| `Undo`, `UndoFails`, `Retract`, `Compensate` | `rollbackPartialWrite`, `undoGraphWrite`, `retractNodeUpsertRow` |
| `DeleteRecord`, `DeleteApply`, `DeleteThrows` | `deleteNodeEverywhere` |
| `HungLands`, `HungLost` | a conditional write that reaches the database after its request gave up, or never |
| `TickStart`, `TickNext`, `SkipSuperseded`, `Claim`, `TickEnd` | `runTick`, `replicateOne` |
| `Dispatch`, `DispatchTimesOut`, `ReleaseDeferred` | the wired handlers under the node lock; `ReplayDeferredError` |
| `MarkReplicated`, `SettleCounted`, `SettleTransient` | `markEntryStatus`, `recordReplayFailure` |
| `HealStart`, `HealProbe`, `HealMark`, `HealEnd` | `runSelfHealSweep` |
| `SweepStart`, `SweepRead`, `SweepUnreadable`, `SweepAct`, `SweepEnd` | `settlePendingCommits` |
| `Prune` | `runPruneSweep`, `pruneReplicated` |
| `BackoffElapses`, `OperatorRequeues`, `Crash`, `Recover` | the clock, `requeueDead`, a crash, `recoverOutbox` before `replicator.start` |

Abstractions:

* One workspace, and the node family only (`node.upsert`, `node.delete`).  The
  verbatim row appears as one step that succeeds or fails.
* Row ids are UUIDs; here they count up in recording order, so that "recorded
  before" can be said.  The code never compares them.
* A payload is a content and a revision (0 for a payload without one).  Timestamps
  are dropped; `nextAttemptAt` is the flag `due` and the clock an action.
* The lock is not a variable: a request that waits for it has no state yet, so "at
  most one `req[k]`" says all of it.
* `maybe` grows when a write is left open and when such a write lands late; it is
  emptied by the next acknowledgement.
* Two real-time facts are guards.  `PastGrace`: the settle sweep retracts a row only
  after a grace period that outlasts its request and any write of it in flight
  (`DEFAULT_PENDING_COMMIT_GRACE_MS`).  `PastRetention`: a replicated row is pruned
  after 7 days, an unfinished one dies within 24 hours, so no unfinished row of the
  same node is older than a pruned one.
* The conditional write follows ArcadeDB, where a node that vanished after the read
  is a conflict.  The SQLite engine inserts it instead; inside one daemon the lock
  keeps the node from vanishing and only ArcadeDB has writes in flight, so no
  behaviour here depends on the difference.
* The revision-less compensating payload (after a rollback that threw) is replayed as
  a plain upsert, and so are legacy payloads.

### NodeLocks

`chain[k]` holds the ops of key `k` that have not settled; its head runs.  `lag[k]` is the
op that settled last while its map entry is still there, which is what `isHeld` sees.
`held[c]` are the keys inside whose critical section call `c` is, `gaveUp[c]` the slots it
left behind, `budget[c]` its `NodeLockWaitBudget`.

| action | code |
|---|---|
| `Enqueue`, `RefuseAtOnce` | the probe of `withNodeLock` and `withNodeLockBudgeted`, then `KeyedMutex.run` |
| `Start`, `Timeout`, `PassThrough` | the three ends of a wait in `withNodeLockWithin` |
| `Enter`, `Leave` | the body, under `runInHold` |
| `Unwind`, `Finally`, `Forget` | the nested sections settle from inside out; `run`'s finally block deletes the map entry |
| `Return` | the call settles; a tick defers a refused row and goes on with its next |

The clock appears only as the time charged to a wait (`d` ticks of at most `MaxWait`).  A
timer may fire in any state, also when the lock has just become free.  Keys are numbers
whose order is that of the strings; node and edge locks are two tables in the code and
disjoint keys here.  A body ends: `runInHold` bounds it by the request timeout.

### LoadJobs

The variables are grouped by where they live: the `load_jobs` table, the disk (temp file,
substrates, outbox rows), the daemon's memory, the clients.  `work[<<j, c>>]` holds the
locals of `runOneJob` for job `j`, called by the poll `loop` or by the boot's `resume`.

| action | code |
|---|---|
| `Reject`, `Accept`, `OpenTemp`, `Arrive`, `Ack`, `UploadFails` | `handlePostLoad`, `streamBodyToFile`, `tryAcquire` |
| `RequestCancel`, `StampCancel` | `handleCancelJob`: the abort registry, then the row |
| `Sweep` | `TempFileSweeper.tickOnce` |
| `Reconcile`, `ResumeRunning`, `RecoveryFails` | `start`, `startupReconcileAndResume` |
| `ListReceived`, `NextJob`, `Poll`, `Uncaught` | `loop`, `tickOnce` |
| `Claim`, `NotClaimed`, `Reenter`, `Open`, `OpenFails` | the head of `runOneJobInner`, before its try block |
| `BadRow`, `GoodRow`, `Eof`, `CancelSeen` | `streamParse` and its callback, `throwIfCancelled` |
| `Flush`, `FlushThrows`, `Embed`, `EmbedFails`, `Persist`, `Throws` | `flushAll`, `emitQueuedEmbeds`, `updateProgress`, `writeCheckpoint` |
| `Stamp`, `Notify`, `Failed`, `Cancelled`, `Release` | `trySetTerminal`, `emitLoadDone`, the catch and finally blocks |
| `Crash` | the process dies; memory is lost |

A row is its place in the body, good or not parseable.  A row is one thing in "the
substrates": that a verbatim row goes to SQLite and to Lance is not told apart.  The rows
a resume skips are skipped in one step.  `eof` is a ghost: how far a finished parse read.

### Migration

`kind`, `status`, `phase` are the migrations row; `cols`, `old`, `new` the table; `pc` is how
far the running command is; `truth` is a ghost, what the owner last wrote to each row.

| action | code |
|---|---|
| `Apply`, `ApplyRunning`, `Dispatch` | `apply`: `insertPending`, `update`, `prepareRename` and its like |
| `Advance`, `CopyBatch`, `CopyDone`, `Contract`, `DropOld`, `Mark`, `ColumnMissing` | `advance` with `migrateData`, `contract`, `dropOld` |
| `Rollback`, `RollbackExpand`, `RollbackMigrate`, `RollbackRefused`, `Undo`, `RolledBack` | `rollback`, `rollbackPhase`, `reverseAddColumn` |
| `Finish`, `Fail`, `StatementFails`, `Kill` | the last update of a command, an adapter verb that fails, a killed command |
| `Write` | the owner of the table (external) |

`rename_column` and `change_type` take the same steps and are one kind; so are the three
additive ones.  Assumed, because no code enforces it: one command runs at a time; the new
column is not there before the migration; an id that was rolled back is left alone; the
owner writes the old column until it is gone.

## 3. The checks

| run | what may happen | properties |
|---|---|---|
| `updates` | updates; commit, fan-out, flip or replay fails, unknown outcomes, a crash | `Converged`, `DispatchOwnsRow` |
| `deletes` | updates and deletes; failing deletes and replays, pruning | `DeleteFinal` |
| `recreates` | creates, updates, deletes; refused fan-outs, failed flips and deletes, pruning | `DeleteFinal`, `SeqFollowsOrder` |
| `operations` | creates, updates, deletes; commits that fail or are unknown, transient and counted replay failures, unreadable graph, requeue, pruning, a crash | `TypeOK`, `NoOrphanClaim`, `RevisionOnlyUp`, `Lifecycle` |
| `liveness` | two nodes; failing replays, fan-outs and rollbacks, a crash | `EveryRowSettles` |
| `locks` | two batches and a tick on the same two nodes; or a batch beside two edge writes on the same two triples | `TypeOK`, `Exclusive`, `BoundedWait`, `RefusedByAnother`, `Implements`, `EveryCallReturns` |
| `loads` | two jobs, cap 1; one fault or cancel, one crash | `TypeOK`, `CheckpointDurable`, `NothingSkipped`, `NoDoubleRun`, `CapHolds`, `CancelWins`, `SlotsReturned`, `CheckpointedJobsSettle` |
| `migration` | every kind; two failing statements, two kills, three writes | `TypeOK`, `NoValueLost`, `PhaseTruthful` |

Outbox:

* `Converged`: when nothing is under way for a node and no dead letter was reported
  for it, the graph holds the last acknowledged content, or one whose caller was told
  neither success nor failure.  This is the property the whole path exists for.  It has two
  halves, by what was acknowledged last.  `AckedWriteSurvives`: a write is still there; beside
  deletes the code does not keep it (`recreate_lost`).  `DeleteFinal`: a deleted node stays
  away; no older upsert, no refused write and no claim that passed the newer-delete guard too
  early brings it back for good.
* `DispatchOwnsRow`, `NoOrphanClaim`: the claim protocol, from both sides.
* `SeqFollowsOrder`: live rows are numbered in recording order, which is what the
  tick's ORDER BY and the newer-than guards assume.
* `RevisionOnlyUp`: the revision of a node that stays present only goes up, and its
  content never changes under the same revision.
* `Lifecycle`: `Outbox` implements `RowLifecycle` (`RowLife`, the refinement mapping).
* `EveryRowSettles`: every recorded row is eventually replicated, dead-lettered or
  gone.

Locks:

* `Exclusive`: no two calls are inside one key's section.  `Implements` says more: a body
  runs only while its call owns exactly what it asked for, and a refused call owns nothing
  and never runs.
* `BoundedWait`: all keys of a batch, or all rows of a tick, cost one allowance.
* `RefusedByAnother`: nobody is refused because of himself, for instance by a duplicate id.
* `EveryCallReturns`: without any timer firing, everybody gets through.

Load jobs:

* `CheckpointDurable`, `NothingSkipped`: what a checkpoint and a `complete` promise about rows.
* `NoDoubleRun`: the loop and a resume never process one job at once.
* `CapHolds`, `SlotsReturned`: the counter of slots against the jobs in flight, from both
  sides.  `CapHolds` is about the step that admits a job: once the counters are recovered,
  fewer than `Cap` jobs wait or run at that moment, but for one more per failed upload, whose
  slot the route and the runner may both give back.  It says nothing of jobs already there: a
  boot whose recovery fails counts from zero and admits too many, and they are still there
  after a restart.  `SlotsReturned` names who may account for a slot: jobs that wait or run,
  jobs cancelled before the loop listed them, jobs whose recovery is to come or failed.
* `CancelWins`: a cancelled job never runs or completes again (an upload that breaks off
  may still stamp it `failed`).
* `CheckpointedJobsSettle`: a running job with a checkpoint reaches its end, or this boot
  failed to resume it.

Migration:

* `NoValueLost`: the last value written to a row is in the column the table now has.
* `PhaseTruthful`: what the migrations row tells the operator is true of the table.

### Bounds

Outbox: `MaxRows` (rows of a behaviour), `MaxTransients`, `MaxCrashes`, `MaxAttempts`,
`BatchSize`.  `Faults` names which failures may happen in a run, so that each run spends
its states on one family of races.  Contents are symmetric.  One node is enough for every
property except liveness: rows of different nodes meet only in the batch, the cursor and
the sequence ids.  Three rows hold a write, its rival and a compensating row, and `recreates`
has a fourth for the delete that follows them; a batch of two lets rows wait outside the
snapshot.

Locks: three calls on two keys make every chain have a holder, a waiter and a latecomer;
`MaxWait` 2 lets an allowance be spent in two parts; ids are crossed and repeated.

Load jobs: a body of four rows, the last not parseable, passes a progress flush (2) and a
checkpoint (3) and has rows after it; the other job is empty and competes for the only
slot.  One fault and one crash meet in every order.

Migration: three rows and a batch of two give a full and a partial batch; the values are
NULL, the column default and one more; two kills and two faults allow a failed run, its
rollback and a second failure.  A migration that has ended, or waits for an operator who
has used up the bounds, stops: deadlock is not checked there.

`Converged` is not claimed where the code gives it up.  With `undo` the caller is told that
partial state may remain.  Beside deletes an acknowledged write may be lost, given enough rows:
with updates and deletes alone TLC finds it at six rows without any fault, at four with a
failing replay, a failed flip, an unknown outcome or a crash, at five with a refused fan-out
beside a failing commit, or beside a failing delete and pruning.  The mechanism is always that
of `recreate_lost` (next section): a replay that had passed the guards brings the node back at
its old revision, and two payloads carry the same one.  Such runs check `DeleteFinal`, which
does not depend on it.

### Disagreements between code and documentation

Each of these runs ends in a counterexample to what a document or comment says;
`PROJECT.json` quotes the lines.

| run | what TLC shows |
|---|---|
| `recreate_lost` | With no fault: two queued deletes and two re-creates of one node. A delete's replay removes the re-created node, the next re-create starts at revision 1 again, and of two payloads at revision 1 the older one wins. |
| `sequence_reuse` | A crash between the last `replicated` mark and the cursor write, then a prune: `nextSequenceId` issues an id a second time. Live rows stay in order (`SequenceOrdered`), so this breaks a promise rather than the replay. |
| `resume_lost` | A job that is `running` at a crash and has not reached its first checkpoint is taken for a new one at boot, cannot be claimed, and stays `running` for ever. |
| `early_claim` | With no fault: the runner claims a job while its body is still arriving, stops at the end the file has then, and stamps it complete; the upload is acknowledged all the same. |

Three more behaviours of `Outbox` go with `recreate_lost` and need a failure each.  A
re-create whose flip failed is retracted by the settle sweep once an older delete's replay
has removed the node, so the acknowledged write is gone (`hotLane.ts:73` says that a
failed flip costs latency, not data).  A dead delete row that is requeued after the newer
re-create was replicated and pruned finds nothing to compare with and removes the node.  A
delete that slips in between the supersession guard and the replay of an older upsert is
not noticed until its own row is replayed.

Of the migrations, a command killed in `advance` leaves the row `running`, which `advance`
refuses; `rollback` brings it back to `expand`, from where it can go on.
`docs/architecture/online-migration.md:192` says to re-run `advance`.

### Fairness

Outbox: `FairSpec` assumes weak fairness of each request and of the replicator (the event
loop runs every ready continuation), of timers, of a write in flight (a socket ends)
and of boot (a supervisor restarts the daemon), and strong fairness of `SweepStart`:
the settle sweep has a cadence of one second and is taken at the next turn of the loop
once it is due, although other turns may pass over it.

Locks: weak fairness of every call's next microtask and of abandoned slots.  None of the
timers, so that no call may depend on one.

Load jobs: weak fairness of boot and poll loop, of each run and of a cancel's second half.
None of the uploads, which may never end.

Nowhere is fairness assumed of clients, faults, crashes or operators.

## 4. The proofs

### Outbox

`OutboxProofs` proves, for every set of nodes and contents and every bound, from
`ContentsAssumption` (the absent content is no content) and `BoundsAssumption` (the
bounds are numbers) alone:

| theorem | statement |
|---|---|
| `InvHolds` | the inductive invariant `Inv` |
| `TypeCorrect` | `TypeOK` |
| `DispatchOwned`, `ClaimsNotOrphaned` | `DispatchOwnsRow`, `NoOrphanClaim` |
| `SequenceOrdered` | `SeqFollowsOrder` |
| `LifecycleImplemented` | `Spec => Lifecycle`, the refinement of `RowLifecycle` |
| `RevisionsGoUp` | `RevisionOnlyUp` |

`Inv` is `StoreInv /\ RequestInv /\ TickInv /\ ClaimInv`.  The parts that are not
obvious: sequence ids are bounded by row ids and the cursor by `nextRow` (so the
maximum in `nextSequenceId` exists, and a new row is above all others); the row in
hand is in the tick's snapshot; a row the replicator is about to skip is not
finished, and one self-heal is about to mark is not finished either; a completed row
is `replicated` or pruned, so that boot recovery, which passes over completed rows,
passes over no claimed one.

The argument is by who moves: every step of a request, the clock or the operator is
an `OthersMove` (record, flip, retract what nobody claimed, requeue what is dead),
which cannot touch a claimed row; every step of the replicator marks the one row it
owns (`MarkOf`) or none.  Both are `RowsMove`, and a `RowsMove` is a step of
`RowLifecycle`; so the same case analysis gives the invariant and the refinement.
`RevisionsGoUp` looks at the graph alone: each write raises the revision, deletes the
node or changes nothing.

`OutboxConvergence` proves `UpsertsConverge`: under `UpsertsOnly`, `Spec => []Converged`, for
any number of nodes, contents, rows, crashes and attempts and every other fault: commits that
throw, applied or not, unknown outcomes and late writes, lost flips, refused fan-outs, failing
and transient replays, unreadable graph, requeues and pruning.  `UpsertsOnly` is a condition on
the constants: no deletes, no failing rollback (its compensating row has no revision and is
written over anything), and no creates together with the faults that roll one back, because
that rollback is a delete.  The run `updates` is an instance of it, so the theorem takes that
run to every size; `recreate_lost` shows why deletes are excluded.

The invariant is `CInv`.  Without deletes the revision of a node only goes up, so a row is
harmless once the node has reached its revision.  `Fits` says which rows may still do
something: no row is more than one revision ahead of its node, and one that is ahead carries a
content that is allowed to win (acknowledged, or left open) or is the row of the request under
way, which has not committed or is about to roll back (`Mine`).  Between a commit and its
acknowledgement nothing is ahead (`Landed`), which is why the acknowledged content stays.  The
same holds of the tick's snapshot, which may be out of date: `RowOK` is kept by every step for
any row that once satisfied it.  A write in flight is never newer than the node and never lands
over a write that is about to be acknowledged (`HungOK`); what a compensating row re-asserts is
what the graph already holds (`RequestOK`).

The proof looks at one node at a time.  `Kept(k)` is what a step must preserve for node `k`,
`ElsewhereKept` gives it for every node the step does not touch, `Overtaken` whenever the
revision goes up, and there is one lemma for each remaining action.  No statement on the table
changes what a row says (`SameRows`), so the replicator's bookkeeping, the sweeps, the operator
and boot need one argument (`IdleKeeps`).

`OutboxDeletes` proves `DeletesFinal`: under `ReplaysSucceed`, `Spec => []DeleteFinal`, for any
number of nodes, contents, rows, crashes and batch sizes, with creates, updates and deletes and
every fault of the requests: commits that throw, applied or not, unknown outcomes and late
writes, lost flips, refused fan-outs, failing rollbacks and deletes, busy locks, an unreadable
graph and pruning.  The run `recreates` is an instance of it.  `ReplaysSucceed` is a condition on
the constants: no `replay`, `transient` or `requeue` among the faults.  It is needed: TLC finds
both of these at `MaxRows` 3.  A delete row that failed once waits for its backoff, the row of
a refused write overtakes it and is replicated, and the guards then take the delete for
superseded; its node stays.  And a superseded upsert that an operator requeues after its
delete's row was pruned finds nothing that is newer.  Where replays may fail, `deletes` checks
the property for updates and deletes with three rows.

With deletes a node's revision starts again, so the argument is about the order of the rows
instead.  It has two layers.

* `OrderInv`: no row is claimed before the older deletes of its node are done
  (`ClaimedInOrder`).  The tick's snapshot is a prefix of the eligible rows by sequence id, so a
  delete that is not done is in it before the younger rows of its node; when the replicator
  puts a delete off, the node is deferred for the tick and its younger rows wait too
  (`SnapshotInOrder`).  `Turn` is what every step does to the table: a row becomes `replicated`
  only at its mark, a delete never leaves but by a prune, and a prune leaves no unfinished row
  of its node behind it.
* `GoneInv`: for a node whose delete was acknowledged, every upsert that is not finished is
  harmless or followed by a delete (`RowsGone`); the row in hand, which has passed the guards,
  may miss a younger delete, but then that delete is still `pending` (`HandGone`); and
  whatever the node holds is allowed, belongs to the request under way, or will be taken away
  by a delete that is not replayed yet (`NodeGone`, `Coming`).  Harmless means allowed to win,
  the request's own, or behind the revision of the graph with no delete to come that could
  take that revision back (`Behind`).  The request's row is the youngest of its node
  (`OwnRow`), which is why the compensating row that takes back a create can be a delete.

`ElsewhereGone` settles every node that a step does not touch, `TouchedGone` what is left for the
one it does; there is one lemma for each action of a request and for the replay of a delete and of
an upsert.  When the outbox is done with a node, no delete is to come and no request is under
way, and of `NodeGone` only the allowed contents are left.

### Locks

`NodeLocksProofs` proves `LocksTypeCorrect`, `MutualExclusion`, `WaitsBounded`,
`RefusalsHaveCause` (`RefusedByAnother`) and the refinement `LocksImplementService` from
`LocksAssumption`, for any calls, keys, id lists and allowance.  The inductive invariant adds
five parts to the types: a held key has its holder at the head of its chain (`HeldAtHead`); an abandoned slot is still queued, and its caller has
no allowance left to queue there again (`GaveUpQueued`); a waiting call has a live slot on a
key it needs and does not hold (`WaitingQueued`); a call holds nothing beyond what its body
needs, and nothing once it has ended (`HeldNeeded`); time waited and allowance left add up to
`MaxWait` (`Charged`).  Mutual exclusion is then that a chain has one head, and
the refinement maps the owner of a key to the head that holds it.

`RefusalsHaveCause` needs an invariant of its own, `RInv`: whoever is in a chain, or was there
last, was made and asked for that key (`ChainUsers`); and a call that shares no key with
another finds every chain it asks for empty, but for its own op, and every entry deleted, but
for the one whose finally block is due (`Alone`).  Such a call never has a reason to time out,
and its duplicate ids never meet its own entry.

### Load jobs

`LoadJobsProofs` proves `LoadsTypeCorrect`, `CheckpointsDurable`, `CompleteSkipsNothing`,
`OneRunPerJob` and `CancelIsFinal` from `LoadAssumption` (jobs are finitely many, bodies are
sequences, intervals and cap positive), for any number of jobs, rows, crashes and faults.
Neither durability property is inductive.  The invariant adds, for each run, that every row it
has passed is written, reported, buffered or pending in its list of errors (`CoverOK`), that
what is written is queued or will be (`BufferOK`), that it starts at the checkpoint it was given
(`StartOK`) and ends at the end of the file (`EndOK`); that a job which was never accepted has no
row (`Fresh`); that nothing runs before the recovery (`Cold`); and that the loop and a resume
never both have a job (`OneOwner`): a resume that goes on has a checkpoint, and a job with a
checkpoint is not `received` again.  The argument is by who moves: a step of a run keeps its own
part (`OwnRun`) and, by `OneOwner`, the parts of all others (`OtherRuns`); routes, loop and crash
touch no row.

`LoadSlotsProofs` proves `SlotsComeBack` (`SlotsReturned`) and `CapRespected` (`CapHolds`) from
the same assumption.  The counter is bounded from both sides: by the jobs that account for a
slot (`SlotsReturned`) and from below by the jobs that hold one, less one per failed upload
(`Covered`).  Both are sizes of sets, so every step is counted: which job enters the set, which
leaves it, and whether the counter moves (`JobCounts`).  That works only because a job is in one
hand at a time: listed or run by the loop, or resumed (`OneHand`), and because a boot that has
not recovered remembers nothing (`Blank`).

### Migration

`MigrationProofs` proves `MigrationTypeCorrect`, `ValuesKept` and `RowTruthful` from
`MigrationAssumption`, for any table, values, batch size and bounds.  The invariant adds which
command may be under way in which status and phase (`RunShape`) and which columns are there
meanwhile (`ColumnShape`); the one fact about data is that the catch-up copy leaves the columns
equal (`CopyLemma`).

### Model-checked only

`DeleteFinal` where replays may fail (run `deletes`): a failed delete row is overtaken by younger
rows of its node, so the order of the rows no longer carries the argument, and together with
refused writes the property does not hold.  `AckedWriteSurvives` beside deletes is not a theorem
either: it does not hold (`recreate_lost`).  Everything under fairness (`EveryRowSettles`,
`EveryCallReturns`, `CheckpointedJobsSettle`), which the prover does not handle.  And the counterexamples.

## 5. Not modelled

Of the outbox: a retraction or a mark that throws; the dead-at-once disposition of invalid
and unwired rows (node rows of these kinds are neither); the embedded host's replay guard;
`ifAbsent` creates and write-time `supersedes`; the verbatim, edge and embed families;
`tickOnce` and the drain CLI, which also heals dead rows; several daemons on one database.

Of the locks: what a hold does to the requests made inside it; the `WriteQueue`.

Of the load jobs: a row that goes to two substrates; the early flush of a full buffer; the
limits of 100 resumed jobs and 1000 reported errors; the orderly stop, which a crash covers;
inline and skipped embedding; a terminal stamp that throws; `rows_processed`, which counts this
run only.

Of the migrations: the explicit sub-phase kinds, which are one verb each; the Lance adapter; the
dual-write index, which the daemon does not hand to the bulk loader; two commands at once, a new
column that was there before, and the rollback of an earlier migration's id, in each of which the
code can drop a column that holds data (listed as hazards).

The components with status `not_modelled` in `PROJECT.json` say why.  Most of the repository is
request handling, storage adapters, text processing and configuration: it has no state that
several actors share beyond what the modelled parts own.

## 6. Plan

Done: the outbox for nodes, the locks, load jobs, migrations, with the invariants of each proved.
What would come next, in this order:

1. The verbatim family: `verbatim.upsert`, tombstone and purge rows, consolidation of a
   batch into one embed call, the half-completion reaper; `Converged` for both stores.
2. `tickOnce` and the drain CLI beside the loop (two drivers, one claim protocol);
   `ifAbsent` creates and the embedded replay guard as alternatives to the gate.
3. Legacy multi-step entries and their recovery (`withOutbox`, `recoverOutbox`).
4. Smaller state machines, a module each: verbatim promotion and its gate, schema
   approvals, workspace erase, recallable waiter, lag cache, multi-master sync.
5. Proofs: `DeleteFinal` for updates and deletes with failing replays, which needs an order on
   rows that backoff lets overtake each other.
