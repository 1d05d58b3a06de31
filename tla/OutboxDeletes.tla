---------------------------- MODULE OutboxDeletes ----------------------------
(***************************************************************************)
(* An acknowledged delete is final as long as no replay fails: for any     *)
(* number of nodes, contents, rows and crashes, with refused, unknown and  *)
(* late writes, lost flips and pruning.                                    *)
(*                                                                         *)
(* Two layers.  The replicator comes to the rows of a node in such an      *)
(* order that no row is claimed before an older delete is done (OrderInv). *)
(* A row that could bring a deleted node back is therefore followed by a   *)
(* delete that the guards see, or that is still to be replayed (GoneInv).  *)
(***************************************************************************)
EXTENDS OutboxConvergence, FiniteSetTheorems

\* No replay fails and no dead row is brought back, so that every delete row is
\* replayed in its turn.
ReplaysSucceed == Faults \cap {"replay", "transient", "requeue"} = {}

-----------------------------------------------------------------------------
(* The order of the replays. *)

Deletes(k) == {d \in DOMAIN rows : rows[d].kind = "delete" /\ rows[d].key = k}

\* Every delete of row i's node that was recorded before i is done.
Clear(i) == \A d \in Deletes(rows[i].key) : d < i => rows[d].status = "replicated"

\* A row waits for its turn or has had it; deletes are ready at once and always
\* applied.
RowsSimple ==
    \A i \in DOMAIN rows :
        /\ rows[i].status # "failed" /\ rows[i].due
        /\ IF rows[i].kind = "delete"
           THEN rows[i].status \in {"pending", "replicating", "replicated"}
           ELSE rows[i].content # NoContent

\* What the tick read of a row is what the row says.
SnapshotSays ==
    \A i \in DOMAIN batch :
        /\ batch[i].status # "failed"
        /\ i \in DOMAIN rows => Says(batch[i], rows[i]) /\ batch[i].seq = rows[i].seq

\* A delete the tick has not come to is still in the snapshot, before the younger
\* rows of its node, or the node is put off for this tick.
SnapshotInOrder ==
    \A i \in DOMAIN batch \cap DOMAIN rows : \A d \in Deletes(rows[i].key) :
        d < i /\ rows[d].status # "replicated" =>
            d \in DOMAIN batch \/ rows[i].key \in deferred

\* A row that has been claimed, or is about to be, has no unfinished delete before it.
ClaimedInOrder ==
    /\ \A i \in DOMAIN rows : rows[i].status \notin {"pending", "pending_commit"} => Clear(i)
    /\ pc \in {"claim", "skip"} /\ cur \in DOMAIN rows => Clear(cur)

\* The rows the settle sweep has in hand.
Swept == IF pc = "act" THEN todo \cup {cur} ELSE todo

\* Where the replicator may be, and that the settle sweep looks at upserts only.
LoopSimple ==
    /\ pc \notin {"settle", "late", "probe", "healmark"}
    /\ pc = "skip" => batch[cur].kind = "upsert"
    /\ pc = "defer" => batch[cur].key \in deferred
    /\ pc \in {"read", "act"} => \A i \in Swept :
          i < nextRow /\ (i \in DOMAIN rows => rows[i].kind = "upsert")

\* The request on k is not done with row i.
Owns(k, i) ==
    /\ req[k].row = i
    /\ req[k].phase \in {"commit", "flip", "fanout", "undo", "retract", "compensate"}

\* A request takes back upserts only.
OwnUpserts ==
    \A k \in Keys : /\ req[k].row < nextRow
                    /\ \A i \in DOMAIN rows : Owns(k, i) => rows[i].kind = "upsert"

OrderInv ==
    /\ Inv /\ RowsSimple /\ SnapshotSays /\ SnapshotInOrder /\ ClaimedInOrder /\ LoopSimple
    /\ OwnUpserts

-----------------------------------------------------------------------------
(* What one step does to the table. *)

Turn ==
    /\ RowsSimple' /\ nextRow' \in Nat /\ nextRow <= nextRow'
    /\ \A i \in DOMAIN rows \cap DOMAIN rows' :
        /\ Says(rows'[i], rows[i]) /\ rows'[i].seq = rows[i].seq
        /\ ~Unfinished(rows[i]) => rows'[i].status = rows[i].status
        /\ rows'[i].status = "replicated" => rows[i].status = "replicated" \/ (pc = "mark" /\ cur = i)
        /\ rows[i].status \in {"pending", "pending_commit"} =>
              rows'[i].status \in {"pending", "pending_commit"} \/ (cur = i /\ pc \in {"claim", "skip"})
        /\ rows[i].kind = "delete" => rows'[i].status = rows[i].status \/ cur = i \/ pc = "down"
    /\ \A i \in DOMAIN rows' \ DOMAIN rows :
        /\ i \in Nat /\ nextRow <= i /\ i < nextRow'
        /\ rows'[i].status \in {"pending", "pending_commit"}
    /\ \A i \in DOMAIN rows \ DOMAIN rows' :
        \/ rows[i].kind = "upsert"
        \/ /\ rows[i].status = "replicated"
           /\ \A j \in DOMAIN rows : rows[j].key = rows[i].key /\ Unfinished(rows[j]) => i < j

\* A table that stays.
LEMMA SameTurn ==
    ASSUME OrderInv, UNCHANGED <<rows, nextRow>>
    PROVE  Turn
<1>1. nextRow \in Nat
  BY DEF OrderInv, Inv, StoreInv
<1> QED
  BY <1>1 DEF OrderInv, RowsSimple, Turn, Says

\* markEntryStatus on the row in hand.
LEMMA MarkTurn ==
    ASSUME OrderInv, NEW st, NEW why, rows' = MarkEntryStatus(rows, cur, st, 0, why),
           UNCHANGED nextRow,
           cur \in DOMAIN rows =>
              /\ Unfinished(rows[cur])
              /\ \/ st = "pending" /\ rows[cur].status = "replicating"
                 \/ st = "replicated" /\ pc = "mark" /\ rows[cur].status = "replicating"
                 \/ st = "dead" /\ pc = "skip" /\ rows[cur].kind = "upsert"
    PROVE  Turn
<1>t. IsTable(rows) /\ nextRow \in Nat
  BY DEF OrderInv, Inv, StoreInv
<1>1. CASE cur \notin DOMAIN rows
  <2>1. rows' = rows
    BY <1>1 DEF MarkEntryStatus
  <2> QED
    BY <2>1, SameTurn
<1>2. CASE cur \in DOMAIN rows
  <2> DEFINE r == Marked(rows[cur], st, 0, why)
  <2>1. /\ Says(r, rows[cur]) /\ r.seq = rows[cur].seq /\ r.status = st /\ st # "failed"
    BY <1>t, <1>2 DEF IsTable, Row, Marked, Says
  <2>d. r.due
    BY <1>t, <1>2, <2>1 DEF IsTable, Row, Marked
  <2>2. rows' = [rows EXCEPT ![cur] = r]
    BY <1>2 DEF MarkEntryStatus
  <2> HIDE DEF r
  <2>3. DOMAIN rows' = DOMAIN rows /\ rows'[cur] = r /\ \A j \in DOMAIN rows : j # cur => rows'[j] = rows[j]
    BY <1>2, <2>2
  <2>4. RowsSimple'
    BY <1>2, <2>1, <2>d, <2>3 DEF OrderInv, RowsSimple, Says
  <2> QED
    BY <1>t, <1>2, <2>1, <2>3, <2>4 DEF Turn, Says, Unfinished
<1> QED
  BY <1>1, <1>2

\* A new row is the youngest of the table, and says what its writer gave it.
Recorded(spec) ==
    /\ nextRow \in Nat /\ nextRow \notin DOMAIN rows /\ nextRow' = nextRow + 1
    /\ DOMAIN rows' = DOMAIN rows \cup {nextRow}
    /\ \A j \in DOMAIN rows : rows'[j] = rows[j] /\ j < nextRow
    /\ Says(rows'[nextRow], spec) /\ rows'[nextRow].status = spec.status

\* record() adds the youngest row and leaves the others alone.
LEMMA RecordTurn ==
    ASSUME OrderInv, NEW spec \in RowSpec, RecordRow(spec),
           IF spec.kind = "delete" THEN spec.status = "pending" ELSE spec.content # NoContent
    PROVE  Turn /\ Recorded(spec)
<1>1. /\ nextRow \in Nat /\ nextRow' = nextRow + 1 /\ nextRow \notin DOMAIN rows
      /\ DOMAIN rows' = DOMAIN rows \cup {nextRow}
      /\ \A j \in DOMAIN rows : rows'[j] = rows[j]
      /\ rows'[nextRow].status = spec.status
      /\ \A j \in DOMAIN rows : j < nextRow
  <2>1. StoreInv /\ nextRow \in Nat /\ \A j \in DOMAIN rows : j < nextRow
    BY DEF OrderInv, Inv, StoreInv
  <2> QED
    BY <2>1, RecordKeepsStore
<1>2. Says(rows'[nextRow], spec)
  BY DEF RecordRow, Record, NewRow, Says
<1>3. rows'[nextRow].due
  BY DEF RecordRow, Record, NewRow
<1>4. spec.kind \in {"upsert", "delete"} /\ spec.status \in {"pending", "pending_commit"}
  BY DEF RowSpec, Kinds
<1>5. RowsSimple'
  BY <1>1, <1>2, <1>3, <1>4 DEF OrderInv, RowsSimple, Says
<1>6. Turn
  BY <1>1, <1>4, <1>5 DEF Turn, Says
<1> QED
  BY <1>1, <1>2, <1>6 DEF Recorded

\* Taking back an upsert that nobody claimed.
LEMMA RemoveTurn ==
    ASSUME OrderInv, NEW i, rows' = RemoveIfPending(rows, i), UNCHANGED nextRow,
           i \in DOMAIN rows => rows[i].kind = "upsert"
    PROVE  Turn
<1>t. IsTable(rows) /\ nextRow \in Nat
  BY DEF OrderInv, Inv, StoreInv
<1>1. /\ DOMAIN rows' \subseteq DOMAIN rows /\ \A j \in DOMAIN rows' : rows'[j] = rows[j]
      /\ \A j \in DOMAIN rows \ DOMAIN rows' : j = i
  BY <1>t, RemoveIfPendingShrinks
<1>2. RowsSimple'
  BY <1>1 DEF OrderInv, RowsSimple
<1> QED
  BY <1>t, <1>1, <1>2 DEF Turn, Says

\* The flip of an upsert that waits for its commit.
LEMMA FlipTurn ==
    ASSUME OrderInv, NEW i, rows' = MarkCommitted(rows, i), UNCHANGED nextRow
    PROVE  Turn
<1>t. IsTable(rows) /\ nextRow \in Nat
  BY DEF OrderInv, Inv, StoreInv
<1>1. CASE rows' = rows
  BY <1>1, SameTurn
<1>2. CASE i \in DOMAIN rows /\ rows[i].status = "pending_commit"
  <2> DEFINE r == [rows[i] EXCEPT !.status = "pending"]
  <2>1. Says(r, rows[i]) /\ r.seq = rows[i].seq /\ r.status = "pending" /\ r.due = rows[i].due
    BY <1>t, <1>2 DEF IsTable, Row, Says
  <2>2. rows' = [rows EXCEPT ![i] = r]
    BY <1>2 DEF MarkCommitted
  <2> HIDE DEF r
  <2>3. DOMAIN rows' = DOMAIN rows /\ rows'[i] = r /\ \A j \in DOMAIN rows : j # i => rows'[j] = rows[j]
    BY <1>2, <2>2
  <2>4. rows[i].kind # "delete" /\ rows[i].due /\ rows[i].content # NoContent
    BY <1>2 DEF OrderInv, RowsSimple
  <2>d. rows'[i].due
    BY <2>1, <2>3, <2>4
  <2>5. RowsSimple'
    BY <1>2, <2>1, <2>3, <2>4, <2>d DEF OrderInv, RowsSimple, Says
  <2> QED
    BY <1>t, <1>2, <2>1, <2>3, <2>4, <2>5 DEF Turn, Says, Unfinished
<1> QED
  BY <1>1, <1>2 DEF MarkCommitted

\* The claim of the row in hand.
LEMMA ClaimTurn ==
    ASSUME OrderInv, Claim
    PROVE  Turn
<1>t. IsTable(rows) /\ nextRow \in Nat /\ pc = "claim" /\ UNCHANGED nextRow
  BY DEF OrderInv, Inv, StoreInv, Claim
<1>1. CASE cur \notin Eligible(rows)
  <2>1. rows' = rows
    BY <1>1 DEF Claim, ClaimForReplication
  <2> QED
    BY <1>t, <2>1, SameTurn
<1>2. CASE cur \in Eligible(rows)
  <2> DEFINE r == [rows[cur] EXCEPT !.status = "replicating"]
  <2>e. cur \in DOMAIN rows /\ rows[cur].status \in {"pending", "failed"}
    BY <1>2 DEF Eligible
  <2>1. Says(r, rows[cur]) /\ r.seq = rows[cur].seq /\ r.status = "replicating" /\ r.due = rows[cur].due
    BY <1>t, <2>e DEF IsTable, Row, Says
  <2>2. rows' = [rows EXCEPT ![cur] = r]
    BY <1>2 DEF Claim, ClaimForReplication
  <2> HIDE DEF r
  <2>3. DOMAIN rows' = DOMAIN rows /\ rows'[cur] = r /\ \A j \in DOMAIN rows : j # cur => rows'[j] = rows[j]
    BY <2>e, <2>2
  <2>4. rows[cur].due /\ (rows[cur].kind # "delete" => rows[cur].content # NoContent)
    BY <2>e DEF OrderInv, RowsSimple
  <2>5. RowsSimple'
    BY <2>e, <2>1, <2>3, <2>4 DEF OrderInv, RowsSimple, Says
  <2> QED
    BY <1>t, <2>e, <2>1, <2>3, <2>5 DEF Turn, Says, Unfinished
<1> QED
  BY <1>1, <1>2

\* A pruned row is older than every unfinished row of its node.
LEMMA PruneTurn ==
    ASSUME OrderInv, Prune
    PROVE  Turn
<1>t. IsTable(rows) /\ nextRow \in Nat /\ UNCHANGED nextRow /\ SeqFollowsOrder
  BY DEF OrderInv, Inv, StoreInv, Prune
<1>1. PICK S \in SUBSET WithStatus(rows, "replicated") :
         (\A i \in S : PastRetention(i)) /\ rows' = Remove(rows, S)
  BY DEF Prune
<1>2. DOMAIN rows' = DOMAIN rows \ S /\ \A j \in DOMAIN rows' : rows'[j] = rows[j]
  BY <1>1 DEF Remove
<1>3. ASSUME NEW i \in S, NEW j \in DOMAIN rows, rows[j].key = rows[i].key, Unfinished(rows[j])
      PROVE  i < j
  <2>1. i \in DOMAIN rows /\ rows[i].status = "replicated" /\ i \in Nat /\ j \in Nat
    BY <1>t DEF WithStatus, IsTable
  <2>2. rows[i].seq < rows[j].seq /\ rows[i].seq \in Nat /\ rows[j].seq \in Nat
    BY <1>t, <1>1, <1>3, <2>1 DEF PastRetention, IsTable, Row
  <2>3. i # j /\ ~(j < i)
    BY <1>t, <2>1, <2>2 DEF SeqFollowsOrder
  <2> QED
    BY <2>1, <2>3
<1>4. RowsSimple'
  BY <1>2 DEF OrderInv, RowsSimple
<1>5. \A i \in S : i \in DOMAIN rows /\ rows[i].status = "replicated"
  BY DEF WithStatus
<1> QED
  BY <1>t, <1>2, <1>3, <1>4, <1>5 DEF Turn, Says

\* Boot recovery brings a claimed row back to where it was.
LEMMA RecoverTurn ==
    ASSUME OrderInv, Recover
    PROVE  Turn
<1>t. IsTable(rows) /\ nextRow \in Nat /\ UNCHANGED nextRow /\ pc = "down"
  BY DEF OrderInv, Inv, StoreInv, Recover
<1>1. /\ DOMAIN rows' = DOMAIN rows
      /\ \A j \in DOMAIN rows :
            IF ~rows[j].completed /\ rows[j].status = "replicating"
            THEN rows'[j] = [rows[j] EXCEPT !.status = "pending", !.due = TRUE]
            ELSE rows'[j] = rows[j]
  BY DEF Recover, RequeueReplicating
<1>2. ASSUME NEW j \in DOMAIN rows, rows'[j] # rows[j]
      PROVE  /\ Says(rows'[j], rows[j]) /\ rows'[j].seq = rows[j].seq
             /\ rows'[j].status = "pending" /\ rows'[j].due /\ rows[j].status = "replicating"
  BY <1>t, <1>1, <1>2 DEF IsTable, Row, Says
<1>3. ASSUME NEW j \in DOMAIN rows'
      PROVE  /\ rows'[j].status # "failed" /\ rows'[j].due
             /\ IF rows'[j].kind = "delete"
                THEN rows'[j].status \in {"pending", "replicating", "replicated"}
                ELSE rows'[j].content # NoContent
  <2>1. CASE rows'[j] = rows[j]
    BY <1>1, <2>1 DEF OrderInv, RowsSimple
  <2>2. CASE rows'[j] # rows[j]
    BY <1>1, <1>2, <2>2 DEF OrderInv, RowsSimple, Says
  <2> QED
    BY <2>1, <2>2
<1>4. RowsSimple'
  BY <1>3 DEF RowsSimple
<1>5. \A j \in DOMAIN rows :
         /\ Says(rows'[j], rows[j]) /\ rows'[j].seq = rows[j].seq
         /\ \/ rows'[j].status = rows[j].status
            \/ rows'[j].status = "pending" /\ rows[j].status = "replicating"
  BY <1>2 DEF Says
<1>6. DOMAIN rows' = DOMAIN rows
  BY <1>1
<1> QED
  BY <1>t, <1>4, <1>5, <1>6 DEF Turn, Unfinished

\* The rows that requests record.
LEMMA BeginRecords ==
    ASSUME OrderInv, NEW k \in Keys, NEW c \in Contents,
           UpsertRecord(k, c) \/ (Reread(k) /\ c = req[k].content)
    PROVE  Turn /\ Recorded(UpsertSpec(k, graph[k].rev + 1, c, "pending_commit"))
<1> DEFINE spec == UpsertSpec(k, graph[k].rev + 1, c, "pending_commit")
<1>1. graph[k].rev \in Nat /\ c # NoContent
  BY NodeTyped, ContentsAssumption DEF OrderInv
<1>2. spec \in RowSpec
  BY <1>1 DEF UpsertSpec, RowSpec, Kinds
<1>3. RecordRow(spec)
  BY DEF UpsertRecord, Reread
<1>4. spec.kind = "upsert" /\ spec.content # NoContent
  BY <1>1 DEF UpsertSpec
<1> HIDE DEF spec
<1>5. Turn /\ Recorded(spec)
  BY <1>2, <1>3, <1>4, RecordTurn
<1> QED
  BY <1>5 DEF spec

\* deleteNodeEverywhere records its row.
LEMMA DeleteRecords ==
    ASSUME OrderInv, NEW k \in Keys, DeleteRecord(k)
    PROVE  Turn /\ Recorded(DeleteSpec(k))
<1>1. DeleteSpec(k) \in RowSpec /\ DeleteSpec(k).kind = "delete" /\ DeleteSpec(k).status = "pending"
  BY DEF DeleteSpec, RowSpec, Kinds
<1>2. RecordRow(DeleteSpec(k))
  BY DEF DeleteRecord
<1> QED
  BY <1>1, <1>2, RecordTurn

\* What a compensating row puts back.
Back(k) == IF req[k].conflict THEN graph[k] ELSE req[k].back

\* A claimed row of a refused write is followed by what it should have left.
LEMMA CompensateRecords ==
    ASSUME OrderInv, NEW k \in Keys, Compensate(k)
    PROVE  /\ Turn
           /\ Recorded(IF Back(k).content # NoContent
                       THEN UpsertSpec(k, Back(k).rev, Back(k).content, "pending")
                       ELSE DeleteSpec(k))
<1> DEFINE b == Back(k)
           spec == IF b.content # NoContent THEN UpsertSpec(k, b.rev, b.content, "pending")
                                            ELSE DeleteSpec(k)
<1>1. b.rev \in Nat /\ b.content \in Contents \cup {NoContent}
  BY DEF Back, OrderInv, Inv, RequestInv, Request, N!Node
<1>2. RecordRow(spec)
  BY DEF Compensate, Back, N!IsPresent
<1> HIDE DEF b
<1>3. /\ spec \in RowSpec
      /\ IF spec.kind = "delete" THEN spec.status = "pending" ELSE spec.content # NoContent
  BY <1>1 DEF UpsertSpec, DeleteSpec, RowSpec, Kinds
<1> HIDE DEF spec
<1>4. Turn /\ Recorded(spec)
  BY <1>2, <1>3, RecordTurn
<1> QED
  BY <1>4 DEF spec, b

\* Every step of a request.
LEMMA RequestTurn ==
    ASSUME OrderInv, NEW k \in Keys, Client(k) \/ RequestStep(k)
    PROVE  Turn
<1>t. nextRow \in Nat /\ req[k].phase \notin {"idle", "delete"} => req[k].content \in Contents
  BY NodeTyped DEF OrderInv, Inv, StoreInv
<1>1. ASSUME NEW c \in Contents, UpsertRecord(k, c) PROVE Turn
  BY <1>1, BeginRecords
<1>2. CASE DeleteRecord(k)
  BY <1>2, DeleteRecords
<1>3. CASE Compensate(k)
  BY <1>3, CompensateRecords
<1>4. CASE Reread(k)
  <2>1. req[k].content \in Contents
    BY <1>4, NodeTyped DEF Reread, OrderInv
  <2> QED
    BY <1>4, <2>1, BeginRecords
<1>5. ASSUME NEW ok \in BOOLEAN, UpsertFlip(k, ok) PROVE Turn
  <2>1. UNCHANGED nextRow /\ (rows' = rows \/ rows' = MarkCommitted(rows, req[k].row))
    BY <1>5 DEF UpsertFlip
  <2> QED
    BY <2>1, SameTurn, FlipTurn
<1>6. CASE Retract(k)
  <2>1. UNCHANGED nextRow /\ rows' = RemoveIfPending(rows, req[k].row)
    BY <1>6 DEF Retract
  <2>2. req[k].row \in DOMAIN rows => rows[req[k].row].kind = "upsert"
    BY <1>6 DEF Retract, OrderInv, OwnUpserts, Owns
  <2> QED
    BY <2>1, <2>2, RemoveTurn
<1>7. CASE \/ UpsertCommit(k) \/ UpsertConflict(k) \/ UpsertUnknown(k)
           \/ (\E b \in BOOLEAN : UpsertThrows(k, b)) \/ FanoutDone(k) \/ FanoutFails(k)
           \/ Undo(k) \/ UndoFails(k) \/ GiveUp(k) \/ DeleteApply(k) \/ DeleteThrows(k)
  <2>1. UNCHANGED <<rows, nextRow>>
    BY <1>7 DEF UpsertCommit, UpsertConflict, UpsertUnknown, UpsertThrows, FanoutDone,
                FanoutFails, Undo, UndoFails, GiveUp, DeleteApply, DeleteThrows, storeVars
  <2> QED
    BY <2>1, SameTurn
<1> QED
  BY <1>1, <1>2, <1>3, <1>4, <1>5, <1>6, <1>7 DEF Client, RequestStep

\* The actions that are out of the way when replays succeed.
LEMMA NoFailures ==
    ASSUME ReplaysSucceed, OrderInv
    PROVE  /\ ~SettleCounted /\ ~HealStart /\ ~HealMark /\ ~HealEnd
           /\ \A i \in todo : ~HealProbe(i)
           /\ \A ceiling, halt \in BOOLEAN : ~SettleTransient(ceiling, halt)
           /\ \A i \in DOMAIN rows : ~BackoffElapses(i) /\ ~OperatorRequeues(i)
           /\ \A ok, applied \in BOOLEAN : Dispatch(ok, applied) => ok /\ applied
<1>1. \A i \in DOMAIN rows : rows[i].status # "failed" /\ rows[i].due
  BY DEF OrderInv, RowsSimple
<1>2. ~HealStart
  BY <1>1 DEF HealStart, WithStatus
<1>3. \A ok, applied \in BOOLEAN : Dispatch(ok, applied) => ok /\ applied
  BY DEF ReplaysSucceed, Dispatch
<1> QED
  BY <1>1, <1>2, <1>3
  DEF ReplaysSucceed, OrderInv, LoopSimple, SettleCounted, HealMark, HealEnd, HealProbe,
      SettleTransient, BackoffElapses, OperatorRequeues

\* Every step.
LEMMA StepTurn ==
    ASSUME ReplaysSucceed, OrderInv, [Next]_vars
    PROVE  Turn
<1>s. /\ pc \in Replaying => cur \in DOMAIN rows /\ rows[cur].status = "replicating"
      /\ pc \in {"claim", "skip"} \cup Replaying => cur \in DOMAIN batch
      /\ pc = "skip" /\ cur \in DOMAIN rows => rows[cur].status \in Open
  BY DEF OrderInv, Inv, TickInv, ClaimInv, DispatchOwnsRow, SnapshotOpen, Replaying
<1>1. ASSUME NEW k \in Keys, Client(k) \/ RequestStep(k) PROVE Turn
  BY <1>1, RequestTurn
<1>2. CASE SkipSuperseded
  <2>1. /\ pc = "skip" /\ UNCHANGED nextRow
        /\ rows' = MarkEntryStatus(rows, cur, "dead", 0, "superseded")
    BY <1>2 DEF SkipSuperseded
  <2>2. cur \in DOMAIN rows => Unfinished(rows[cur]) /\ rows[cur].kind = "upsert"
    BY <1>s, <2>1 DEF OrderInv, LoopSimple, SnapshotSays, Says, Open, Unfinished
  <2> QED
    BY <2>1, <2>2, MarkTurn
<1>3. CASE ReleaseDeferred
  <2>1. /\ UNCHANGED nextRow /\ rows' = MarkEntryStatus(rows, cur, "pending", 0, "none")
        /\ cur \in DOMAIN rows => Unfinished(rows[cur]) /\ rows[cur].status = "replicating"
    BY <1>3, <1>s DEF ReleaseDeferred, Unfinished, Replaying
  <2> QED
    BY <2>1, MarkTurn
<1>4. CASE MarkReplicated
  <2>1. /\ UNCHANGED nextRow /\ rows' = MarkEntryStatus(rows, cur, "replicated", 0, "none")
        /\ pc = "mark"
        /\ cur \in DOMAIN rows => Unfinished(rows[cur]) /\ rows[cur].status = "replicating"
    BY <1>4, <1>s DEF MarkReplicated, Unfinished, Replaying
  <2> QED
    BY <2>1, MarkTurn
<1>5. CASE SweepAct
  <2>1. /\ UNCHANGED nextRow
        /\ \/ rows' = rows \/ rows' = MarkCommitted(rows, cur)
           \/ rows' = RemoveIfPending(rows, cur)
        /\ cur \in DOMAIN rows => rows[cur].kind = "upsert"
    BY <1>5 DEF SweepAct, OrderInv, LoopSimple, Swept
  <2> QED
    BY <2>1, SameTurn, FlipTurn, RemoveTurn
<1>6. CASE \/ TickStart \/ (\E i \in DOMAIN batch : TickNext(i)) \/ TickEnd
           \/ (\E ok, applied \in BOOLEAN : Dispatch(ok, applied)) \/ DispatchTimesOut
           \/ SweepStart \/ (\E i \in todo : SweepRead(i)) \/ SweepUnreadable \/ SweepEnd
           \/ Crash \/ LateWrite \/ UNCHANGED vars
  <2>1. UNCHANGED <<rows, nextRow>>
    BY <1>6 DEF TickStart, TickNext, TickEnd, Dispatch, DispatchTimesOut, SweepStart, SweepRead,
                SweepUnreadable, SweepEnd, Crash, LateWrite, HungLands, HungLost, vars, storeVars
  <2> QED
    BY <2>1, SameTurn
<1> QED
  BY <1>1, <1>2, <1>3, <1>4, <1>5, <1>6, NoFailures, ClaimTurn, PruneTurn, RecoverTurn
  DEF Next, ReplicatorStep

-----------------------------------------------------------------------------
(* OrderInv is inductive. *)

\* The tick's snapshot goes on saying what the rows say.
LEMMA SnapshotStillSays ==
    ASSUME OrderInv, Turn, SnapshotKept
    PROVE  SnapshotSays'
<1>1. \A i \in DOMAIN batch : i < nextRow /\ i \in Nat
  BY DEF OrderInv, Inv, TickInv, IsTable
<1>2. \A i \in DOMAIN rows : rows[i].status # "failed"
  BY DEF OrderInv, RowsSimple
<1>3. nextRow \in Nat
  BY DEF OrderInv, Inv, StoreInv
<1>4. ASSUME NEW i \in DOMAIN batch', i \in DOMAIN rows'
      PROVE  Says(batch'[i], rows'[i]) /\ batch'[i].seq = rows'[i].seq
  <2>1. i \in DOMAIN rows
    BY <1>1, <1>3, <1>4 DEF SnapshotKept, Turn
  <2> QED
    BY <1>4, <2>1 DEF SnapshotKept, Turn, OrderInv, SnapshotSays, Says
<1> QED
  BY <1>2, <1>4 DEF SnapshotKept, OrderInv, SnapshotSays

\* Where the loop goes.
LEMMA LoopStaysSimple ==
    ASSUME ReplaysSucceed, OrderInv, Turn, [Next]_vars
    PROVE  LoopSimple'
<1>n. nextRow \in Nat /\ nextRow' >= nextRow /\ DOMAIN rows \subseteq Nat
  BY DEF OrderInv, Inv, StoreInv, Turn, IsTable
<1>k. ASSUME NEW i, i \in Nat, i < nextRow, i \in DOMAIN rows => rows[i].kind = "upsert"
      PROVE  i < nextRow' /\ (i \in DOMAIN rows' => rows'[i].kind = "upsert")
  BY <1>n, <1>k DEF Turn, Says
<1>t. todo \subseteq Nat /\ cur \in Nat
  BY DEF OrderInv, Inv, TickInv
<1>u. ASSUME UNCHANGED <<pc, batch, cur, deferred, todo>> PROVE LoopSimple'
  BY <1>u, <1>k, <1>t DEF OrderInv, LoopSimple, Swept
<1>1. ASSUME NEW k \in Keys, Client(k) \/ RequestStep(k)
      PROVE  UNCHANGED <<pc, batch, cur, deferred, todo>>
  BY <1>1 DEF Client, RequestStep, UpsertRecord, DeleteRecord, UpsertCommit, UpsertConflict,
              UpsertUnknown, UpsertThrows, UpsertFlip, FanoutDone, FanoutFails, Undo, UndoFails,
              Retract, Compensate, Reread, GiveUp, DeleteApply, DeleteThrows, replVars
<1>2. ASSUME LateWrite \/ UNCHANGED vars PROVE UNCHANGED <<pc, batch, cur, deferred, todo>>
  BY <1>2 DEF LateWrite, HungLands, HungLost, vars, replVars
<1>3. ASSUME pc' \in {"tick", "next", "heal", "claim", "dispatch", "mark", "sweep", "prune", "down"}
      PROVE  LoopSimple'
  BY <1>3 DEF LoopSimple
<1>4. ASSUME NEW i \in DOMAIN batch, TickNext(i) PROVE LoopSimple'
  <2>1. CASE pc' = "skip"
    <3>1. batch' = batch /\ cur' = i /\ IsSuperseded(rows, batch[i])
      BY <1>4, <2>1 DEF TickNext, Goto
    <3>2. batch[i].kind = "upsert"
      BY <3>1 DEF IsSuperseded, OrderInv, SnapshotSays
    <3> QED
      BY <2>1, <3>1, <3>2 DEF LoopSimple
  <2>2. CASE pc' # "skip"
    BY <1>3, <1>4, <2>2 DEF TickNext, Goto
  <2> QED
    BY <2>1, <2>2
<1>5. CASE DispatchTimesOut
  BY <1>5 DEF DispatchTimesOut, Goto, entry, LoopSimple
<1>6. CASE SweepStart
  <2>1. /\ pc' = "read" /\ todo' = WithStatus(rows, "pending_commit")
        /\ rows' = rows /\ nextRow' = nextRow
    BY <1>6 DEF SweepStart, Goto, storeVars
  <2>2. \A i \in todo' : i \in DOMAIN rows /\ rows[i].kind = "upsert"
    BY <2>1 DEF WithStatus, OrderInv, RowsSimple, Inv, StoreInv, IsTable, Row, Kinds
  <2>3. \A i \in DOMAIN rows : i < nextRow
    BY <1>n DEF OrderInv, Inv, StoreInv
  <2> QED
    BY <2>1, <2>2, <2>3 DEF LoopSimple, Swept
<1>7. ASSUME (\E i \in todo : SweepRead(i)) \/ SweepUnreadable \/ SweepAct PROVE LoopSimple'
  <2>1. pc \in {"read", "act"} /\ pc' \in {"read", "act"} /\ Swept' \subseteq Swept
    BY <1>7 DEF SweepRead, SweepUnreadable, SweepAct, Goto, Swept
  <2>2. \A i \in Swept : i \in Nat /\ i < nextRow /\ (i \in DOMAIN rows => rows[i].kind = "upsert")
    BY <1>t, <2>1 DEF OrderInv, LoopSimple, Swept
  <2>3. \A i \in Swept' : i < nextRow' /\ (i \in DOMAIN rows' => rows'[i].kind = "upsert")
    BY <1>k, <2>1, <2>2
  <2> QED
    BY <2>1, <2>3 DEF LoopSimple
<1>8. CASE \/ TickStart \/ TickEnd \/ SkipSuperseded \/ Claim \/ ReleaseDeferred \/ MarkReplicated
           \/ SweepEnd \/ Prune \/ Crash \/ Recover
  BY <1>3, <1>8 DEF TickStart, TickEnd, SkipSuperseded, Claim, RowDone, ReleaseDeferred,
                    MarkReplicated, SweepEnd, Prune, Crash, Recover, Goto
<1>9. ASSUME NEW ok \in BOOLEAN, NEW applied \in BOOLEAN, Dispatch(ok, applied) PROVE LoopSimple'
  <2>1. pc' = "mark"
    BY <1>9, NoFailures DEF Dispatch, Goto
  <2> QED
    BY <1>3, <2>1
<1> QED
  BY <1>u, <1>1, <1>2, <1>4, <1>5, <1>6, <1>7, <1>8, <1>9, NoFailures DEF Next, ReplicatorStep

\* What is done before a row stays done.
LEMMA ClearStays ==
    ASSUME OrderInv, Turn, NEW i \in DOMAIN rows \cap DOMAIN rows', Clear(i)
    PROVE  Clear(i)'
<1>1. nextRow \in Nat /\ i \in Nat /\ i < nextRow /\ DOMAIN rows \subseteq Nat
  BY DEF OrderInv, Inv, StoreInv, IsTable
<1>2. rows'[i].key = rows[i].key
  BY DEF Turn, Says
<1>3. ASSUME NEW d \in DOMAIN rows', rows'[d].kind = "delete", rows'[d].key = rows'[i].key, d < i
      PROVE  rows'[d].status = "replicated"
  <2>1. d \in DOMAIN rows
    BY <1>1, <1>3 DEF Turn
  <2>2. rows[d].kind = "delete" /\ rows[d].key = rows[i].key
    BY <1>2, <1>3, <2>1 DEF Turn, Says
  <2>3. rows[d].status = "replicated"
    BY <1>3, <2>1, <2>2 DEF Clear, Deletes
  <2> QED
    BY <2>1, <2>3 DEF Turn, Unfinished
<1> QED
  BY <1>3 DEF Clear, Deletes

\* The tick takes the rows of a node in the order they were recorded, so the row
\* it takes next has no unfinished delete before it.
LEMMA NextIsClear ==
    ASSUME OrderInv, NEW i \in DOMAIN batch \cap DOMAIN rows, batch[i].key \notin deferred,
           \A j \in DOMAIN batch : batch[i].seq <= batch[j].seq
    PROVE  Clear(i)
<1>1. ASSUME NEW d \in Deletes(rows[i].key), d < i, rows[d].status # "replicated" PROVE FALSE
  <2>1. d \in DOMAIN rows
    BY DEF Deletes
  <2>2. d \in DOMAIN batch
    BY <1>1 DEF OrderInv, SnapshotInOrder, SnapshotSays, Says
  <2>3. batch[i].seq = rows[i].seq /\ batch[d].seq = rows[d].seq
    BY <2>1, <2>2 DEF OrderInv, SnapshotSays
  <2>4. rows[d].seq < rows[i].seq /\ rows[d].seq \in Nat /\ rows[i].seq \in Nat
    BY <1>1, <2>1 DEF OrderInv, Inv, StoreInv, SeqFollowsOrder, IsTable, Row
  <2> QED
    BY <2>2, <2>3, <2>4
<1> QED
  BY <1>1 DEF Clear

\* No row is claimed out of order.
LEMMA ClaimsStayInOrder ==
    ASSUME OrderInv, Turn, [Next]_vars
    PROVE  ClaimedInOrder'
<1>n. nextRow \in Nat /\ \A i \in DOMAIN rows : i \in Nat /\ i < nextRow
  BY DEF OrderInv, Inv, StoreInv, IsTable
<1>b. \A i \in DOMAIN batch : i \in Nat /\ i < nextRow
  BY DEF OrderInv, Inv, TickInv, IsTable
<1>1. ASSUME NEW i \in DOMAIN rows', rows'[i].status \notin {"pending", "pending_commit"}
      PROVE  Clear(i)'
  <2>1. i \in DOMAIN rows
    BY <1>1 DEF Turn
  <2>2. Clear(i)
    BY <1>1, <2>1 DEF Turn, OrderInv, ClaimedInOrder
  <2> QED
    BY <1>1, <2>1, <2>2, ClearStays
<1>2. ASSUME pc' \in {"claim", "skip"}, cur' \in DOMAIN rows' PROVE Clear(cur)'
  <2>1. PICK i : i = cur'
    OBVIOUS
  <2>2. \/ pc \in {"claim", "skip"} /\ cur = i
        \/ i \in DOMAIN batch /\ TickNext(i) /\ batch[i].key \notin deferred
    <3>1. ASSUME NEW k \in Keys, Client(k) \/ RequestStep(k) PROVE UNCHANGED <<pc, cur>>
      BY <3>1 DEF Client, RequestStep, UpsertRecord, DeleteRecord, UpsertCommit, UpsertConflict,
              UpsertUnknown, UpsertThrows, UpsertFlip, FanoutDone, FanoutFails, Undo, UndoFails,
              Retract, Compensate, Reread, GiveUp, DeleteApply, DeleteThrows, replVars
    <3>2. ASSUME NEW j \in DOMAIN batch, TickNext(j)
          PROVE  j = i /\ batch[j].key \notin deferred
      BY <1>2, <2>1, <3>2 DEF TickNext
    <3>3. ASSUME \/ LateWrite \/ UNCHANGED vars
                 \/ \E j \in DOMAIN rows : BackoffElapses(j) \/ OperatorRequeues(j)
          PROVE  UNCHANGED <<pc, cur>>
      BY <3>3 DEF LateWrite, HungLands, HungLost, vars, replVars, BackoffElapses, OperatorRequeues
    <3>4. ASSUME ReplicatorStep \/ Crash \/ Recover
          PROVE  \E j \in DOMAIN batch : TickNext(j)
      BY <1>2, <3>4 DEF ReplicatorStep, TickStart, TickEnd, SkipSuperseded, Claim, RowDone, Dispatch,
                DispatchTimesOut, ReleaseDeferred, MarkReplicated, SettleCounted, SettleTransient,
                HealStart, HealProbe, HealMark, HealEnd, SweepStart, SweepRead, SweepUnreadable,
                SweepAct, SweepEnd, Prune, Crash, Recover, Goto
    <3> QED
      BY <1>2, <2>1, <3>1, <3>2, <3>3, <3>4 DEF Next
  <2>3. i \in DOMAIN rows
    BY <1>2, <1>n, <1>b, <2>1, <2>2 DEF Turn, OrderInv, Inv, TickInv
  <2>4. Clear(i)
    <3>1. CASE pc \in {"claim", "skip"} /\ cur = i
      BY <2>3, <3>1 DEF OrderInv, ClaimedInOrder
    <3>2. CASE i \in DOMAIN batch /\ TickNext(i) /\ batch[i].key \notin deferred
      BY <2>3, <3>2, NextIsClear DEF TickNext
    <3> QED
      BY <2>2, <3>1, <3>2
  <2>5. Clear(i)'
    BY <1>2, <2>1, <2>3, <2>4, ClearStays
  <2> QED
    BY <2>1, <2>5 DEF Clear, Deletes
<1> QED
  BY <1>1, <1>2 DEF ClaimedInOrder

\* A tick that starts takes the older eligible rows first, and every delete that
\* is not done is eligible.
LEMMA TickStartsInOrder ==
    ASSUME OrderInv, TickStart
    PROVE  SnapshotInOrder'
<1>t. /\ IsTable(rows) /\ DOMAIN rows \subseteq 1 .. (nextRow - 1) /\ nextRow \in Nat
      /\ SeqFollowsOrder /\ rows' = rows /\ BatchSize \in Nat
  BY BoundsAssumption DEF OrderInv, Inv, StoreInv, TickStart, storeVars
<1>b. DOMAIN batch' = ListPending(rows, BatchSize)
  BY DEF TickStart
<1> DEFINE Before(i) == {j \in Eligible(rows) : rows[j].seq < rows[i].seq}
<1>1. ASSUME NEW i \in ListPending(rows, BatchSize), NEW d \in Deletes(rows[i].key),
             d < i, rows[d].status # "replicated"
      PROVE  d \in ListPending(rows, BatchSize)
  <2>1. i \in DOMAIN rows /\ d \in DOMAIN rows /\ rows[d].kind = "delete"
    BY DEF ListPending, Eligible, Deletes
  <2>2. rows[d].status # "replicating"
    BY <2>1 DEF TickStart, AtTick, OrderInv, Inv, ClaimInv, NoOrphanClaim, WithStatus, Replaying
  <2>3. d \in Eligible(rows)
    BY <1>1, <2>1, <2>2 DEF OrderInv, RowsSimple, Eligible
  <2>4. rows[d].seq < rows[i].seq /\ \A j \in DOMAIN rows : rows[j].seq \in Nat
    BY <1>t, <1>1, <2>1 DEF SeqFollowsOrder, IsTable, Row
  <2>5. Before(d) \subseteq Before(i)
    BY <2>1, <2>4 DEF Eligible
  <2>6. IsFiniteSet(Before(i))
    <3>1. IsFiniteSet(1 .. (nextRow - 1))
      BY <1>t, FS_Interval
    <3>2. Before(i) \subseteq 1 .. (nextRow - 1)
      BY <1>t DEF Eligible
    <3> QED
      BY <3>1, <3>2, FS_Subset
  <2>7. IsFiniteSet(Before(d)) /\ Cardinality(Before(d)) <= Cardinality(Before(i))
    BY <2>5, <2>6, FS_Subset
  <2>8. Cardinality(Before(i)) \in Nat /\ Cardinality(Before(d)) \in Nat
    BY <2>6, <2>7, FS_CardinalityType
  <2>9. Cardinality(Before(i)) < BatchSize
    BY DEF ListPending
  <2>10. Cardinality(Before(d)) < BatchSize
    <3> HIDE DEF Before
    <3> QED
      BY <1>t, <2>7, <2>8, <2>9
  <2> QED
    BY <2>3, <2>10 DEF ListPending
<1> QED
  BY <1>t, <1>b, <1>1 DEF SnapshotInOrder, Deletes

\* A snapshot that only shrinks stays in order if a delete leaves it only when it
\* is done or its node is put off.
LEMMA ShrinkingInOrder ==
    ASSUME OrderInv, Turn, DOMAIN batch' \subseteq DOMAIN batch,
           deferred \subseteq deferred' \/ DOMAIN batch' = {},
           \A d \in DOMAIN batch \ DOMAIN batch' :
              d \in DOMAIN rows \cap DOMAIN rows' /\ rows[d].kind = "delete"
                 /\ rows'[d].status # "replicated"
              => rows[d].key \in deferred'
    PROVE  SnapshotInOrder'
<1>n. nextRow \in Nat /\ \A i \in DOMAIN batch : i \in Nat /\ i < nextRow
  BY DEF OrderInv, Inv, StoreInv, TickInv, IsTable
<1>1. ASSUME NEW i \in DOMAIN batch' \cap DOMAIN rows', NEW d \in DOMAIN rows',
             rows'[d].kind = "delete", rows'[d].key = rows'[i].key,
             d < i, rows'[d].status # "replicated"
      PROVE  d \in DOMAIN batch' \/ rows'[i].key \in deferred'
  <2>1. i \in DOMAIN rows /\ d \in DOMAIN rows
    <3>1. DOMAIN rows \subseteq Nat
      BY DEF OrderInv, Inv, StoreInv, IsTable
    <3> QED
      BY <1>n, <1>1, <3>1 DEF Turn
  <2>2. rows[d].kind = "delete" /\ rows[d].key = rows[i].key /\ rows'[i].key = rows[i].key
    BY <1>1, <2>1 DEF Turn, Says
  <2>3. rows[d].status # "replicated"
    BY <1>1, <2>1 DEF Turn, Unfinished
  <2>4. d \in DOMAIN batch \/ rows[i].key \in deferred
    BY <1>1, <2>1, <2>2, <2>3 DEF OrderInv, SnapshotInOrder, Deletes
  <2> QED
    BY <1>1, <2>1, <2>2, <2>4
<1> QED
  BY <1>1 DEF SnapshotInOrder, Deletes

\* No step of the tick comes to a row before an older, unfinished delete of its node.
LEMMA SnapshotStaysInOrder ==
    ASSUME ReplaysSucceed, OrderInv, Turn, [Next]_vars
    PROVE  SnapshotInOrder'
<1>d. ASSUME batch' = Remove(batch, {cur}), UNCHANGED deferred,
             cur \in DOMAIN rows \cap DOMAIN rows' /\ rows[cur].kind = "delete" =>
                rows'[cur].status = "replicated" \/ rows[cur].key \in deferred
      PROVE  SnapshotInOrder'
  <2>1. DOMAIN batch' = DOMAIN batch \ {cur}
    BY <1>d DEF Remove
  <2> QED
    BY <1>d, <2>1, ShrinkingInOrder
<1>s. /\ pc \in Replaying => cur \in DOMAIN rows /\ rows[cur].status = "replicating"
      /\ pc \in {"claim", "skip"} \cup Replaying => cur \in DOMAIN batch
      /\ pc = "claim" /\ cur \in DOMAIN rows => rows[cur].status \in Open
  BY DEF OrderInv, Inv, TickInv, ClaimInv, DispatchOwnsRow, SnapshotOpen, Replaying
<1>b. cur \in DOMAIN batch /\ cur \in DOMAIN rows =>
         batch[cur].kind = rows[cur].kind /\ batch[cur].key = rows[cur].key
  BY DEF OrderInv, SnapshotSays, Says
<1>u. ASSUME UNCHANGED batch, deferred \subseteq deferred' \/ DOMAIN batch = {}
      PROVE  SnapshotInOrder'
  BY <1>u, ShrinkingInOrder
<1>1. ASSUME NEW k \in Keys, Client(k) \/ RequestStep(k) PROVE SnapshotInOrder'
  <2>1. UNCHANGED <<batch, deferred>>
    BY <1>1 DEF Client, RequestStep, UpsertRecord, DeleteRecord, UpsertCommit, UpsertConflict,
              UpsertUnknown, UpsertThrows, UpsertFlip, FanoutDone, FanoutFails, Undo, UndoFails,
              Retract, Compensate, Reread, GiveUp, DeleteApply, DeleteThrows, replVars
  <2> QED
    BY <1>u, <2>1
<1>2. ASSUME NEW i \in DOMAIN batch, TickNext(i) PROVE SnapshotInOrder'
  <2>1. CASE batch[i].key \in deferred
    <3>1. DOMAIN batch' = DOMAIN batch \ {i} /\ UNCHANGED deferred
      BY <1>2, <2>1 DEF TickNext, Remove
    <3>2. i \in DOMAIN rows => rows[i].key \in deferred
      BY <2>1 DEF OrderInv, SnapshotSays, Says
    <3> QED
      BY <3>1, <3>2, ShrinkingInOrder
  <2>2. CASE batch[i].key \notin deferred
    BY <1>2, <1>u, <2>2 DEF TickNext
  <2> QED
    BY <2>1, <2>2
<1>3. CASE SkipSuperseded
  <2>1. /\ pc = "skip" /\ batch' = Remove(batch, {cur}) /\ UNCHANGED deferred
        /\ batch[cur].kind = "upsert"
    BY <1>3 DEF SkipSuperseded, RowDone, OrderInv, LoopSimple
  <2> QED
    BY <1>d, <1>s, <1>b, <2>1
<1>4. CASE Claim
  <2>1. CASE cur \in Eligible(rows)
    BY <1>4, <1>u, <2>1 DEF Claim
  <2>2. CASE cur \notin Eligible(rows)
    <3>1. pc = "claim" /\ batch' = Remove(batch, {cur}) /\ UNCHANGED deferred
      BY <1>4, <2>2 DEF Claim, RowDone
    <3>2. cur \notin DOMAIN rows
      BY <1>s, <2>2, <3>1 DEF OrderInv, RowsSimple, Open, Eligible
    <3> QED
      BY <1>d, <3>1, <3>2
  <2> QED
    BY <2>1, <2>2
<1>5. CASE ReleaseDeferred
  <2>1. /\ pc = "defer" /\ batch' = Remove(batch, {cur}) /\ UNCHANGED deferred
        /\ batch[cur].key \in deferred
    BY <1>5 DEF ReleaseDeferred, RowDone, OrderInv, LoopSimple
  <2> QED
    BY <1>d, <1>s, <1>b, <2>1 DEF Replaying
<1>6. CASE MarkReplicated
  <2>1. pc = "mark" /\ batch' = Remove(batch, {cur}) /\ UNCHANGED deferred
    BY <1>6 DEF MarkReplicated, RowDone
  <2>2. cur \in DOMAIN rows /\ rows' = MarkEntryStatus(rows, cur, "replicated", 0, "none")
    BY <1>6, <1>s, <2>1 DEF MarkReplicated, Replaying
  <2>3. rows'[cur].status = "replicated"
    BY <2>2 DEF MarkEntryStatus, Marked, OrderInv, Inv, StoreInv, IsTable, Row
  <2> QED
    BY <1>d, <2>1, <2>3
<1>7. CASE Crash
  <2>1. DOMAIN batch' = {} /\ deferred' = {}
    BY <1>7 DEF Crash, NoRows
  <2>2. DOMAIN batch' \cap DOMAIN rows' = {}
    BY <2>1
  <2> QED
    BY <2>2 DEF SnapshotInOrder
<1>8. CASE \/ TickEnd \/ (\E ok, applied \in BOOLEAN : Dispatch(ok, applied)) \/ DispatchTimesOut
           \/ SweepStart \/ (\E i \in todo : SweepRead(i)) \/ SweepUnreadable \/ SweepAct \/ SweepEnd
           \/ Prune \/ Recover \/ LateWrite \/ UNCHANGED vars
  <2>1. UNCHANGED batch /\ (deferred \subseteq deferred' \/ DOMAIN batch = {})
    BY <1>8 DEF TickEnd, Dispatch, DispatchTimesOut, SweepStart, SweepRead, SweepUnreadable,
                SweepAct, SweepEnd, Prune, Recover, LateWrite, HungLands, HungLost, vars, replVars,
                tickVars
  <2> QED
    BY <1>u, <2>1
<1> QED
  BY <1>1, <1>2, <1>3, <1>4, <1>5, <1>6, <1>7, <1>8, TickStartsInOrder, NoFailures
  DEF Next, ReplicatorStep

\* What a step makes of a request: it has just recorded its row, or it keeps it, or
\* it is done with it.
RequestGoesOn(x) ==
    \/ req'[x].row = req[x].row /\ \A i : Owns(x, i)' => Owns(x, i)
    \/ req'[x].row = 0 /\ ~LockHeld(x)'
    \/ /\ req'[x].row = nextRow /\ nextRow' = nextRow + 1
       /\ nextRow \in DOMAIN rows'
       /\ rows'[nextRow].kind = "upsert" \/ req'[x].phase = "delete"

\* Every step, for every request.
LEMMA RequestsGoOn ==
    ASSUME OrderInv, [Next]_vars
    PROVE  \A x \in Keys : RequestGoesOn(x)
<1>s. ASSUME NEW x \in Keys, req'[x] = req[x] PROVE RequestGoesOn(x)
  BY <1>s DEF RequestGoesOn, Owns
<1>r. req \in [Keys -> Request]
  BY DEF OrderInv, Inv, RequestInv
<1>1. ASSUME NEW k \in Keys, Client(k) \/ RequestStep(k), NEW x \in Keys PROVE RequestGoesOn(x)
  <2>1. ASSUME x # k PROVE req'[x] = req[x]
    BY <1>r, <1>1, <2>1 DEF Client, RequestStep, UpsertRecord, DeleteRecord, UpsertCommit,
       UpsertConflict, UpsertUnknown, UpsertThrows, UpsertFlip, FanoutDone, FanoutFails, Undo,
       UndoFails, Retract, Compensate, Reread, GiveUp, DeleteApply, DeleteThrows, Finish
  <2>2. ASSUME NEW c \in Contents, UpsertRecord(k, c) PROVE RequestGoesOn(k)
    <3>1. Recorded(UpsertSpec(k, graph[k].rev + 1, c, "pending_commit")) /\ req'[k].row = nextRow
      BY <1>r, <2>2, BeginRecords DEF UpsertRecord, NoRequest
    <3> QED
      BY <3>1 DEF Recorded, Says, UpsertSpec, RequestGoesOn
  <2>3. ASSUME Reread(k) PROVE RequestGoesOn(k)
    <3>1. req[k].content \in Contents
      BY <2>3, NodeTyped DEF Reread, OrderInv
    <3>2. Recorded(UpsertSpec(k, graph[k].rev + 1, req[k].content, "pending_commit"))
      BY <2>3, <3>1, BeginRecords
    <3>3. req'[k].row = nextRow
      BY <1>r, <2>3 DEF Reread, Request
    <3> QED
      BY <3>2, <3>3 DEF Recorded, Says, UpsertSpec, RequestGoesOn
  <2>4. ASSUME DeleteRecord(k) PROVE RequestGoesOn(k)
    <3>1. Recorded(DeleteSpec(k)) /\ req'[k].row = nextRow /\ req'[k].phase = "delete"
      BY <1>r, <2>4, DeleteRecords DEF DeleteRecord, NoRequest
    <3> QED
      BY <3>1 DEF Recorded, RequestGoesOn
  <2>5. ASSUME Finish(k) PROVE RequestGoesOn(k)
    BY <1>r, <2>5 DEF Finish, NoRequest, RequestGoesOn, LockHeld
  <2>6. ASSUME \/ UpsertCommit(k) \/ UpsertConflict(k) \/ (\E b \in BOOLEAN : UpsertThrows(k, b))
               \/ (\E ok \in BOOLEAN : UpsertFlip(k, ok)) \/ FanoutFails(k) \/ Undo(k)
               \/ UndoFails(k) \/ (Retract(k) /\ ~Finish(k)) \/ (Compensate(k) /\ ~Finish(k))
        PROVE  RequestGoesOn(k)
    <3>1. /\ req'[k].row = req[k].row
          /\ req[k].phase \in {"commit", "flip", "fanout", "undo", "retract", "compensate"}
      BY <1>r, <2>6 DEF UpsertCommit, UpsertConflict, UpsertThrows, UpsertFlip, FanoutFails, Undo,
                        UndoFails, Retract, Compensate, Request
    <3> QED
      BY <3>1 DEF RequestGoesOn, Owns
  <2>7. UpsertUnknown(k) \/ FanoutDone(k) \/ GiveUp(k) \/ DeleteApply(k) \/ DeleteThrows(k) => Finish(k)
    BY DEF UpsertUnknown, FanoutDone, GiveUp, DeleteApply, DeleteThrows
  <2>8. RequestGoesOn(k)
    BY <1>1, <2>2, <2>3, <2>4, <2>5, <2>6, <2>7 DEF Client, RequestStep
  <2> QED
    BY <1>s, <2>1, <2>8
<1>2. ASSUME Crash, NEW x \in Keys PROVE RequestGoesOn(x)
  BY <1>2 DEF Crash, NoRequest, RequestGoesOn, LockHeld
<1>3. ASSUME \/ LateWrite \/ ReplicatorStep \/ Recover \/ UNCHANGED vars
             \/ \E i \in DOMAIN rows : BackoffElapses(i) \/ OperatorRequeues(i)
      PROVE  UNCHANGED req
  BY <1>3 DEF LateWrite, HungLands, HungLost, ReplicatorStep, TickStart, TickNext, TickEnd,
     SkipSuperseded, Claim, Dispatch, DispatchTimesOut, ReleaseDeferred, MarkReplicated,
     SettleCounted, SettleTransient, HealStart, HealProbe, HealMark, HealEnd, SweepStart, SweepRead,
     SweepUnreadable, SweepAct, SweepEnd, Prune, Recover, sysVars, vars, BackoffElapses,
     OperatorRequeues
<1> QED
  BY <1>s, <1>1, <1>2, <1>3 DEF Next

\* What a request may take back stays an upsert.
LEMMA OwnRowsStayUpserts ==
    ASSUME OrderInv, Turn, [Next]_vars
    PROVE  OwnUpserts'
<1>n. nextRow \in Nat /\ nextRow > 0 /\ \A k \in Keys : req[k].row \in Nat /\ req[k].row < nextRow
  BY NodeTyped DEF OrderInv, Inv, StoreInv, OwnUpserts
<1>1. ASSUME NEW k \in Keys
      PROVE  /\ req'[k].row < nextRow'
             /\ \A i \in DOMAIN rows' : Owns(k, i)' => rows'[i].kind = "upsert"
  <2>1. RequestGoesOn(k)
    BY RequestsGoOn
  <2>2. CASE req'[k].row = req[k].row /\ \A i : Owns(k, i)' => Owns(k, i)
    <3>1. ASSUME NEW i \in DOMAIN rows', Owns(k, i)' PROVE rows'[i].kind = "upsert"
      <4>1. Owns(k, i) /\ i < nextRow /\ i \in Nat
        BY <1>n, <2>2, <3>1 DEF Owns
      <4>2. i \in DOMAIN rows
        BY <1>n, <4>1 DEF Turn
      <4> QED
        BY <4>1, <4>2 DEF OrderInv, OwnUpserts, Turn, Says
    <3> QED
      BY <1>n, <2>2, <3>1 DEF Turn
  <2>3. CASE req'[k].row = 0 /\ ~LockHeld(k)'
    BY <1>n, <2>3 DEF Turn, Owns, LockHeld
  <2>4. CASE /\ req'[k].row = nextRow /\ nextRow' = nextRow + 1 /\ nextRow \in DOMAIN rows'
             /\ rows'[nextRow].kind = "upsert" \/ req'[k].phase = "delete"
    BY <1>n, <2>4 DEF Owns
  <2> QED
    BY <2>1, <2>2, <2>3, <2>4 DEF RequestGoesOn
<1> QED
  BY <1>1 DEF OwnUpserts

\* Every step keeps the order.
LEMMA NextKeepsOrder ==
    ASSUME ReplaysSucceed, OrderInv, [Next]_vars
    PROVE  OrderInv' /\ Turn
<1>1. Inv' /\ SnapshotKept /\ Turn
  BY NextKeepsInv, SnapshotIsKept, StepTurn DEF OrderInv
<1>2. RowsSimple'
  BY <1>1 DEF Turn
<1> QED
  BY <1>1, <1>2, SnapshotStillSays, SnapshotStaysInOrder, ClaimsStayInOrder, LoopStaysSimple,
     OwnRowsStayUpserts DEF OrderInv

-----------------------------------------------------------------------------
(* The nodes that are gone for their clients. *)

Gone(k) == acked[k] = NoContent

\* A delete of node k will be replayed.
Coming(k) ==
    \E d \in Deletes(k) : rows[d].status # "replicated" /\ ~(pc = "mark" /\ cur = d)

\* The graph is past row i, and no delete will take it back.
Behind(i, k) ==
    /\ 0 < rows[i].rev /\ rows[i].rev <= graph[k].rev
    /\ Writing(k) => rows[i].rev <= req[k].prior.rev
    /\ Clear(i)

Harmless(i, k) == rows[i].content \in Allowed(k) \/ Owns(k, i) \/ Behind(i, k)

\* An upsert of node k.
Upsert(i, k) == i \in DOMAIN rows /\ rows[i].kind = "upsert" /\ rows[i].key = k

\* A row that could bring a gone node back is followed by a delete.
RowsGone(k) ==
    \A i \in DOMAIN rows : Upsert(i, k) /\ Unfinished(rows[i]) =>
        Harmless(i, k) \/ \E d \in Deletes(k) : i < d

\* The row in hand has passed the guards; a delete that it missed is still to come.
HandGone(k) ==
    pc \in {"claim", "dispatch"} /\ Upsert(cur, k) =>
        Harmless(cur, k) \/ \E d \in Deletes(k) : cur < d /\ rows[d].status = "pending"

\* Whatever a gone node holds is its request's, or will be deleted.
NodeGone(k) ==
    \/ graph[k].content \in Allowed(k) \/ Coming(k)
    \/ req[k].phase \in {"flip", "fanout", "undo"} /\ graph[k].content = req[k].content

\* The request's own row is the youngest of its node.
OwnRow(k) ==
    /\ LockHeld(k) /\ req[k].phase # "reread" =>
          \A i \in DOMAIN rows : rows[i].key = k => i <= req[k].row
    /\ \A i \in DOMAIN rows : Owns(k, i) =>
          /\ rows[i].key = k /\ rows[i].rev = req[k].prior.rev + 1
          /\ rows[i].content = req[k].content
    /\ req[k].phase = "delete" =>
          /\ req[k].row \in Deletes(k) /\ rows[req[k].row].status # "replicated"
          /\ ~(pc = "mark" /\ cur = req[k].row)

\* What the request read, and what it may put back.
RequestGone(k) ==
    /\ graph[k].rev = 0 <=> graph[k].content = NoContent
    /\ Writing(k) =>
          /\ ~req[k].conflict
          /\ req[k].prior.rev <= graph[k].rev
          /\ req[k].prior.rev = 0 <=> req[k].prior.content = NoContent
          /\ Gone(k) => req[k].prior.content \in Allowed(k) \/ Coming(k)
    /\ req[k].phase \in {"retract", "compensate"} =>
          /\ \/ req[k].content \in Allowed(k)
             \/ req[k].prior.rev < graph[k].rev
             \/ ~req[k].conflict /\ req[k].back.content = NoContent
          /\ Gone(k) /\ ~req[k].conflict =>
                req[k].back.content \in Allowed(k) \cup {NoContent} \/ Coming(k)
    /\ req[k].phase = "compensate" => \A d \in Deletes(k) : rows[d].status = "replicated"

DInv(k) ==
    /\ Gone(k) => RowsGone(k) /\ HandGone(k) /\ NodeGone(k)
    /\ OwnRow(k) /\ RequestGone(k)

GoneInv == OrderInv /\ \A k \in Keys : DInv(k)

-----------------------------------------------------------------------------
(* What stays as it is. *)

\* The row in hand: it was in hand before, or the guards have just let it pass.
HandStep ==
    /\ pc' = "mark" => cur' = cur /\ (pc = "mark" \/ \E ok, applied \in BOOLEAN : Dispatch(ok, applied))
    /\ pc' \in {"claim", "dispatch"} =>
          /\ cur' \in DOMAIN batch
          /\ \/ pc \in {"claim", "dispatch"} /\ cur' = cur
             \/ \A k \in Keys : Upsert(cur', k) => \A d \in Deletes(k) : ~(cur' < d)

\* The guards see every younger delete.
LEMMA GuardSees ==
    ASSUME OrderInv, NEW i \in DOMAIN batch, ~IsSuperseded(rows, batch[i]),
           NEW k \in Keys, Upsert(i, k), NEW d \in Deletes(k)
    PROVE  ~(i < d)
<1>1. i \in DOMAIN rows /\ d \in DOMAIN rows /\ rows[d].kind = "delete" /\ rows[d].key = k
  BY DEF Upsert, Deletes
<1>2. batch[i].kind = "upsert" /\ batch[i].key = k /\ batch[i].seq = rows[i].seq
  BY <1>1 DEF Upsert, OrderInv, SnapshotSays, Says
<1>3. rows[d].status \in {"pending", "replicating", "replicated"}
  BY <1>1 DEF OrderInv, RowsSimple
<1>4. i < d => rows[i].seq < rows[d].seq
  BY <1>1 DEF OrderInv, Inv, StoreInv, SeqFollowsOrder
<1>5. rows[i].seq \in Nat /\ rows[d].seq \in Nat
  BY <1>1 DEF OrderInv, Inv, StoreInv, IsTable, Row
<1> QED
  BY <1>1, <1>2, <1>3, <1>4, <1>5 DEF IsSuperseded, HasNewerDeleteForKey

\* Only the guards put a row in hand, and only a replay gets it to its mark.
LEMMA HandMoves ==
    ASSUME ReplaysSucceed, OrderInv, [Next]_vars
    PROVE  HandStep
<1>b. pc \in {"claim", "dispatch"} => cur \in DOMAIN batch
  BY DEF OrderInv, Inv, TickInv, Replaying
<1>u. ASSUME UNCHANGED <<pc, cur>> PROVE HandStep
  BY <1>b, <1>u DEF HandStep
<1>o. ASSUME pc' \notin {"mark", "claim", "dispatch"} PROVE HandStep
  BY <1>o DEF HandStep
<1>1. ASSUME NEW k \in Keys, Client(k) \/ RequestStep(k) PROVE UNCHANGED <<pc, cur>>
  BY <1>1 DEF Client, RequestStep, UpsertRecord, DeleteRecord, UpsertCommit, UpsertConflict,
              UpsertUnknown, UpsertThrows, UpsertFlip, FanoutDone, FanoutFails, Undo, UndoFails,
              Retract, Compensate, Reread, GiveUp, DeleteApply, DeleteThrows, replVars
<1>2. ASSUME LateWrite \/ UNCHANGED vars PROVE UNCHANGED <<pc, cur>>
  BY <1>2 DEF LateWrite, HungLands, HungLost, vars, replVars
<1>3. ASSUME NEW i \in DOMAIN batch, TickNext(i) PROVE HandStep
  <2>1. CASE pc' = "claim"
    <3>1. cur' = i /\ ~IsSuperseded(rows, batch[i])
      BY <1>3, <2>1 DEF TickNext, Goto
    <3>2. \A k \in Keys : Upsert(i, k) => \A d \in Deletes(k) : ~(i < d)
      BY <3>1, GuardSees
    <3> QED
      BY <2>1, <3>1, <3>2 DEF HandStep
  <2>2. CASE pc' # "claim"
    BY <1>o, <1>3, <2>2 DEF TickNext, Goto
  <2> QED
    BY <2>1, <2>2
<1>4. CASE Claim
  <2>1. CASE cur \in Eligible(rows)
    BY <1>4, <1>b, <2>1 DEF Claim, Goto, HandStep
  <2>2. CASE cur \notin Eligible(rows)
    BY <1>4, <1>o, <2>2 DEF Claim, RowDone, Goto
  <2> QED
    BY <2>1, <2>2
<1>5. ASSUME NEW ok \in BOOLEAN, NEW applied \in BOOLEAN, Dispatch(ok, applied) PROVE HandStep
  <2>1. pc' = "mark" /\ cur' = cur
    BY <1>5, NoFailures DEF Dispatch, Goto
  <2> QED
    BY <1>5, <2>1 DEF HandStep
<1>6. CASE \/ TickStart \/ TickEnd \/ SkipSuperseded \/ ReleaseDeferred \/ MarkReplicated
           \/ DispatchTimesOut \/ SweepStart \/ (\E i \in todo : SweepRead(i))
           \/ SweepUnreadable \/ SweepAct \/ SweepEnd \/ Prune \/ Crash \/ Recover
  BY <1>6, <1>o DEF TickStart, TickEnd, SkipSuperseded, RowDone, ReleaseDeferred, MarkReplicated,
                DispatchTimesOut, SweepStart, SweepRead, SweepUnreadable, SweepAct, SweepEnd,
                Prune, Crash, Recover, Goto
<1> QED
  BY <1>u, <1>1, <1>2, <1>3, <1>4, <1>5, <1>6, NoFailures DEF Next, ReplicatorStep

\* No replay of node k is done in this step.
MarkElse(k) == pc' = "mark" => cur' = cur /\ (pc = "mark" \/ (cur \in DOMAIN rows /\ rows[cur].key # k))

\* A delete that is not done stays in the table.
LEMMA DeleteStays ==
    ASSUME Turn, NEW k, NEW d \in Deletes(k), rows[d].status # "replicated"
    PROVE  d \in Deletes(k)' /\ d \in DOMAIN rows /\ d \in DOMAIN rows'
<1>1. d \in DOMAIN rows /\ rows[d].kind = "delete" /\ rows[d].key = k
  BY DEF Deletes
<1>2. d \in DOMAIN rows'
  BY <1>1 DEF Turn
<1> QED
  BY <1>1, <1>2 DEF Turn, Says, Deletes

\* A delete that is to be replayed stays so, unless this step replays it.
LEMMA ComingStays ==
    ASSUME Turn, NEW k, MarkElse(k), Coming(k)
    PROVE  Coming(k)'
<1>1. PICK d \in Deletes(k) : rows[d].status # "replicated" /\ ~(pc = "mark" /\ cur = d)
  BY DEF Coming
<1>2. d \in Deletes(k)' /\ d \in DOMAIN rows /\ d \in DOMAIN rows' /\ rows[d].key = k
  BY <1>1, DeleteStays DEF Deletes
<1>3. rows'[d].status # "replicated"
  BY <1>1, <1>2 DEF Turn
<1>4. ~(pc' = "mark" /\ cur' = d)
  BY <1>1, <1>2 DEF MarkElse
<1> QED
  BY <1>2, <1>3, <1>4 DEF Coming

\* A younger delete stays as long as the row it covers is not finished.
LEMMA CoverStays ==
    ASSUME OrderInv, Turn, NEW k, NEW i, Upsert(i, k), Unfinished(rows[i]),
           NEW d \in Deletes(k), i < d
    PROVE  d \in Deletes(k)'
<1>1. d \in DOMAIN rows /\ rows[d].kind = "delete" /\ rows[d].key = k /\ i \in Nat /\ d \in Nat
  BY DEF Deletes, Upsert, OrderInv, Inv, StoreInv, IsTable
<1>2. d \in DOMAIN rows'
  BY <1>1 DEF Turn, Upsert
<1> QED
  BY <1>1, <1>2 DEF Turn, Says, Deletes

\* What was harmless is harmless, or followed by a delete that the hand will not miss.
HarmlessKept(k) ==
    \A i \in DOMAIN rows \cap DOMAIN rows' :
        Upsert(i, k) /\ Unfinished(rows[i]) /\ Harmless(i, k) =>
            \/ Harmless(i, k)'
            \/ \E d \in Deletes(k)' : i < d /\ (pc' \in {"claim", "dispatch"} => rows'[d].status = "pending")

\* New rows of node k that are upserts are harmless.
NewHarmless(k) == \A i \in DOMAIN rows' \ DOMAIN rows : Upsert(i, k)' => Harmless(i, k)'

\* If harmless rows stay harmless and new ones are, nothing can bring the node back: a
\* row keeps its younger delete, and the row in hand its pending one.
LEMMA RowsGoneStays ==
    ASSUME OrderInv, Turn, HandStep, NEW k \in Keys, RowsGone(k), HandGone(k),
           HarmlessKept(k), NewHarmless(k)
    PROVE  RowsGone(k)' /\ HandGone(k)'
<1>1. ASSUME NEW i \in DOMAIN rows', Upsert(i, k)', Unfinished(rows'[i])
      PROVE  Harmless(i, k)' \/ \E d \in Deletes(k)' : i < d
  <2>1. CASE i \notin DOMAIN rows
    BY <1>1, <2>1 DEF NewHarmless
  <2>2. CASE i \in DOMAIN rows
    <3>1. Upsert(i, k) /\ Unfinished(rows[i])
      BY <1>1, <2>2 DEF Turn, Says, Upsert, Unfinished
    <3>2. CASE Harmless(i, k)
      BY <1>1, <2>2, <3>1, <3>2 DEF HarmlessKept
    <3>3. ASSUME NEW d \in Deletes(k), i < d PROVE d \in Deletes(k)'
      BY <3>1, <3>3, CoverStays
    <3> QED
      BY <2>2, <3>1, <3>2, <3>3 DEF RowsGone
  <2> QED
    BY <2>1, <2>2
<1>2. ASSUME pc' \in {"claim", "dispatch"}, NEW i, i = cur', Upsert(i, k)'
      PROVE  Harmless(i, k)' \/ \E d \in Deletes(k)' : i < d /\ rows'[d].status = "pending"
  <2>1. i \in DOMAIN batch /\ i \in DOMAIN rows' /\ i \in Nat /\ i < nextRow /\ nextRow \in Nat
    BY <1>2 DEF HandStep, Upsert, OrderInv, Inv, StoreInv, TickInv, IsTable
  <2>2. i \in DOMAIN rows
    BY <2>1 DEF Turn
  <2>3. Unfinished(rows[i])
    BY <2>1, <2>2 DEF OrderInv, Inv, ClaimInv, SnapshotOpen, DispatchOwnsRow, Open, Unfinished
  <2>4. Upsert(i, k)
    BY <1>2, <2>2 DEF Turn, Says, Upsert
  <2>5. CASE Harmless(i, k)
    BY <1>2, <2>1, <2>2, <2>3, <2>4, <2>5 DEF HarmlessKept
  <2>6. CASE ~Harmless(i, k)
    <3>1. PICK d \in Deletes(k) : i < d /\ rows[d].status = "pending" /\ pc \in {"claim", "dispatch"} /\ cur = i
      <4>1. \E d \in Deletes(k) : i < d
        BY <2>2, <2>3, <2>4, <2>6 DEF RowsGone
      <4>2. pc \in {"claim", "dispatch"} /\ cur = i
        BY <1>2, <2>4, <4>1 DEF HandStep
      <4> QED
        BY <2>4, <2>6, <4>2 DEF HandGone
    <3>2. d \in Deletes(k)' /\ d \in DOMAIN rows \cap DOMAIN rows' /\ rows[d].kind = "delete"
      BY <3>1, DeleteStays DEF Deletes
    <3>3. d # i /\ pc # "down"
      BY <2>1, <3>1
    <3>4. rows'[d].status = "pending"
      BY <3>1, <3>2, <3>3 DEF Turn
    <3> QED
      BY <3>1, <3>2, <3>4
  <2> QED
    BY <2>5, <2>6
<1> QED
  BY <1>1, <1>2 DEF RowsGone, HandGone

\* What a step must grant node k to leave its rows harmless.
LEMMA HarmlessStays ==
    ASSUME OrderInv, Turn, NEW k \in Keys,
           Allowed(k) \subseteq Allowed(k)', graph'[k].rev \in Nat, graph[k].rev <= graph'[k].rev,
           Writing(k)' => \/ Writing(k) /\ req'[k].prior.rev = req[k].prior.rev
                          \/ req'[k].prior.rev = graph[k].rev,
           \A i \in DOMAIN rows \cap DOMAIN rows' : Upsert(i, k) /\ Owns(k, i) =>
              \/ Harmless(i, k)'
              \/ \E d \in Deletes(k)' : i < d /\ rows'[d].status = "pending"
    PROVE  HarmlessKept(k)
<1>1. ASSUME NEW i \in DOMAIN rows \cap DOMAIN rows', Upsert(i, k), Harmless(i, k), ~Owns(k, i)
      PROVE  Harmless(i, k)'
  <2>1. Says(rows'[i], rows[i]) /\ rows[i].rev \in Nat /\ graph[k].rev \in Nat
    BY NodeTyped DEF Turn, OrderInv, Inv, StoreInv, IsTable, Row
  <2>2. CASE rows[i].content \in Allowed(k)
    BY <2>1, <2>2 DEF Says, Harmless
  <2>3. CASE Behind(i, k)
    <3>1. Clear(i)'
      BY <1>1, <2>3, ClearStays DEF Behind
    <3> QED
      BY <2>1, <2>3, <3>1 DEF Behind, Says, Harmless
  <2> QED
    BY <1>1, <2>2, <2>3 DEF Harmless
<1> QED
  BY <1>1 DEF HarmlessKept

NoNew(k) == \A i \in DOMAIN rows' \ DOMAIN rows : rows'[i].key # k

\* The request on node k, if one still needs its row, goes on with the same row.
Continues(k) ==
    LockHeld(k)' /\ req'[k].phase # "reread" =>
        /\ LockHeld(k) /\ req[k].phase # "reread"
        /\ req[k].phase = "delete" <=> req'[k].phase = "delete"
        /\ req'[k].row = req[k].row /\ req'[k].prior = req[k].prior
        /\ req'[k].content = req[k].content

\* A request that goes on with its row keeps it, the youngest of its node.
LEMMA OwnRowStays ==
    ASSUME OrderInv, Turn, NEW k \in Keys, OwnRow(k), MarkElse(k), NoNew(k), Continues(k)
    PROVE  OwnRow(k)'
<1>p. req[k].phase \in Phases
  BY DEF OrderInv, Inv, RequestInv, Request
<1>1. ASSUME NEW i \in DOMAIN rows', rows'[i].key = k
      PROVE  i \in DOMAIN rows /\ Says(rows'[i], rows[i])
  BY <1>1 DEF NoNew, Turn
<1>2. ASSUME LockHeld(k)', req'[k].phase # "reread", NEW i \in DOMAIN rows', rows'[i].key = k
      PROVE  i <= req'[k].row
  BY <1>1, <1>2 DEF OwnRow, Continues, Says
<1>3. ASSUME NEW i \in DOMAIN rows', Owns(k, i)'
      PROVE  /\ rows'[i].key = k /\ rows'[i].rev = req'[k].prior.rev + 1
             /\ rows'[i].content = req'[k].content
  <2>1. /\ Owns(k, i) /\ req'[k].prior = req[k].prior /\ req'[k].content = req[k].content
        /\ i = req[k].row
    BY <1>p, <1>3 DEF Owns, Continues, LockHeld, Phases
  <2>2. i \in DOMAIN rows
    <3>1. req[k].row \in Nat /\ req[k].row < nextRow /\ nextRow \in Nat
      BY NodeTyped DEF OrderInv, OwnUpserts, Inv, StoreInv
    <3> QED
      BY <1>3, <2>1, <3>1 DEF Turn
  <2> QED
    BY <1>3, <2>1, <2>2 DEF OwnRow, Turn, Says
<1>4. ASSUME req'[k].phase = "delete"
      PROVE  /\ req'[k].row \in Deletes(k)' /\ rows'[req'[k].row].status # "replicated"
             /\ ~(pc' = "mark" /\ cur' = req'[k].row)
  <2> DEFINE d == req[k].row
  <2>1. req[k].phase = "delete" /\ req'[k].row = d
    BY <1>4 DEF Continues, LockHeld
  <2>2. d \in Deletes(k) /\ rows[d].status # "replicated" /\ ~(pc = "mark" /\ cur = d)
    BY <2>1 DEF OwnRow
  <2>3. d \in Deletes(k)' /\ d \in DOMAIN rows /\ d \in DOMAIN rows' /\ rows[d].key = k
    BY <2>2, DeleteStays DEF Deletes
  <2>4. rows'[d].status # "replicated"
    BY <2>2, <2>3 DEF Turn
  <2>5. ~(pc' = "mark" /\ cur' = d)
    BY <2>2, <2>3 DEF MarkElse
  <2> QED
    BY <2>1, <2>3, <2>4, <2>5
<1> QED
  BY <1>2, <1>3, <1>4 DEF OwnRow

\* Deletes that are done stay done, if none is new.
LEMMA DoneStays ==
    ASSUME Turn, NEW k, NoNew(k), \A d \in Deletes(k) : rows[d].status = "replicated"
    PROVE  \A d \in Deletes(k)' : rows'[d].status = "replicated"
<1>1. ASSUME NEW d \in Deletes(k)' PROVE rows'[d].status = "replicated"
  <2>1. d \in DOMAIN rows' /\ rows'[d].kind = "delete" /\ rows'[d].key = k
    BY DEF Deletes
  <2>2. d \in DOMAIN rows
    BY <2>1 DEF NoNew
  <2>3. d \in Deletes(k)
    BY <2>1, <2>2 DEF Turn, Says, Deletes
  <2> QED
    BY <2>1, <2>2, <2>3 DEF Turn, Unfinished
<1> QED
  BY <1>1

\* A step elsewhere.
LEMMA ElsewhereGone ==
    ASSUME OrderInv, Turn, HandStep, NEW k \in Keys, DInv(k), SameNode(k), NoNew(k), MarkElse(k)
    PROVE  DInv(k)'
<1>t. graph[k].rev \in Nat
  BY NodeTyped DEF OrderInv
<1>1. Allowed(k)' = Allowed(k) /\ (Gone(k)' <=> Gone(k)) /\ (Writing(k)' <=> Writing(k))
  BY DEF SameNode, Allowed, Gone, Writing
<1>2. ASSUME Gone(k) PROVE RowsGone(k)' /\ HandGone(k)'
  <2>1. \A i \in DOMAIN rows \cap DOMAIN rows' : Owns(k, i) => Harmless(i, k)'
    BY DEF SameNode, Owns, Harmless
  <2>2. HarmlessKept(k)
    BY <1>t, <1>1, <2>1, HarmlessStays DEF SameNode
  <2>3. NewHarmless(k)
    BY DEF NewHarmless, NoNew, Upsert
  <2> QED
    BY <1>2, <2>2, <2>3, RowsGoneStays DEF DInv
<1>3. ASSUME Coming(k) PROVE Coming(k)'
  BY <1>3, ComingStays
<1>4. ASSUME Gone(k) PROVE NodeGone(k)'
  BY <1>1, <1>3, <1>4 DEF DInv, NodeGone, SameNode
<1>5. OwnRow(k)'
  <2>1. Continues(k)
    BY DEF Continues, SameNode, LockHeld
  <2> QED
    BY <2>1, OwnRowStays DEF DInv
<1>6. RequestGone(k)'
  <2>1. req[k].phase = "compensate" => \A d \in Deletes(k)' : rows'[d].status = "replicated"
    BY DoneStays DEF DInv, RequestGone
  <2> QED
    BY <1>1, <1>3, <2>1 DEF DInv, RequestGone, SameNode
<1> QED
  BY <1>1, <1>2, <1>4, <1>5, <1>6 DEF DInv

-----------------------------------------------------------------------------
(* The requests. *)

\* What is left to show of a step on node k itself.
LEMMA TouchedGone ==
    ASSUME OrderInv, Turn, HandStep, NEW k \in Keys, DInv(k),
           Gone(k)' => Gone(k) /\ HarmlessKept(k) /\ NewHarmless(k) /\ NodeGone(k)',
           OwnRow(k)', RequestGone(k)'
    PROVE  DInv(k)'
  BY RowsGoneStays DEF DInv

\* A row without successors in the table: nothing new for the node.
LEMMA SameTableNoNew ==
    ASSUME NEW k, SameRows(rows, rows')
    PROVE  NoNew(k) /\ NewHarmless(k)
  BY DEF SameRows, NoNew, NewHarmless

\* The commit lands, or throws, or what follows it fails or goes on.
LEMMA ForwardGone ==
    ASSUME OrderInv, Turn, HandStep, NEW k \in Keys, DInv(k), MarkElse(k), SameRows(rows, rows'),
           Writing(k), req'[k].phase \in {"flip", "fanout", "undo"},
           req'[k].row = req[k].row, req'[k].prior = req[k].prior, req'[k].content = req[k].content,
           req'[k].conflict = req[k].conflict, acked'[k] = acked[k], maybe'[k] = maybe[k],
           \/ graph'[k] = graph[k]
           \/ graph'[k].rev = graph[k].rev + 1 /\ graph'[k].content = req[k].content
    PROVE  DInv(k)'
<1>t. /\ graph[k].rev \in Nat /\ req[k].prior.rev \in Nat /\ graph'[k].rev \in Nat
      /\ graph[k].rev <= graph'[k].rev /\ req[k].content # NoContent
  BY NodeTyped DEF OrderInv, Writing
<1>1. Allowed(k)' = Allowed(k) /\ (Gone(k)' <=> Gone(k)) /\ Writing(k)'
  BY DEF Allowed, Gone, Writing
<1>n. NoNew(k) /\ NewHarmless(k)
  BY SameTableNoNew
<1>2. HarmlessKept(k)
  <2>1. \A i \in DOMAIN rows \cap DOMAIN rows' : Owns(k, i) => Harmless(i, k)'
    BY DEF Owns, Harmless
  <2> QED
    BY <1>t, <1>1, <2>1, HarmlessStays
<1>3. ASSUME Coming(k) PROVE Coming(k)'
  BY <1>3, ComingStays
<1>4. ASSUME Gone(k) PROVE NodeGone(k)'
  BY <1>1, <1>3, <1>4 DEF DInv, NodeGone
<1>5. OwnRow(k)'
  <2>1. Continues(k)
    BY DEF Continues, LockHeld, Writing
  <2> QED
    BY <1>n, <2>1, OwnRowStays DEF DInv
<1>6. RequestGone(k)'
  BY <1>t, <1>1, <1>3 DEF DInv, RequestGone
<1> QED
  BY <1>1, <1>n, <1>2, <1>4, <1>5, <1>6, TouchedGone

\* The request lets go of the node; what it wrote may still win if nobody was told.
LEMMA LetGoGone ==
    ASSUME OrderInv, Turn, HandStep, NEW k \in Keys, DInv(k), MarkElse(k), SameRows(rows, rows'),
           req'[k].phase = "idle", graph'[k] = graph[k], acked'[k] = acked[k], maybe[k] \subseteq maybe'[k],
           req[k].phase \notin {"idle", "reread", "delete"} => req[k].content \in maybe'[k]
    PROVE  DInv(k)'
<1>t. graph[k].rev \in Nat /\ req[k].phase \in Phases
  BY NodeTyped DEF OrderInv, Inv, RequestInv, Request
<1>1. Allowed(k) \subseteq Allowed(k)' /\ (Gone(k)' <=> Gone(k)) /\ ~Writing(k)'
  BY DEF Allowed, Gone, Writing
<1>n. NoNew(k) /\ NewHarmless(k)
  BY SameTableNoNew
<1>2. HarmlessKept(k)
  <2>1. ASSUME NEW i \in DOMAIN rows \cap DOMAIN rows', Owns(k, i) PROVE Harmless(i, k)'
    <3>1. rows[i].content = req[k].content /\ rows'[i].content = rows[i].content
      BY <2>1 DEF DInv, OwnRow, Turn, Says
    <3>2. req[k].content \in maybe'[k]
      BY <2>1 DEF Owns
    <3> QED
      BY <3>1, <3>2 DEF Harmless, Allowed
  <2> QED
    BY <1>t, <1>1, <2>1, HarmlessStays
<1>3. ASSUME Coming(k) PROVE Coming(k)'
  BY <1>3, ComingStays
<1>4. ASSUME Gone(k) PROVE NodeGone(k)'
  <2>1. CASE req[k].phase \in {"flip", "fanout", "undo"} /\ graph[k].content = req[k].content
    BY <2>1 DEF NodeGone, Allowed
  <2> QED
    BY <1>1, <1>3, <1>4, <2>1 DEF DInv, NodeGone
<1>5. OwnRow(k)'
  <2>1. Continues(k)
    BY DEF Continues, LockHeld
  <2> QED
    BY <1>n, <2>1, OwnRowStays DEF DInv
<1>6. RequestGone(k)'
  BY <1>1 DEF DInv, RequestGone, Writing
<1> QED
  BY <1>1, <1>n, <1>2, <1>4, <1>5, <1>6, TouchedGone

\* The conditional write lost: the graph is past the request's row.
LEMMA ConflictGone ==
    ASSUME OrderInv, Turn, HandStep, NEW k \in Keys, DInv(k), MarkElse(k), UpsertConflict(k)
    PROVE  DInv(k)'
<1>t. /\ graph[k].rev \in Nat /\ req[k].prior.rev \in Nat /\ req[k].phase = "commit"
      /\ req \in [Keys -> Request] /\ rows' = rows
  BY NodeTyped DEF OrderInv, Inv, RequestInv, UpsertConflict, storeVars
<1>q. /\ req'[k].phase = "retract" /\ req'[k].conflict /\ req'[k].row = req[k].row
      /\ req'[k].prior = req[k].prior /\ req'[k].content = req[k].content
      /\ graph'[k] = graph[k] /\ acked'[k] = acked[k] /\ maybe'[k] = maybe[k]
  BY <1>t DEF UpsertConflict, Request, ackVars
<1>g. req[k].prior.rev < graph[k].rev
  BY <1>t DEF UpsertConflict, N!CanCommitAt, DInv, RequestGone, Writing
<1>1. Allowed(k)' = Allowed(k) /\ (Gone(k)' <=> Gone(k)) /\ ~Writing(k)'
  BY <1>q DEF Allowed, Gone, Writing
<1>n. NoNew(k) /\ NewHarmless(k)
  BY <1>t, SameTable, SameTableNoNew
<1>2. HarmlessKept(k)
  <2>1. \A i \in DOMAIN rows \cap DOMAIN rows' : Owns(k, i) => Harmless(i, k)'
    BY <1>q DEF Owns, Harmless
  <2> QED
    BY <1>t, <1>q, <1>1, <2>1, HarmlessStays
<1>3. ASSUME Coming(k) PROVE Coming(k)'
  BY <1>3, ComingStays
<1>4. ASSUME Gone(k) PROVE NodeGone(k)'
  BY <1>t, <1>q, <1>1, <1>3, <1>4 DEF DInv, NodeGone
<1>5. OwnRow(k)'
  <2>1. Continues(k)
    BY <1>t, <1>q DEF Continues, LockHeld
  <2> QED
    BY <1>n, <2>1, OwnRowStays DEF DInv
<1>6. RequestGone(k)'
  BY <1>q, <1>g, <1>1 DEF DInv, RequestGone
<1> QED
  BY <1>1, <1>n, <1>2, <1>4, <1>5, <1>6, TouchedGone

\* The rollback: a node that was there before goes back one revision up, above every
\* row; one that was not is absent again, and a claimed row of it is followed by a
\* compensating delete.
LEMMA UndoGone ==
    ASSUME OrderInv, Turn, HandStep, NEW k \in Keys, DInv(k), MarkElse(k), Undo(k) \/ UndoFails(k)
    PROVE  DInv(k)'
<1>t. /\ graph[k].rev \in Nat /\ req[k].prior.rev \in Nat /\ req[k].phase = "undo" /\ Writing(k)
      /\ req \in [Keys -> Request] /\ graph \in [Keys -> N!Node] /\ rows' = rows
      /\ maybe \in [Keys -> SUBSET (Contents \cup {NoContent})]
  BY NodeTyped DEF OrderInv, Inv, RequestInv, Undo, UndoFails, storeVars, Writing
<1>q. /\ req'[k].phase = "retract" /\ req'[k].conflict = req[k].conflict
      /\ req'[k].row = req[k].row /\ req'[k].prior = req[k].prior
      /\ req'[k].content = req[k].content /\ acked'[k] = acked[k] /\ maybe[k] \subseteq maybe'[k]
  <2>1. CASE Undo(k)
    BY <1>t, <2>1 DEF Undo, Request, ackVars
  <2>2. CASE UndoFails(k)
    BY <1>t, <2>2 DEF UndoFails, Request, LeaveOpen
  <2> QED
    BY <2>1, <2>2
<1>p. /\ ~req[k].conflict /\ req[k].prior.rev <= graph[k].rev
      /\ req[k].prior.rev = 0 <=> req[k].prior.content = NoContent
      /\ graph[k].rev = 0 <=> graph[k].content = NoContent
      /\ Gone(k) => req[k].prior.content \in Allowed(k) \/ Coming(k)
  BY <1>t DEF DInv, RequestGone
<1>1. Allowed(k) \subseteq Allowed(k)' /\ (Gone(k)' <=> Gone(k)) /\ ~Writing(k)'
  BY <1>q DEF Allowed, Gone, Writing
<1>n. NoNew(k) /\ NewHarmless(k)
  BY <1>t, SameTable, SameTableNoNew
<1>3. ASSUME Coming(k) PROVE Coming(k)'
  BY <1>3, ComingStays
<1>o. \A i \in DOMAIN rows \cap DOMAIN rows' : Owns(k, i) => Harmless(i, k)'
  BY <1>q DEF Owns, Harmless
<1>c. Continues(k)
  BY <1>t, <1>q DEF Continues, LockHeld
<1>5. OwnRow(k)'
  BY <1>n, <1>c, OwnRowStays DEF DInv
\* the rollback failed
<1>f. ASSUME UndoFails(k) PROVE DInv(k)'
  <2>1. /\ graph'[k] = graph[k] /\ req[k].content \in maybe'[k]
        /\ req'[k].back.content = req[k].prior.content
    BY <1>t, <1>f DEF UndoFails, LeaveOpen, Request, N!Node
  <2>2. HarmlessKept(k)
    BY <1>t, <1>o, <1>1, <2>1, HarmlessStays
  <2>3. ASSUME Gone(k) PROVE NodeGone(k)'
    <3>1. CASE graph[k].content = req[k].content
      BY <2>1, <3>1 DEF NodeGone, Allowed
    <3> QED
      BY <1>1, <1>3, <2>1, <2>3, <3>1 DEF DInv, NodeGone
  <2>4. req[k].content \in Allowed(k)'
    BY <2>1 DEF Allowed
  <2>5. RequestGone(k)'
    BY <1>q, <1>p, <1>1, <1>3, <2>1, <2>4 DEF RequestGone
  <2> QED
    BY <1>1, <1>n, <1>5, <2>2, <2>3, <2>5, TouchedGone
\* it went well
<1>u. ASSUME Undo(k) PROVE DInv(k)'
  <2>1. graph'[k] = Undone(k) /\ req'[k].back = Undone(k)
    BY <1>t, <1>u DEF Undo, Request
  <2>2. ASSUME req[k].prior.content # NoContent, graph[k].content # NoContent
        PROVE  Undone(k).rev = graph[k].rev + 1 /\ Undone(k).content = req[k].prior.content
    BY <2>2 DEF Undone, N!IsPresent, N!RestoreOver
  <2>3. ASSUME req[k].prior.content = NoContent \/ graph[k].content = NoContent
        PROVE  Undone(k).rev = 0 /\ Undone(k).content = NoContent
    BY <2>3 DEF Undone, N!IsPresent, N!Absent
  <2>4. HarmlessKept(k)
    <3>1. CASE req[k].prior.content # NoContent /\ graph[k].content # NoContent
      BY <1>t, <1>o, <1>1, <2>1, <2>2, <3>1, HarmlessStays
    <3>2. CASE req[k].prior.content = NoContent \/ graph[k].content = NoContent
      <4>1. ASSUME NEW i \in DOMAIN rows \cap DOMAIN rows', Upsert(i, k), Harmless(i, k)
            PROVE  Harmless(i, k)'
        <5>1. rows[i].rev \in Nat /\ rows'[i] = rows[i]
          BY <1>t DEF OrderInv, Inv, StoreInv, IsTable, Row
        <5>2. ~Behind(i, k)
          BY <1>t, <1>p, <3>2, <5>1 DEF Behind
        <5> QED
          BY <1>o, <1>1, <4>1, <5>1, <5>2 DEF Harmless
      <4> QED
        BY <4>1 DEF HarmlessKept
    <3> QED
      BY <3>1, <3>2
  <2>5. ASSUME Gone(k) PROVE Undone(k).content \in Allowed(k)' \/ Coming(k)'
    BY <1>p, <1>1, <1>3, <2>2, <2>3, <2>5 DEF Gone, Allowed
  <2>6. ASSUME Gone(k) PROVE NodeGone(k)'
    BY <2>1, <2>5, <2>6 DEF NodeGone
  <2>7. Undone(k).rev = 0 <=> Undone(k).content = NoContent
    BY <1>t, <2>2, <2>3
  <2>8. req[k].prior.rev < Undone(k).rev \/ Undone(k).content = NoContent
    BY <1>t, <1>p, <2>2, <2>3
  <2>9. RequestGone(k)'
    BY <1>q, <1>p, <1>1, <2>1, <2>5, <2>7, <2>8 DEF RequestGone
  <2> QED
    BY <1>1, <1>n, <1>5, <2>4, <2>6, <2>9, TouchedGone
<1> QED
  BY <1>f, <1>u

\* The row is taken back, or the replicator has claimed it, and then every older
\* delete of the node is done.
LEMMA RetractGone ==
    ASSUME OrderInv, Turn, HandStep, NEW k \in Keys, DInv(k), MarkElse(k), Retract(k)
    PROVE  DInv(k)'
<1>t. /\ graph[k].rev \in Nat /\ req[k].phase = "retract" /\ req \in [Keys -> Request]
      /\ IsTable(rows) /\ rows' = RemoveIfPending(rows, req[k].row)
      /\ graph'[k] = graph[k] /\ acked'[k] = acked[k] /\ maybe'[k] = maybe[k]
  BY NodeTyped DEF OrderInv, Inv, RequestInv, StoreInv, Retract, ackVars
<1>s. SameRows(rows, rows')
  BY <1>t, RemovalSays
<1>n. NoNew(k) /\ NewHarmless(k)
  BY <1>s, SameTableNoNew
<1>3. ASSUME Coming(k) PROVE Coming(k)'
  BY <1>3, ComingStays
<1>g. Allowed(k)' = Allowed(k) /\ (Gone(k)' <=> Gone(k))
  BY <1>t DEF Allowed, Gone
<1>4. ASSUME Gone(k) PROVE NodeGone(k)'
  BY <1>t, <1>g, <1>3, <1>4 DEF DInv, NodeGone
<1>1. CASE RemoveIfPendingResult(rows, req[k].row)
  <2>1. req'[k].phase \in {"idle", "reread"}
    BY <1>t, <1>1 DEF Retract, Finish, NoRequest, Request
  <2>2. req[k].row \notin DOMAIN rows'
    BY <1>t, <1>1 DEF RemoveIfPendingResult, RemoveIfPending, Removable, Remove
  <2>3. \A i \in DOMAIN rows' : ~Owns(k, i)
    BY <2>2 DEF Owns
  <2>w. ~Writing(k)'
    BY <2>1 DEF Writing
  <2>4. HarmlessKept(k)
    BY <1>t, <1>g, <2>3, <2>w, HarmlessStays
  <2>5. OwnRow(k)'
    <3>1. Continues(k)
      BY <2>1 DEF Continues, LockHeld
    <3> QED
      BY <1>n, <3>1, OwnRowStays DEF DInv
  <2>6. RequestGone(k)'
    BY <1>t, <2>1, <2>w DEF DInv, RequestGone
  <2> QED
    BY <1>n, <1>g, <1>4, <2>4, <2>5, <2>6, TouchedGone
<1>2. CASE ~RemoveIfPendingResult(rows, req[k].row)
  <2>1. /\ req'[k].phase = "compensate" /\ req'[k].row = req[k].row /\ req'[k].prior = req[k].prior
        /\ req'[k].content = req[k].content /\ req'[k].conflict = req[k].conflict
        /\ req'[k].back = req[k].back
    BY <1>t, <1>2 DEF Retract, Request
  <2>2. /\ req[k].row \in DOMAIN rows
        /\ rows[req[k].row].status \notin {"pending", "pending_commit"}
    BY <1>2 DEF RemoveIfPendingResult, Removable
  <2>3. \A d \in Deletes(k) : rows[d].status = "replicated"
    <3>1. Clear(req[k].row) /\ Owns(k, req[k].row)
      BY <1>t, <2>2 DEF OrderInv, ClaimedInOrder, Owns
    <3>2. rows[req[k].row].key = k /\ rows[req[k].row].kind = "upsert"
      BY <2>2, <3>1 DEF DInv, OwnRow, OrderInv, OwnUpserts
    <3>3. \A d \in Deletes(k) : d <= req[k].row /\ d # req[k].row /\ d \in Nat
      BY <1>t, <3>2 DEF DInv, OwnRow, LockHeld, Deletes, IsTable
    <3>4. req[k].row \in Nat
      BY <1>t, <2>2 DEF IsTable
    <3> QED
      BY <3>1, <3>2, <3>3, <3>4 DEF Clear
  <2>w. ~Writing(k)'
    BY <2>1 DEF Writing
  <2>4. HarmlessKept(k)
    <3>1. \A i \in DOMAIN rows \cap DOMAIN rows' : Owns(k, i) => Harmless(i, k)'
      BY <2>1 DEF Owns, Harmless
    <3> QED
      BY <1>t, <1>g, <3>1, <2>w, HarmlessStays
  <2>5. OwnRow(k)'
    <3>1. Continues(k)
      BY <1>t, <2>1 DEF Continues, LockHeld
    <3> QED
      BY <1>n, <3>1, OwnRowStays DEF DInv
  <2>6. \A d \in Deletes(k)' : rows'[d].status = "replicated"
    BY <1>n, <2>3, DoneStays
  <2>7. RequestGone(k)'
    BY <1>t, <1>g, <1>3, <2>1, <2>w, <2>6 DEF DInv, RequestGone
  <2> QED
    BY <1>n, <1>g, <1>4, <2>4, <2>5, <2>7, TouchedGone
<1> QED
  BY <1>1, <1>2

\* A request that is done with its row asks nothing of the table.
LEMMA FreeOfRow ==
    ASSUME NEW k, req'[k].phase \in {"idle", "reread"}
    PROVE  OwnRow(k)' /\ ~Writing(k)'
  BY DEF OwnRow, Owns, LockHeld, Writing

\* The compensating row: a delete follows the refused write, or the row re-asserts
\* what the graph holds or held before.
LEMMA CompensateGone ==
    ASSUME OrderInv, Turn, HandStep, NEW k \in Keys, DInv(k), MarkElse(k), Compensate(k)
    PROVE  DInv(k)'
<1> DEFINE n == nextRow
           b == Back(k)
<1>t. /\ graph[k].rev \in Nat /\ req[k].prior.rev \in Nat /\ req[k].phase = "compensate"
      /\ b.rev \in Nat /\ req \in [Keys -> Request] /\ IsTable(rows)
      /\ graph'[k] = graph[k] /\ acked'[k] = acked[k] /\ maybe'[k] = maybe[k]
  BY NodeTyped DEF OrderInv, Inv, RequestInv, StoreInv, Compensate, ackVars, Back
<1>q. req'[k].phase \in {"idle", "reread"}
  BY <1>t DEF Compensate, Finish, NoRequest, Request
<1>w. OwnRow(k)' /\ ~Writing(k)'
  BY <1>q, FreeOfRow
<1>r. /\ n \in Nat /\ n \notin DOMAIN rows /\ DOMAIN rows' = DOMAIN rows \cup {n}
      /\ \A j \in DOMAIN rows : rows'[j] = rows[j] /\ j < n
  BY CompensateRecords DEF Recorded
<1>x. ASSUME b.content # NoContent
      PROVE  /\ rows'[n].kind = "upsert" /\ rows'[n].key = k
             /\ rows'[n].rev = b.rev /\ rows'[n].content = b.content
  <2>1. Recorded(UpsertSpec(k, b.rev, b.content, "pending"))
    BY <1>x, CompensateRecords
  <2> QED
    BY <2>1 DEF Recorded, Says, UpsertSpec
<1>y. ASSUME b.content = NoContent
      PROVE  n \in Deletes(k)' /\ rows'[n].status = "pending"
  <2>1. Recorded(DeleteSpec(k))
    BY <1>y, CompensateRecords
  <2> QED
    BY <2>1, <1>r DEF Recorded, Says, DeleteSpec, Deletes
<1>d. \A d \in Deletes(k) : rows[d].status = "replicated"
  BY <1>t DEF DInv, RequestGone
<1>g. Allowed(k)' = Allowed(k) /\ (Gone(k)' <=> Gone(k))
  BY <1>t DEF Allowed, Gone
<1>1. HarmlessKept(k)
  <2>1. ASSUME NEW i \in DOMAIN rows \cap DOMAIN rows', Upsert(i, k), Owns(k, i)
        PROVE  \/ Harmless(i, k)'
               \/ \E d \in Deletes(k)' : i < d /\ rows'[d].status = "pending"
    <3>1. rows[i].rev = req[k].prior.rev + 1 /\ rows[i].content = req[k].content /\ rows'[i] = rows[i]
      BY <1>r, <2>1 DEF DInv, OwnRow
    <3>2. \/ req[k].content \in Allowed(k)
          \/ req[k].prior.rev < graph[k].rev
          \/ ~req[k].conflict /\ req[k].back.content = NoContent
      BY <1>t DEF DInv, RequestGone
    <3>3. CASE req[k].content \in Allowed(k)
      BY <1>g, <3>1, <3>3 DEF Harmless
    <3>4. CASE req[k].prior.rev < graph[k].rev
      <4>1. Clear(i)
        BY <1>d, <2>1 DEF Clear, Upsert
      <4>2. Clear(i)'
        BY <2>1, <4>1, ClearStays
      <4> QED
        BY <1>t, <1>w, <3>1, <3>4, <4>2 DEF Behind, Harmless
    <3>5. CASE ~req[k].conflict /\ req[k].back.content = NoContent
      <4>1. n \in Deletes(k)' /\ rows'[n].status = "pending" /\ i < n
        BY <1>r, <1>y, <2>1, <3>5 DEF Back
      <4> QED
        BY <4>1
    <3> QED
      BY <3>2, <3>3, <3>4, <3>5
  <2> QED
    BY <1>t, <1>g, <1>w, <2>1, HarmlessStays
<1>2. ASSUME Gone(k) PROVE NewHarmless(k)
  <2> SUFFICES ASSUME NEW i \in DOMAIN rows' \ DOMAIN rows, Upsert(i, k)' PROVE Harmless(i, k)'
    BY DEF NewHarmless
  <2>0. i = n
    BY <1>r
  <2>1. b.content # NoContent
    BY <2>0, <1>y DEF Upsert, Deletes
  <2>x. /\ rows'[i].kind = "upsert" /\ rows'[i].key = k
        /\ rows'[i].rev = b.rev /\ rows'[i].content = b.content
    BY <1>x, <2>0, <2>1
  <2>2. CASE req[k].conflict
    <3>1. b = graph[k] /\ 0 < b.rev
      BY <1>t, <2>1, <2>2 DEF Back, DInv, RequestGone
    <3>2. Clear(i)'
      <4>1. ASSUME NEW d \in Deletes(k)' PROVE rows'[d].status = "replicated"
        BY <1>r, <1>d, <2>0, <2>x DEF Deletes
      <4> QED
        BY <2>x, <4>1 DEF Clear
    <3> QED
      BY <1>t, <1>w, <2>x, <3>1, <3>2 DEF Behind, Harmless
  <2>3. CASE ~req[k].conflict
    <3>1. ~Coming(k)
      BY <1>d DEF Coming
    <3>2. b.content \in Allowed(k)
      BY <1>2, <1>t, <2>1, <2>3, <3>1 DEF DInv, RequestGone, Back
    <3> QED
      BY <2>x, <1>g, <3>2 DEF Harmless
  <2> QED
    BY <2>2, <2>3
<1>3. ASSUME Gone(k) PROVE NodeGone(k)'
  <2>1. ASSUME Coming(k) PROVE Coming(k)'
    BY <2>1, ComingStays
  <2> QED
    BY <1>t, <1>g, <1>3, <2>1 DEF DInv, NodeGone
<1>4. RequestGone(k)'
  BY <1>t, <1>q, <1>w DEF DInv, RequestGone
<1> QED
  BY <1>g, <1>w, <1>1, <1>2, <1>3, <1>4, TouchedGone

\* A write begins: its row is its own, and the youngest of its node.
LEMMA BeginGone ==
    ASSUME OrderInv, Turn, HandStep, NEW k \in Keys, DInv(k), MarkElse(k), NEW c \in Contents,
           UpsertRecord(k, c) \/ (Reread(k) /\ c = req[k].content)
    PROVE  DInv(k)'
<1> DEFINE n == nextRow
<1>t. /\ graph[k].rev \in Nat /\ req[k].phase \in {"idle", "reread"} /\ req \in [Keys -> Request]
      /\ graph'[k] = graph[k] /\ acked'[k] = acked[k] /\ maybe'[k] = maybe[k]
  BY NodeTyped DEF OrderInv, Inv, RequestInv, UpsertRecord, Reread, LockHeld, ackVars
<1>q. /\ req'[k].phase = "commit" /\ req'[k].content = c /\ req'[k].prior = graph[k]
      /\ req'[k].row = n /\ ~req'[k].conflict
  <2>1. CASE UpsertRecord(k, c)
    BY <1>t, <2>1 DEF UpsertRecord, NoRequest
  <2>2. CASE Reread(k) /\ c = req[k].content
    BY <1>t, <2>2 DEF Reread, Request
  <2> QED
    BY <2>1, <2>2
<1>r. /\ n \in Nat /\ n \notin DOMAIN rows /\ DOMAIN rows' = DOMAIN rows \cup {n}
      /\ \A j \in DOMAIN rows : rows'[j] = rows[j] /\ j < n
      /\ rows'[n].key = k /\ rows'[n].rev = graph[k].rev + 1 /\ rows'[n].content = c
  BY BeginRecords DEF Recorded, Says, UpsertSpec
<1>g. Allowed(k)' = Allowed(k) /\ (Gone(k)' <=> Gone(k)) /\ \A i : ~Owns(k, i)
  BY <1>t DEF Allowed, Gone, Owns
<1>c. ASSUME Coming(k) PROVE Coming(k)'
  BY <1>c, ComingStays
<1>1. HarmlessKept(k)
  BY <1>t, <1>q, <1>g, HarmlessStays
<1>2. NewHarmless(k)
  BY <1>q, <1>r DEF NewHarmless, Harmless, Owns
<1>3. ASSUME Gone(k) PROVE graph[k].content \in Allowed(k)' \/ Coming(k)'
  BY <1>t, <1>g, <1>c, <1>3 DEF DInv, NodeGone
<1>4. Gone(k) => NodeGone(k)'
  BY <1>t, <1>3 DEF NodeGone
<1>5. OwnRow(k)'
  <2>1. \A i \in DOMAIN rows' : i <= n
    BY <1>r DEF OrderInv, Inv, StoreInv, IsTable
  <2> QED
    BY <1>q, <1>r, <2>1 DEF OwnRow, Owns
<1>6. RequestGone(k)'
  BY <1>t, <1>q, <1>g, <1>3 DEF DInv, RequestGone
<1> QED
  BY <1>g, <1>1, <1>2, <1>4, <1>5, <1>6, TouchedGone

\* A delete begins: its row is the youngest of its node, and not in hand.
LEMMA DeleteBeginGone ==
    ASSUME OrderInv, Turn, HandStep, NEW k \in Keys, DInv(k), UNCHANGED <<pc, cur>>, DeleteRecord(k)
    PROVE  DInv(k)'
<1> DEFINE n == nextRow
<1>t. /\ graph[k].rev \in Nat /\ req[k].phase = "idle" /\ req \in [Keys -> Request]
      /\ graph'[k] = graph[k] /\ acked'[k] = acked[k] /\ maybe'[k] = maybe[k]
  BY NodeTyped DEF OrderInv, Inv, RequestInv, DeleteRecord, LockHeld, ackVars
<1>q. req'[k].phase = "delete" /\ req'[k].row = n
  BY <1>t DEF DeleteRecord, NoRequest
<1>r. /\ n \in Nat /\ n \notin DOMAIN rows /\ DOMAIN rows' = DOMAIN rows \cup {n}
      /\ \A j \in DOMAIN rows : rows'[j] = rows[j] /\ j < n
      /\ rows'[n].key = k /\ rows'[n].kind = "delete" /\ rows'[n].status = "pending"
  BY DeleteRecords DEF Recorded, Says, DeleteSpec
<1>g. /\ Allowed(k)' = Allowed(k) /\ (Gone(k)' <=> Gone(k)) /\ ~Writing(k)'
      /\ \A i : ~Owns(k, i) /\ ~Owns(k, i)'
  BY <1>t, <1>q DEF Allowed, Gone, Writing, Owns
<1>1. HarmlessKept(k)
  BY <1>t, <1>g, HarmlessStays
<1>2. NewHarmless(k)
  BY <1>r DEF NewHarmless, Upsert
<1>3. ASSUME Gone(k) PROVE NodeGone(k)'
  <2>1. MarkElse(k)
    BY DEF MarkElse
  <2>2. ASSUME Coming(k) PROVE Coming(k)'
    BY <2>1, <2>2, ComingStays
  <2> QED
    BY <1>t, <1>g, <1>3, <2>2 DEF DInv, NodeGone
<1>5. OwnRow(k)'
  <2>1. \A i \in DOMAIN rows' : i <= n
    BY <1>r DEF OrderInv, Inv, StoreInv, IsTable
  <2>2. pc = "mark" => cur # n
    BY <1>r DEF OrderInv, Inv, ClaimInv, DispatchOwnsRow, Replaying
  <2> QED
    BY <1>q, <1>r, <1>g, <2>1, <2>2 DEF OwnRow, Deletes
<1>6. RequestGone(k)'
  BY <1>t, <1>q, <1>g DEF DInv, RequestGone
<1> QED
  BY <1>g, <1>1, <1>2, <1>3, <1>5, <1>6, TouchedGone

\* The delete is acknowledged: its row, which is not done, follows every other row
\* of the node.
LEMMA DeleteDoneGone ==
    ASSUME OrderInv, Turn, HandStep, NEW k \in Keys, DInv(k), UNCHANGED <<pc, cur>>, DeleteApply(k)
    PROVE  DInv(k)'
<1> DEFINE d == req[k].row
<1>t. /\ req[k].phase = "delete" /\ rows' = rows /\ req'[k].phase = "idle"
      /\ graph'[k] = N!Absent /\ acked'[k] = NoContent
  BY DEF OrderInv, Inv, RequestInv, DeleteApply, Finish, NoRequest, Acknowledge, storeVars
<1>1. /\ d \in Deletes(k) /\ rows[d].status # "replicated" /\ ~(pc = "mark" /\ cur = d)
      /\ d \in DOMAIN rows /\ rows[d].kind = "delete"
      /\ \A i \in DOMAIN rows : rows[i].key = k => i <= d
  BY <1>t DEF DInv, OwnRow, LockHeld, Deletes
<1>2. \A i : Upsert(i, k) => i < d
  BY <1>1 DEF Upsert, OrderInv, Inv, StoreInv, IsTable
<1>3. d \in Deletes(k)' /\ \A i : Upsert(i, k)' <=> Upsert(i, k)
  BY <1>t, <1>1 DEF Deletes, Upsert
<1>4. RowsGone(k)'
  BY <1>2, <1>3 DEF RowsGone
<1>5. HandGone(k)'
  <2>1. ASSUME pc \in {"claim", "dispatch"}, Upsert(cur, k) PROVE rows[d].status = "pending" /\ cur < d
    <3>1. cur < d /\ cur # d
      BY <1>2, <1>1, <2>1 DEF Upsert
    <3>2. rows[d].status # "replicating"
      BY <1>1, <2>1, <3>1 DEF OrderInv, Inv, ClaimInv, NoOrphanClaim, WithStatus
    <3> QED
      BY <1>1, <3>1, <3>2 DEF OrderInv, RowsSimple
  <2> QED
    BY <1>t, <1>3, <2>1 DEF HandGone, Upsert
<1>6. NodeGone(k)'
  BY <1>t DEF NodeGone, Allowed, N!Absent
<1>7. OwnRow(k)' /\ RequestGone(k)'
  BY <1>t, FreeOfRow DEF RequestGone, N!Absent
<1> QED
  BY <1>4, <1>5, <1>6, <1>7 DEF DInv

\* The write is acknowledged: the node is not gone.
LEMMA FanoutGone ==
    ASSUME OrderInv, NEW k \in Keys, DInv(k), FanoutDone(k)
    PROVE  DInv(k)'
<1>1. /\ req'[k].phase = "idle" /\ graph'[k] = graph[k]
      /\ acked'[k] = req[k].content /\ req[k].content # NoContent
  BY NodeTyped DEF OrderInv, Inv, RequestInv, FanoutDone, Finish, NoRequest, Acknowledge
<1>2. OwnRow(k)' /\ ~Writing(k)' /\ ~Gone(k)'
  BY <1>1, FreeOfRow DEF Gone
<1>3. RequestGone(k)'
  BY <1>1, <1>2 DEF DInv, RequestGone
<1> QED
  BY <1>2, <1>3 DEF DInv

\* A write nobody waited for lands: its caller was told neither success nor failure.
LEMMA LateGone ==
    ASSUME OrderInv, Turn, HandStep, NEW k \in Keys, DInv(k), MarkElse(k), rows' = rows,
           req'[k] = req[k], acked'[k] = acked[k], maybe[k] \subseteq maybe'[k],
           graph'[k].rev = graph[k].rev + 1, graph'[k].content # NoContent,
           graph'[k].content \in maybe'[k]
    PROVE  DInv(k)'
<1>t. graph[k].rev \in Nat /\ req[k].prior.rev \in Nat
  BY NodeTyped DEF OrderInv
<1>1. Allowed(k) \subseteq Allowed(k)' /\ (Gone(k)' <=> Gone(k)) /\ (Writing(k)' <=> Writing(k))
  BY DEF Allowed, Gone, Writing
<1>n. NoNew(k) /\ NewHarmless(k)
  BY SameTable, SameTableNoNew
<1>2. HarmlessKept(k)
  <2>1. \A i \in DOMAIN rows \cap DOMAIN rows' : Owns(k, i) => Harmless(i, k)'
    BY DEF Owns, Harmless
  <2> QED
    BY <1>t, <1>1, <2>1, HarmlessStays
<1>3. ASSUME Coming(k) PROVE Coming(k)'
  BY <1>3, ComingStays
<1>4. NodeGone(k)'
  BY DEF NodeGone, Allowed
<1>5. OwnRow(k)'
  <2>1. Continues(k)
    BY DEF Continues, LockHeld
  <2> QED
    BY <1>n, <2>1, OwnRowStays DEF DInv
<1>6. RequestGone(k)'
  <2>1. req[k].phase = "compensate" => \A d \in Deletes(k)' : rows'[d].status = "replicated"
    BY <1>n, DoneStays DEF DInv, RequestGone
  <2> QED
    BY <1>t, <1>1, <1>3, <2>1 DEF DInv, RequestGone
<1> QED
  BY <1>1, <1>n, <1>2, <1>4, <1>5, <1>6, TouchedGone

-----------------------------------------------------------------------------
(* The replay. *)

\* A delete is replayed: the rows that the graph was past are older than it.
LEMMA DeleteReplayed ==
    ASSUME OrderInv, NEW k \in Keys, DInv(k), rows' = rows, pc' = "mark",
           cur \in Deletes(k), rows[cur].status = "replicating", req[k].phase = "idle",
           req'[k] = req[k], acked'[k] = acked[k], maybe'[k] = maybe[k], graph'[k] = N!Absent
    PROVE  DInv(k)'
<1>t. IsTable(rows) /\ cur \in DOMAIN rows /\ rows[cur].kind = "delete"
  BY DEF OrderInv, Inv, StoreInv, Deletes
<1>1. ASSUME Gone(k) PROVE RowsGone(k)'
  <2>1. ASSUME NEW i \in DOMAIN rows, Upsert(i, k), Unfinished(rows[i])
        PROVE  rows[i].content \in Allowed(k) \/ \E d \in Deletes(k) : i < d
    <3>1. CASE Behind(i, k)
      <4>1. ~(cur < i) /\ i # cur
        BY <1>t, <2>1, <3>1 DEF Behind, Clear, Upsert
      <4>2. i < cur
        BY <1>t, <4>1 DEF IsTable
      <4> QED
        BY <4>2
    <3> QED
      BY <1>1, <2>1, <3>1 DEF DInv, RowsGone, Harmless, Owns
  <2> QED
    BY <2>1 DEF RowsGone, Upsert, Unfinished, Harmless, Allowed, Deletes
<1>2. HandGone(k)' /\ (Gone(k)' <=> Gone(k))
  BY DEF HandGone, Gone
<1>3. ASSUME Gone(k) PROVE NodeGone(k)'
  BY <1>3 DEF Gone, NodeGone, Allowed, N!Absent
<1>4. OwnRow(k)' /\ ~Writing(k)'
  BY FreeOfRow
<1>5. RequestGone(k)'
  BY <1>4 DEF RequestGone, N!Absent
<1> QED
  BY <1>1, <1>2, <1>3, <1>4, <1>5 DEF DInv

\* An upsert is replayed: what it brings back is allowed, or is to be deleted.
LEMMA UpsertReplayed ==
    ASSUME OrderInv, Turn, HandStep, NEW k \in Keys, DInv(k), UNCHANGED <<rows, cur>>,
           pc = "dispatch", pc' = "mark", Upsert(cur, k), req[k].phase = "idle",
           req'[k] = req[k], acked'[k] = acked[k], maybe'[k] = maybe[k],
           graph'[k] = N!ReplayUpsert(graph[k], rows[cur].rev, rows[cur].content)
    PROVE  DInv(k)'
<1>t. /\ graph[k].rev \in Nat /\ rows[cur].rev \in Nat /\ rows[cur].content # NoContent
      /\ rows[cur].kind = "upsert"
  BY NodeTyped DEF Upsert, OrderInv, Inv, StoreInv, IsTable, Row, RowsSimple
<1>g. \/ graph'[k] = graph[k]
      \/ /\ graph'[k].rev \in Nat /\ graph[k].rev < graph'[k].rev
         /\ graph'[k].content = rows[cur].content
         /\ rows[cur].rev = 0 \/ graph[k].rev < rows[cur].rev
  BY <1>t DEF N!ReplayUpsert, N!UpsertNode, N!ReplayNodeAtRevision
<1>1. /\ Allowed(k)' = Allowed(k) /\ (Gone(k)' <=> Gone(k)) /\ ~Writing(k)'
      /\ \A i : ~Owns(k, i)
  BY DEF Allowed, Gone, Writing, Owns
<1>n. NoNew(k) /\ NewHarmless(k)
  BY SameTable, SameTableNoNew
<1>2. HarmlessKept(k)
  BY <1>t, <1>g, <1>1, HarmlessStays
<1>d. ASSUME NEW d \in Deletes(k), rows[d].status # "replicated" PROVE Coming(k)'
  <2>1. d # cur /\ d \in Deletes(k)'
    BY <1>t DEF Deletes
  <2> QED
    BY <1>d, <2>1 DEF Coming
<1>3. ASSUME Gone(k) PROVE NodeGone(k)'
  <2>1. CASE graph'[k] = graph[k]
    BY <1>1, <1>3, <1>d, <2>1 DEF DInv, NodeGone, Coming
  <2>2. CASE graph'[k] # graph[k]
    <3>1. \/ rows[cur].content \in Allowed(k)
          \/ \E d \in Deletes(k) : rows[d].status = "pending"
      BY <1>t, <1>g, <1>1, <1>3, <2>2 DEF DInv, HandGone, Harmless, Behind
    <3> QED
      BY <1>g, <1>1, <1>d, <2>2, <3>1 DEF NodeGone
  <2> QED
    BY <2>1, <2>2
<1>4. OwnRow(k)'
  BY FreeOfRow
<1>5. RequestGone(k)'
  BY <1>t, <1>g, <1>1 DEF DInv, RequestGone
<1> QED
  BY <1>1, <1>n, <1>2, <1>3, <1>4, <1>5, TouchedGone

\* The replay of the row in hand.
LEMMA DispatchGone ==
    ASSUME ReplaysSucceed, GoneInv, Turn, HandStep, NEW ok \in BOOLEAN, NEW applied \in BOOLEAN,
           Dispatch(ok, applied)
    PROVE  \A x \in Keys : DInv(x)'
<1>i. OrderInv /\ ok /\ applied /\ \A x \in Keys : DInv(x)
  BY NoFailures DEF GoneInv
<1>p. /\ pc = "dispatch" /\ pc' = "mark" /\ UNCHANGED <<rows, cur, req, acked, maybe>>
      /\ ~LockHeld(entry.key) /\ graph' = [graph EXCEPT ![entry.key] = N!Replay(@, entry)]
  BY <1>i DEF Dispatch, Goto, storeVars, ackVars
<1>c. /\ cur \in DOMAIN batch /\ cur \in DOMAIN rows /\ rows[cur].status = "replicating"
      /\ entry.key \in Keys /\ graph \in [Keys -> N!Node]
  BY <1>i, <1>p DEF OrderInv, Inv, TickInv, RequestInv, DispatchOwnsRow, ClaimInv, Replaying, entry,
                    IsTable, Row
<1>s. Says(entry, rows[cur])
  BY <1>i, <1>c DEF OrderInv, SnapshotSays, entry
<1>k. PICK k \in Keys : k = entry.key
  BY <1>c
<1>g. /\ graph'[k] = N!Replay(graph[k], entry) /\ req[k].phase = "idle" /\ rows[cur].key = k
      /\ \A x \in Keys : x # k => graph'[x] = graph[x]
  BY <1>p, <1>c, <1>s, <1>k DEF LockHeld, Says
<1>1. ASSUME NEW x \in Keys, x # k PROVE DInv(x)'
  <2>1. SameNode(x) /\ NoNew(x) /\ MarkElse(x)
    BY <1>p, <1>c, <1>g, <1>1 DEF SameNode, NoNew, MarkElse
  <2> QED
    BY <1>i, <2>1, ElsewhereGone
<1>2. DInv(k)'
  <2>1. CASE rows[cur].kind = "delete"
    <3>1. graph'[k] = N!Absent /\ cur \in Deletes(k)
      BY <1>c, <1>s, <1>g, <2>1 DEF N!Replay, Says, Deletes
    <3> QED
      BY <1>i, <1>p, <1>c, <1>g, <3>1, DeleteReplayed
  <2>2. CASE rows[cur].kind # "delete"
    <3>1. Upsert(cur, k)
      BY <1>i, <1>c, <1>g, <2>2 DEF Upsert, OrderInv, Inv, StoreInv, IsTable, Row, Kinds
    <3>2. graph'[k] = N!ReplayUpsert(graph[k], rows[cur].rev, rows[cur].content)
      BY <1>s, <1>g, <2>2 DEF N!Replay, Says
    <3> QED
      BY <1>i, <1>p, <1>g, <3>1, <3>2, UpsertReplayed
  <2> QED
    BY <2>1, <2>2
<1> QED
  BY <1>1, <1>2

-----------------------------------------------------------------------------
(* GoneInv is inductive. *)

\* One step of a request, for its own node.
LEMMA RequestKeepsGone ==
    ASSUME OrderInv, Turn, HandStep, NEW k \in Keys, DInv(k), UNCHANGED <<pc, cur>>,
           Client(k) \/ RequestStep(k)
    PROVE  DInv(k)'
<1>t. /\ graph \in [Keys -> N!Node] /\ req \in [Keys -> Request] /\ IsTable(rows)
      /\ acked \in [Keys -> Contents \cup {NoContent}] /\ DOMAIN maybe = Keys
  BY DEF OrderInv, Inv, RequestInv, StoreInv
<1>m. MarkElse(k)
  BY DEF MarkElse
<1>1. ASSUME NEW c \in Contents, UpsertRecord(k, c) PROVE DInv(k)'
  BY <1>m, <1>1, BeginGone
<1>2. CASE Reread(k)
  <2>1. req[k].content \in Contents
    BY <1>2, NodeTyped DEF OrderInv, Reread
  <2> QED
    BY <1>m, <1>2, <2>1, BeginGone
<1>3. CASE UpsertCommit(k) \/ FanoutFails(k) \/ \E b \in BOOLEAN : UpsertThrows(k, b) \/ UpsertFlip(k, b)
  <2>1. /\ Writing(k) /\ req'[k].phase \in {"flip", "fanout", "undo"}
        /\ req'[k].row = req[k].row /\ req'[k].prior = req[k].prior
        /\ req'[k].content = req[k].content /\ req'[k].conflict = req[k].conflict
        /\ acked'[k] = acked[k] /\ maybe'[k] = maybe[k]
    BY <1>t, <1>3 DEF UpsertCommit, FanoutFails, UpsertThrows, UpsertFlip, Writing, Request, ackVars
  <2>2. \/ graph'[k] = graph[k]
        \/ graph'[k].rev = graph[k].rev + 1 /\ graph'[k].content = req[k].content
    BY <1>t, <1>3 DEF UpsertCommit, FanoutFails, UpsertThrows, UpsertFlip, N!CanCommitAt, N!CommitAt
  <2>3. rows' = rows \/ rows' = MarkCommitted(rows, req[k].row)
    BY <1>3 DEF UpsertCommit, FanoutFails, UpsertThrows, UpsertFlip, storeVars
  <2>4. SameRows(rows, rows')
    BY <1>t, <2>3, SameTable, StatementsSay
  <2> QED
    BY <1>m, <2>1, <2>2, <2>4, ForwardGone
<1>4. CASE UpsertUnknown(k) \/ GiveUp(k) \/ DeleteThrows(k)
  <2>1. /\ rows' = rows /\ req'[k].phase = "idle" /\ graph'[k] = graph[k]
        /\ acked'[k] = acked[k] /\ maybe[k] \subseteq maybe'[k]
        /\ req[k].phase \notin {"idle", "reread", "delete"} => req[k].content \in maybe'[k]
    BY <1>t, <1>4 DEF UpsertUnknown, GiveUp, DeleteThrows, Finish, NoRequest, LeaveOpen, storeVars,
                      ackVars
  <2> QED
    BY <1>m, <2>1, SameTable, LetGoGone
<1> QED
  BY <1>m, <1>1, <1>2, <1>3, <1>4, ConflictGone, UndoGone, RetractGone, CompensateGone,
     DeleteBeginGone, DeleteDoneGone, FanoutGone DEF Client, RequestStep

\* One step of a request, for another node.
LEMMA RequestElsewhere ==
    ASSUME OrderInv, NEW k \in Keys, Client(k) \/ RequestStep(k)
    PROVE  \A x \in Keys : x # k => SameNode(x) /\ NoNew(x)
<1>t. /\ graph \in [Keys -> N!Node] /\ req \in [Keys -> Request] /\ IsTable(rows)
      /\ acked \in [Keys -> Contents \cup {NoContent}]
      /\ maybe \in [Keys -> SUBSET (Contents \cup {NoContent})]
  BY DEF OrderInv, Inv, RequestInv, StoreInv
<1>1. ASSUME NEW x \in Keys, x # k PROVE SameNode(x)
  BY <1>t, <1>1 DEF Client, RequestStep, UpsertRecord, DeleteRecord, UpsertCommit, UpsertConflict,
     UpsertUnknown, UpsertThrows, UpsertFlip, FanoutDone, FanoutFails, Undo, UndoFails, Retract,
     Compensate, Reread, GiveUp, DeleteApply, DeleteThrows, Finish, Acknowledge, LeaveOpen, ackVars,
     SameNode
<1>r. ASSUME NEW spec, Recorded(spec), spec.key = k, NEW x \in Keys, x # k PROVE NoNew(x)
  BY <1>r DEF Recorded, Says, NoNew
<1>2. ASSUME NEW c \in Contents, UpsertRecord(k, c) \/ (Reread(k) /\ c = req[k].content)
      PROVE  \A x \in Keys : x # k => NoNew(x)
  <2>1. UpsertSpec(k, graph[k].rev + 1, c, "pending_commit").key = k
    BY DEF UpsertSpec
  <2> QED
    BY <1>2, <1>r, <2>1, BeginRecords
<1>3. CASE Reread(k)
  <2>1. req[k].content \in Contents
    BY <1>3, NodeTyped DEF OrderInv, Reread
  <2>2. \A x \in Keys : x # k => NoNew(x)
    BY <1>2, <1>3, <2>1
  <2> QED
    BY <1>1, <2>2
<1>4. ASSUME DeleteRecord(k) \/ Compensate(k) PROVE \A x \in Keys : x # k => NoNew(x)
  <2>1. DeleteSpec(k).key = k /\ UpsertSpec(k, Back(k).rev, Back(k).content, "pending").key = k
    BY DEF DeleteSpec, UpsertSpec
  <2> QED
    BY <1>4, <1>r, <2>1, DeleteRecords, CompensateRecords
<1>5. ASSUME \/ UpsertCommit(k) \/ UpsertConflict(k) \/ UpsertUnknown(k)
             \/ (\E b \in BOOLEAN : UpsertThrows(k, b) \/ UpsertFlip(k, b)) \/ FanoutDone(k)
             \/ FanoutFails(k) \/ Undo(k) \/ UndoFails(k) \/ Retract(k) \/ GiveUp(k)
             \/ DeleteApply(k) \/ DeleteThrows(k)
      PROVE  \A x \in Keys : x # k => NoNew(x)
  <2>1. \/ rows' = rows \/ rows' = MarkCommitted(rows, req[k].row)
        \/ rows' = RemoveIfPending(rows, req[k].row)
    BY <1>5 DEF UpsertCommit, UpsertConflict, UpsertUnknown, UpsertThrows, UpsertFlip, FanoutDone,
                FanoutFails, Undo, UndoFails, Retract, GiveUp, DeleteApply, DeleteThrows, storeVars
  <2>2. SameRows(rows, rows')
    BY <1>t, <2>1, SameTable, StatementsSay, RemovalSays
  <2> QED
    BY <2>2, SameTableNoNew
<1> QED
  BY <1>1, <1>2, <1>3, <1>4, <1>5 DEF Client, RequestStep

\* Every step.
LEMMA NextKeepsGone ==
    ASSUME ReplaysSucceed, GoneInv, [Next]_vars
    PROVE  GoneInv'
<1>i. OrderInv /\ OrderInv' /\ Turn /\ HandStep /\ \A x \in Keys : DInv(x)
  BY NextKeepsOrder, HandMoves DEF GoneInv
<1> SUFFICES \A x \in Keys : DInv(x)'
  BY <1>i DEF GoneInv
<1>t. /\ graph \in [Keys -> N!Node] /\ req \in [Keys -> Request]
      /\ acked \in [Keys -> Contents \cup {NoContent}]
      /\ maybe \in [Keys -> SUBSET (Contents \cup {NoContent})]
  BY <1>i DEF OrderInv, Inv, RequestInv
<1>m. ASSUME UNCHANGED <<pc, cur>>, NEW x \in Keys PROVE MarkElse(x)
  BY <1>m DEF MarkElse
<1>1. ASSUME NEW k \in Keys, Client(k) \/ RequestStep(k), NEW x \in Keys PROVE DInv(x)'
  <2>1. UNCHANGED <<pc, cur>>
    BY <1>1 DEF Client, RequestStep, UpsertRecord, DeleteRecord, UpsertCommit, UpsertConflict,
                UpsertUnknown, UpsertThrows, UpsertFlip, FanoutDone, FanoutFails, Undo, UndoFails,
                Retract, Compensate, Reread, GiveUp, DeleteApply, DeleteThrows, replVars
  <2>2. CASE x = k
    BY <1>i, <1>1, <2>1, <2>2, RequestKeepsGone
  <2>3. CASE x # k
    BY <1>i, <1>m, <1>1, <2>1, <2>3, RequestElsewhere, ElsewhereGone
  <2> QED
    BY <2>2, <2>3
<1>2. ASSUME NEW h \in hung, HungLands(h) \/ HungLost(h), NEW x \in Keys PROVE DInv(x)'
  <2>1. UNCHANGED <<rows, pc, cur, req>> /\ MarkElse(x) /\ NoNew(x)
    BY <1>m, <1>2 DEF HungLands, HungLost, storeVars, replVars, NoNew
  <2>2. CASE HungLost(h) \/ x # h.key
    <3>1. SameNode(x)
      BY <1>t, <1>2, <2>1, <2>2 DEF HungLands, HungLost, LeaveOpen, ackVars, SameNode
    <3> QED
      BY <1>i, <2>1, <3>1, ElsewhereGone
  <2>3. CASE HungLands(h) /\ x = h.key
    <3>1. h.content \in Contents /\ h.content # NoContent
      BY <1>i, HungTyped, ContentsAssumption DEF OrderInv
    <3>2. /\ graph'[x].rev = graph[x].rev + 1 /\ graph'[x].content = h.content
          /\ acked'[x] = acked[x] /\ maybe'[x] = maybe[x] \cup {h.content}
      BY <1>t, <2>3 DEF HungLands, LeaveOpen, N!CanCommitAt, N!CommitAt
    <3> QED
      BY <1>i, <2>1, <3>1, <3>2, LateGone
  <2> QED
    BY <1>2, <2>2, <2>3
<1>3. ASSUME NEW ok \in BOOLEAN, NEW applied \in BOOLEAN, Dispatch(ok, applied)
      PROVE  \A x \in Keys : DInv(x)'
  BY <1>i, <1>3, DispatchGone
<1>4. ASSUME Crash, NEW x \in Keys PROVE DInv(x)'
  <2>1. /\ rows' = rows /\ req'[x].phase = "idle" /\ graph'[x] = graph[x] /\ acked'[x] = acked[x]
        /\ maybe[x] \subseteq maybe'[x]
        /\ req[x].phase \notin {"idle", "reread", "delete"} => req[x].content \in maybe'[x]
    BY <1>4 DEF Crash, NoRequest, LockHeld, storeVars
  <2>2. MarkElse(x)
    BY <1>4 DEF Crash, MarkElse
  <2> QED
    BY <1>i, <2>1, <2>2, SameTable, LetGoGone
<1>5. ASSUME (ReplicatorStep /\ ~\E ok, applied \in BOOLEAN : Dispatch(ok, applied)) \/ Recover
      PROVE  \A x \in Keys : DInv(x)'
  <2>1. UNCHANGED <<graph, req, hung, acked, maybe>>
    BY <1>5 DEF ReplicatorStep, TickStart, TickNext, TickEnd, SkipSuperseded, Claim,
       DispatchTimesOut, ReleaseDeferred, MarkReplicated, SettleCounted, SettleTransient,
       HealStart, HealProbe, HealMark, HealEnd, SweepStart, SweepRead, SweepUnreadable,
       SweepAct, SweepEnd, Prune, Recover, sysVars, ackVars
  <2>2. SameRows(rows, rows')
    BY <1>i, <1>5, ReplicatorSays DEF OrderInv
  <2>3. \A x \in Keys : SameNode(x) /\ NoNew(x)
    BY <2>1, <2>2, SameTableNoNew DEF SameNode
  <2>4. ASSUME pc' = "mark" PROVE cur' = cur /\ pc = "mark"
    <3>1. ~\E ok, applied \in BOOLEAN : Dispatch(ok, applied)
      BY <1>5, <2>4 DEF Recover, Goto
    <3> QED
      BY <1>i, <2>4, <3>1 DEF HandStep
  <2>5. \A x \in Keys : MarkElse(x)
    BY <2>4 DEF MarkElse
  <2> QED
    BY <1>i, <2>3, <2>5, ElsewhereGone
<1>6. ASSUME UNCHANGED vars PROVE \A x \in Keys : DInv(x)'
  <2>1. UNCHANGED <<graph, req, acked, maybe, rows, pc, cur>>
    BY <1>6 DEF vars, storeVars, ackVars, replVars
  <2>2. \A x \in Keys : SameNode(x) /\ NoNew(x) /\ MarkElse(x)
    BY <1>m, <2>1 DEF SameNode, NoNew
  <2> QED
    BY <1>i, <2>2, ElsewhereGone
<1> QED
  BY <1>i, <1>1, <1>2, <1>3, <1>4, <1>5, <1>6, NoFailures DEF Next, LateWrite

\* A fresh daemon: no rows, no requests, and every node is as it was acknowledged.
LEMMA InitGone == Init => GoneInv
<1> SUFFICES ASSUME Init PROVE GoneInv
  OBVIOUS
<1>1. Inv /\ DOMAIN rows = {} /\ DOMAIN batch = {} /\ nextRow = 1
  BY InitInv DEF Init, NoRows
<1>2. pc \notin {"settle", "late", "probe", "healmark", "skip", "defer", "read", "act", "claim", "dispatch"}
  BY DEF Init
<1>3. \A k \in Keys : req[k].row = 0 /\ req[k].phase = "idle"
  BY DEF Init, NoRequest
<1>4. OrderInv
  BY <1>1, <1>2, <1>3
  DEF OrderInv, RowsSimple, SnapshotSays, SnapshotInOrder, ClaimedInOrder, LoopSimple, OwnUpserts
<1>5. ASSUME NEW k \in Keys PROVE DInv(k)
  <2>1. acked[k] = graph[k].content
    BY DEF Init
  <2>2. graph[k] = N!Absent \/ (graph[k].rev = 1 /\ graph[k].content \in Contents)
    BY DEF Init
  <2>3. graph[k].rev = 0 <=> graph[k].content = NoContent
    BY <2>2, ContentsAssumption DEF N!Absent
  <2>4. RowsGone(k) /\ HandGone(k) /\ NodeGone(k)
    BY <1>1, <1>2, <2>1 DEF RowsGone, HandGone, NodeGone, Allowed
  <2> QED
    BY <1>1, <1>3, <2>3, <2>4 DEF DInv, OwnRow, Owns, LockHeld, RequestGone, Writing
<1> QED
  BY <1>4, <1>5 DEF GoneInv

\* A node whose delete was acknowledged stays away once the outbox is done with it, or
\* holds a write whose caller was told neither success nor failure: for any number of
\* nodes, rows, crashes, timeouts, late writes, lost flips, failed rollbacks and pruned
\* rows, no upsert that was recorded before the delete, no refused one and no claim that
\* passed the newer-delete guard before the delete was recorded brings the node back for
\* good (deleteNodeEverywhere, its row recorded ahead of the graph delete, the
\* supersession guards, the replay in the order of the rows).  It is needed that replays
\* succeed: a delete row that failed once is overtaken by the younger rows of its node.
THEOREM DeletesFinal == ASSUME ReplaysSucceed PROVE Spec => []DeleteFinal
<1>1. Init => GoneInv
  BY InitGone
<1>2. GoneInv /\ [Next]_vars => GoneInv'
  BY NextKeepsGone
<1>3. GoneInv => DeleteFinal
  <2> SUFFICES ASSUME GoneInv, NEW k \in Keys, Quiet(k), Gone(k) PROVE Agreed(k)
    BY DEF DeleteFinal, Settled, Gone
  <2>1. RowsSimple /\ NodeGone(k) /\ req[k].phase = "idle"
    BY DEF GoneInv, OrderInv, DInv, Quiet, LockHeld
  <2>2. ~Coming(k)
    BY <2>1 DEF Coming, Deletes, RowsSimple, Quiet, Unfinished
  <2> QED
    BY <2>1, <2>2 DEF NodeGone, Allowed, Agreed
<1> QED
  BY <1>1, <1>2, <1>3, PTL DEF Spec

=============================================================================
