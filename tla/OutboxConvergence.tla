-------------------------- MODULE OutboxConvergence --------------------------
(***************************************************************************)
(* Convergence of the outbox without deletes: for any number of nodes,     *)
(* contents, rows, crashes and retries, and any of the other faults, the   *)
(* graph holds the last acknowledged write of a node, or one whose outcome *)
(* nobody was told, whenever no request holds the node's lock.             *)
(*                                                                         *)
(* Without deletes the revision of a node only goes up, and a row may      *)
(* write only what comes next: no row is more than one revision ahead of   *)
(* its node, and one that is carries a content that is allowed to win, or  *)
(* belongs to the request that is about to commit it.                      *)
(***************************************************************************)
EXTENDS OutboxProofs

\* Nothing takes a node away: no deletes, no rollback of a create, and no rollback
\* that itself fails (its compensating row has no revision).
UpsertsOnly ==
    /\ "delete" \notin Operations
    /\ "undo" \notin Faults
    /\ "create" \notin Operations \/ Faults \cap {"commit", "fanout"} = {}

-----------------------------------------------------------------------------
(* The inductive invariant. *)

Allowed(k) == {acked[k]} \cup maybe[k]

\* The request on k is between its row and its acknowledgement.
Writing(k) == req[k].phase \in {"commit", "flip", "fanout", "undo"}

\* Its write is in the graph and nothing has failed.
Landed(k) == req[k].phase \in {"flip", "fanout"}

\* Row i says r, c for node k and is the row of the request on k, which has not
\* committed or is about to roll back.
Mine(k, i, r, c) ==
    /\ req[k].phase \in {"commit", "undo"} /\ req[k].row = i
    /\ r = req[k].prior.rev + 1 /\ c = req[k].content

\* What a row that says r, c for node k may still do to it.
Fits(i, k, r, c) ==
    /\ 0 < r /\ r <= graph[k].rev + 1
    /\ Landed(k) => r <= graph[k].rev
    /\ r = graph[k].rev + 1 => c \in Allowed(k) \/ Mine(k, i, r, c)

\* A row, or the tick's snapshot of one.
RowOK(i, e) ==
    /\ e.kind = "upsert" /\ e.content # NoContent
    /\ Fits(i, e.key, e.rev, e.content)

\* A write in flight lands on the node its request read, and never over one that
\* is about to be acknowledged.
HungOK(h) ==
    /\ h.rev <= graph[h.key].rev
    /\ Landed(h.key) => h.rev < graph[h.key].rev

\* What the graph holds of node k, and what the request on it may put back.
NodeOK(k) ==
    /\ graph[k].rev = 0 <=> graph[k].content = NoContent
    /\ Landed(k) => graph[k].content = req[k].content
    /\ req[k].phase = "undo" => graph[k].content \in Allowed(k) \cup {req[k].content}
    /\ ~Landed(k) /\ req[k].phase # "undo" => graph[k].content \in Allowed(k)

RequestOK(k) ==
    /\ req[k].phase # "delete"
    /\ Writing(k) => req[k].prior.rev <= graph[k].rev /\ req[k].prior.content \in Allowed(k)
    /\ Writing(k) /\ "create" \notin Operations =>
          req[k].prior.content # NoContent /\ graph[k].rev > 0
    /\ req[k].phase = "undo" => "create" \notin Operations
    /\ req[k].phase \in {"retract", "compensate", "reread"} => graph[k].rev > 0
    /\ req[k].phase \in {"retract", "compensate"} /\ ~req[k].conflict =>
          req[k].back.content # NoContent /\ 0 < req[k].back.rev /\ req[k].back.rev <= graph[k].rev

CInv ==
    /\ Inv
    /\ \A i \in DOMAIN rows : RowOK(i, rows[i])
    /\ \A i \in DOMAIN batch : RowOK(i, batch[i])
    /\ \A h \in hung : HungOK(h)
    /\ \A k \in Keys : NodeOK(k) /\ RequestOK(k)

-----------------------------------------------------------------------------
(* No statement changes what a row says. *)

Says(e, f) == e.kind = f.kind /\ e.key = f.key /\ e.rev = f.rev /\ e.content = f.content

SameRows(t, u) == \A i \in DOMAIN u : i \in DOMAIN t /\ Says(u[i], t[i])

\* A table says what it says.
LEMMA SameTable == ASSUME NEW t PROVE SameRows(t, t)
  BY DEF SameRows, Says

\* markEntryStatus changes nothing a row says.
LEMMA MarkSays ==
    ASSUME NEW t, IsTable(t), NEW i, NEW st, NEW bump, NEW why
    PROVE  SameRows(t, MarkEntryStatus(t, i, st, bump, why))
<1>1. CASE i \notin DOMAIN t
  BY <1>1 DEF MarkEntryStatus, SameRows, Says
<1>2. CASE i \in DOMAIN t
  <2> DEFINE r == Marked(t[i], st, bump, why)
  <2>1. Says(r, t[i])
    BY <1>2 DEF IsTable, Row, Marked, Says
  <2>2. MarkEntryStatus(t, i, st, bump, why) = [t EXCEPT ![i] = r]
    BY <1>2 DEF MarkEntryStatus
  <2> HIDE DEF r
  <2> QED
    BY <2>1, <2>2 DEF SameRows, Says
<1> QED
  BY <1>1, <1>2

\* recordTransientFailure changes nothing a row says.
LEMMA TransientSays ==
    ASSUME NEW t, IsTable(t), NEW i
    PROVE  SameRows(t, RecordTransientFailure(t, i))
<1>1. CASE i \notin DOMAIN t
  BY <1>1 DEF RecordTransientFailure, SameRows, Says
<1>2. CASE i \in DOMAIN t
  <2> DEFINE r == Rescheduled(t[i])
  <2>1. Says(r, t[i])
    BY <1>2 DEF IsTable, Row, Rescheduled, Says
  <2>2. RecordTransientFailure(t, i) = [t EXCEPT ![i] = r]
    BY <1>2 DEF RecordTransientFailure
  <2> HIDE DEF r
  <2> QED
    BY <2>1, <2>2 DEF SameRows, Says
<1> QED
  BY <1>1, <1>2

\* Nor do the other statements that change rows in place.
LEMMA StatementsSay ==
    ASSUME NEW t, IsTable(t), NEW i
    PROVE  /\ SameRows(t, MarkCommitted(t, i))
           /\ SameRows(t, ClaimForReplication(t, i))
           /\ SameRows(t, RequeueReplicating(t))
           /\ i \in DOMAIN t => SameRows(t, RequeueDead(t, i))
<1>1. SameRows(t, MarkCommitted(t, i))
  BY DEF MarkCommitted, SameRows, Says, IsTable, Row
<1>2. SameRows(t, ClaimForReplication(t, i))
  BY DEF ClaimForReplication, Eligible, SameRows, Says, IsTable, Row
<1>3. SameRows(t, RequeueReplicating(t))
  BY DEF RequeueReplicating, SameRows, Says, IsTable, Row
<1>4. i \in DOMAIN t => SameRows(t, RequeueDead(t, i))
  BY DEF RequeueDead, SameRows, Says, IsTable, Row
<1> QED
  BY <1>1, <1>2, <1>3, <1>4

\* Removing rows, or retracting one, leaves what the others say.
LEMMA RemovalSays ==
    ASSUME NEW t, NEW S, NEW i
    PROVE  SameRows(t, Remove(t, S)) /\ SameRows(t, RemoveIfPending(t, i))
<1>1. \A V : SameRows(t, Remove(t, V))
  BY DEF Remove, SameRows, Says
<1> QED
  BY <1>1, SameTable DEF RemoveIfPending

\* The replicator, the clock, the operator, a crash and a boot record nothing.
LEMMA ReplicatorSays ==
    ASSUME Inv, \/ ReplicatorStep \/ Crash \/ Recover
                \/ \E i \in DOMAIN rows : BackoffElapses(i) \/ OperatorRequeues(i)
    PROVE  SameRows(rows, rows')
<1>t. IsTable(rows)
  BY DEF Inv, StoreInv
<1>1. CASE \/ SkipSuperseded \/ ReleaseDeferred \/ MarkReplicated \/ SettleCounted \/ HealMark
  BY <1>1, <1>t, MarkSays DEF SkipSuperseded, ReleaseDeferred, MarkReplicated, SettleCounted, HealMark
<1>2. ASSUME NEW ceiling, NEW halt, SettleTransient(ceiling, halt) PROVE SameRows(rows, rows')
  BY <1>2, <1>t, MarkSays, TransientSays DEF SettleTransient
<1>3. CASE Claim
  BY <1>3, <1>t, StatementsSay DEF Claim
<1>4. CASE SweepAct
  BY <1>4, <1>t, StatementsSay, RemovalSays, SameTable DEF SweepAct
<1>5. CASE Prune
  BY <1>5, RemovalSays DEF Prune
<1>6. CASE Recover
  BY <1>6, <1>t, StatementsSay DEF Recover
<1>7. ASSUME NEW i \in DOMAIN rows, BackoffElapses(i) \/ OperatorRequeues(i)
      PROVE  SameRows(rows, rows')
  <2>1. rows' = [rows EXCEPT ![i].due = TRUE] \/ rows' = RequeueDead(rows, i)
    BY <1>7 DEF BackoffElapses, OperatorRequeues
  <2>2. SameRows(rows, [rows EXCEPT ![i].due = TRUE])
    BY <1>t DEF SameRows, Says, IsTable, Row
  <2>3. SameRows(rows, RequeueDead(rows, i))
    BY <1>t, StatementsSay
  <2> QED
    BY <2>1, <2>2, <2>3
<1>8. CASE rows' = rows
  BY <1>8, SameTable
<1>9. CASE \/ TickStart \/ (\E i \in DOMAIN batch : TickNext(i)) \/ TickEnd
           \/ (\E ok, applied \in BOOLEAN : Dispatch(ok, applied)) \/ DispatchTimesOut
           \/ HealStart \/ (\E i \in todo : HealProbe(i)) \/ HealEnd \/ SweepStart
           \/ (\E i \in todo : SweepRead(i)) \/ SweepUnreadable \/ SweepEnd \/ Crash
  <2>1. rows' = rows
    BY <1>9 DEF TickStart, TickNext, TickEnd, Dispatch, DispatchTimesOut, HealStart, HealProbe,
                HealEnd, SweepStart, SweepRead, SweepUnreadable, SweepEnd, Crash, storeVars
  <2> QED
    BY <2>1, <1>8
<1> QED
  BY <1>1, <1>2, <1>3, <1>4, <1>5, <1>6, <1>7, <1>9 DEF ReplicatorStep

\* The tick's snapshot holds rows as they were.
SnapshotKept ==
    \A i \in DOMAIN batch' :
        \/ i \in DOMAIN batch /\ batch'[i] = batch[i]
        \/ i \in DOMAIN rows /\ batch'[i] = rows[i]

\* Every step, for the snapshot.
LEMMA SnapshotIsKept ==
    ASSUME Inv, [Next]_vars
    PROVE  SnapshotKept
<1>r. \A V : \A i \in DOMAIN Remove(batch, V) : i \in DOMAIN batch /\ Remove(batch, V)[i] = batch[i]
  BY DEF Remove
<1>n. DOMAIN NoRows = {}
  BY DEF NoRows
<1>1. CASE UNCHANGED batch
  BY <1>1 DEF SnapshotKept
<1>2. CASE batch' = NoRows
  BY <1>2, <1>n DEF SnapshotKept
<1>3. CASE \E V : batch' = Remove(batch, V)
  BY <1>3, <1>r DEF SnapshotKept
<1>4. CASE TickStart
  BY <1>4 DEF TickStart, SnapshotKept, ListPending, Eligible
<1>5. CASE ReplicatorStep /\ ~TickStart
  <2>1. UNCHANGED batch \/ batch' = NoRows \/ \E V : batch' = Remove(batch, V)
    BY <1>5 DEF ReplicatorStep, TickNext, TickEnd, SkipSuperseded, Claim, RowDone, Dispatch,
                DispatchTimesOut, ReleaseDeferred, MarkReplicated, SettleCounted, SettleTransient,
                HealStart, HealProbe, HealMark, HealEnd, SweepStart, SweepRead, SweepUnreadable,
                SweepAct, SweepEnd, Prune, tickVars
  <2> QED
    BY <2>1, <1>1, <1>2, <1>3
<1>6. ASSUME NEW k \in Keys, Client(k) \/ RequestStep(k) PROVE UNCHANGED batch
  BY <1>6 DEF Client, RequestStep, UpsertRecord, DeleteRecord, UpsertCommit, UpsertConflict,
              UpsertUnknown, UpsertThrows, UpsertFlip, FanoutDone, FanoutFails, Undo, UndoFails,
              Retract, Compensate, Reread, GiveUp, DeleteApply, DeleteThrows, replVars
<1>7. CASE LateWrite \/ \E i \in DOMAIN rows : BackoffElapses(i) \/ OperatorRequeues(i)
  BY <1>1, <1>7 DEF LateWrite, HungLands, HungLost, BackoffElapses, OperatorRequeues, replVars
<1>8. CASE Crash \/ Recover \/ UNCHANGED vars
  BY <1>1, <1>2, <1>8 DEF Crash, Recover, tickVars, vars, replVars
<1> QED
  BY <1>1, <1>4, <1>5, <1>6, <1>7, <1>8 DEF Next

-----------------------------------------------------------------------------
(* One node at a time: whatever its rows, its writes in flight and its request *)
(* were allowed to do before the step they are allowed to do after it.        *)

Kept(k) ==
    /\ \A i, r \in Nat, c \in Contents \cup {NoContent} : Fits(i, k, r, c) => Fits(i, k, r, c)'
    /\ \A h \in hung : h.key = k /\ HungOK(h) => HungOK(h)'
    /\ NodeOK(k)' /\ RequestOK(k)'

SameNode(x) ==
    graph'[x] = graph[x] /\ req'[x] = req[x] /\ acked'[x] = acked[x] /\ maybe'[x] = maybe[x]

OnlyNode(k) == \A x \in Keys \ {k} : SameNode(x)

\* The fields of a node and of its request.
LEMMA NodeTyped ==
    ASSUME Inv, NEW k \in Keys
    PROVE  /\ graph[k].rev \in Nat /\ graph[k].content \in Contents \cup {NoContent}
           /\ req[k].prior.rev \in Nat /\ req[k].prior.content \in Contents \cup {NoContent}
           /\ req[k].back.rev \in Nat /\ req[k].row \in Nat
           /\ req[k].content \in Contents \cup {NoContent}
           /\ req[k].phase \notin {"idle", "delete"} =>
                 req[k].content \in Contents /\ req[k].content # NoContent
  BY ContentsAssumption DEF Inv, RequestInv, Request, N!Node

\* A write in flight is about one of the nodes.
LEMMA HungTyped ==
    ASSUME Inv, NEW h \in hung
    PROVE  h.key \in Keys /\ h.rev \in Nat /\ h.content \in Contents
  BY DEF Inv, RequestInv, HungWrite

\* A step elsewhere changes nothing for a node.
LEMMA ElsewhereKept ==
    ASSUME NEW x \in Keys, NodeOK(x), RequestOK(x), SameNode(x)
    PROVE  Kept(x)
  BY DEF Kept, SameNode, Fits, Mine, Landed, Allowed, HungOK, NodeOK, RequestOK, Writing

\* Once the revision of a node has gone up by one nothing is ahead of it any more.
LEMMA Overtaken ==
    ASSUME Inv, NEW k \in Keys, graph'[k].rev = graph[k].rev + 1
    PROVE  /\ \A i, r \in Nat, c \in Contents \cup {NoContent} :
                 Fits(i, k, r, c) => Fits(i, k, r, c)'
           /\ \A h \in hung : h.key = k /\ HungOK(h) => HungOK(h)'
<1>1. graph[k].rev \in Nat
  BY NodeTyped
<1>2. \A h \in hung : h.rev \in Nat
  BY HungTyped
<1> QED
  BY <1>1, <1>2 DEF Fits, HungOK

\* The commit puts the node level with the request's own row, the only one that
\* may carry something else than an allowed content.
LEMMA CommitKept ==
    ASSUME CInv, NEW k \in Keys, UpsertCommit(k)
    PROVE  OnlyNode(k) /\ Kept(k)
<1>t. Inv /\ NodeOK(k) /\ RequestOK(k) /\ req[k].phase = "commit"
  BY DEF CInv, UpsertCommit
<1>u. OnlyNode(k) /\ acked'[k] = acked[k] /\ maybe'[k] = maybe[k]
  BY <1>t DEF UpsertCommit, OnlyNode, SameNode, Inv, RequestInv, ackVars
<1>g. graph'[k].rev = graph[k].rev + 1 /\ graph'[k].content = req[k].content
  BY <1>t DEF UpsertCommit, N!CanCommitAt, N!CommitAt, Inv, RequestInv
<1>q. /\ req'[k].phase = "flip" /\ req'[k].content = req[k].content
      /\ req'[k].prior = req[k].prior
  BY <1>t DEF UpsertCommit, Inv, RequestInv, Request
<1>1. NodeOK(k)' /\ RequestOK(k)'
  BY <1>t, <1>u, <1>g, <1>q, NodeTyped DEF NodeOK, RequestOK, Landed, Writing, Allowed
<1> QED
  BY <1>t, <1>u, <1>g, <1>1, Overtaken DEF Kept

\* The node the conditional write lost against is past the request's row.
LEMMA ConflictKept ==
    ASSUME CInv, NEW k \in Keys, UpsertConflict(k)
    PROVE  OnlyNode(k) /\ Kept(k)
<1>t. Inv /\ NodeOK(k) /\ RequestOK(k) /\ req[k].phase = "commit"
  BY DEF CInv, UpsertConflict
<1>u. OnlyNode(k) /\ acked'[k] = acked[k] /\ maybe'[k] = maybe[k] /\ graph'[k] = graph[k]
  BY <1>t DEF UpsertConflict, OnlyNode, SameNode, Inv, RequestInv, ackVars
<1>g. req[k].prior.rev < graph[k].rev
  BY <1>t, NodeTyped DEF UpsertConflict, N!CanCommitAt, RequestOK, Writing
<1>q. req'[k].phase = "retract" /\ req'[k].conflict
  BY <1>t DEF UpsertConflict, Inv, RequestInv, Request
<1>1. NodeOK(k)' /\ RequestOK(k)'
  BY <1>t, <1>u, <1>g, <1>q, NodeTyped DEF NodeOK, RequestOK, Landed, Writing, Allowed
<1>2. \A i, r \in Nat, c \in Contents \cup {NoContent} : Fits(i, k, r, c) => Fits(i, k, r, c)'
  BY <1>t, <1>u, <1>g, <1>q, NodeTyped DEF Fits, Mine, Landed, Allowed
<1>3. \A h \in hung : h.key = k /\ HungOK(h) => HungOK(h)'
  BY <1>u, <1>q DEF HungOK, Landed
<1> QED
  BY <1>u, <1>1, <1>2, <1>3 DEF Kept

\* A write that throws, applied or not, may still be its row's to repeat until the
\* rollback has gone over it.
LEMMA ThrowsKept ==
    ASSUME UpsertsOnly, CInv, NEW k \in Keys, NEW applied \in BOOLEAN, UpsertThrows(k, applied)
    PROVE  OnlyNode(k) /\ Kept(k)
<1>t. Inv /\ NodeOK(k) /\ RequestOK(k) /\ req[k].phase = "commit" /\ "create" \notin Operations
  BY DEF CInv, UpsertThrows, UpsertsOnly
<1>u. OnlyNode(k) /\ acked'[k] = acked[k] /\ maybe'[k] = maybe[k]
  BY <1>t DEF UpsertThrows, OnlyNode, SameNode, Inv, RequestInv, ackVars
<1>g. \/ graph'[k] = graph[k]
      \/ graph'[k].rev = graph[k].rev + 1 /\ graph'[k].content = req[k].content
  BY <1>t DEF UpsertThrows, N!CanCommitAt, N!CommitAt, Inv, RequestInv
<1>q. /\ req'[k].phase = "undo" /\ req'[k].content = req[k].content
      /\ req'[k].prior = req[k].prior /\ req'[k].row = req[k].row
  BY <1>t DEF UpsertThrows, Inv, RequestInv, Request
<1>1. NodeOK(k)' /\ RequestOK(k)'
  BY <1>t, <1>u, <1>g, <1>q, NodeTyped DEF NodeOK, RequestOK, Landed, Writing, Allowed
<1>2. ASSUME graph'[k] = graph[k]
      PROVE  /\ \A i, r \in Nat, c \in Contents \cup {NoContent} :
                   Fits(i, k, r, c) => Fits(i, k, r, c)'
             /\ \A h \in hung : h.key = k /\ HungOK(h) => HungOK(h)'
  BY <1>t, <1>u, <1>q, <1>2 DEF Fits, Mine, Landed, Allowed, HungOK
<1> QED
  BY <1>t, <1>u, <1>g, <1>1, <1>2, Overtaken DEF Kept

\* An unknown outcome: from now on the content may win, by its row or by the write
\* in flight.
LEMMA UnknownKept ==
    ASSUME CInv, NEW k \in Keys, UpsertUnknown(k)
    PROVE  OnlyNode(k) /\ Kept(k) /\ \A h \in hung' \ hung : HungOK(h)'
<1>t. Inv /\ NodeOK(k) /\ RequestOK(k) /\ req[k].phase = "commit"
  BY DEF CInv, UpsertUnknown
<1>u. /\ OnlyNode(k) /\ acked'[k] = acked[k] /\ maybe'[k] = maybe[k] \cup {req[k].content}
      /\ graph'[k] = graph[k] /\ req'[k].phase = "idle"
  BY <1>t DEF UpsertUnknown, Finish, NoRequest, LeaveOpen, OnlyNode, SameNode, Inv, RequestInv
<1>1. NodeOK(k)' /\ RequestOK(k)'
  BY <1>t, <1>u DEF NodeOK, RequestOK, Landed, Writing, Allowed
<1>2. \A i, r \in Nat, c \in Contents \cup {NoContent} : Fits(i, k, r, c) => Fits(i, k, r, c)'
  BY <1>t, <1>u DEF Fits, Mine, Landed, Allowed
<1>3. \A h \in hung : h.key = k /\ HungOK(h) => HungOK(h)'
  BY <1>u DEF HungOK, Landed
<1>4. ASSUME NEW h \in hung' \ hung PROVE HungOK(h)'
  <2>1. h.key = k /\ h.rev = req[k].prior.rev
    BY <1>4 DEF UpsertUnknown
  <2> QED
    BY <1>t, <1>u, <2>1 DEF HungOK, Landed, RequestOK, Writing
<1> QED
  BY <1>u, <1>1, <1>2, <1>3, <1>4 DEF Kept

\* From the commit to the acknowledgement nothing is ahead of the node, so what is
\* acknowledged is what the graph holds and nothing older is left to replace it.
LEMMA LandedKept ==
    ASSUME UpsertsOnly, CInv, NEW k \in Keys,
           (\E ok \in BOOLEAN : UpsertFlip(k, ok)) \/ FanoutDone(k) \/ FanoutFails(k)
    PROVE  OnlyNode(k) /\ Kept(k)
<1>t. Inv /\ NodeOK(k) /\ RequestOK(k) /\ Landed(k)
  BY DEF CInv, UpsertFlip, FanoutDone, FanoutFails, Landed
<1>u. OnlyNode(k) /\ graph'[k] = graph[k]
  BY <1>t DEF UpsertFlip, FanoutDone, FanoutFails, Finish, Acknowledge, OnlyNode, SameNode,
              Inv, RequestInv, ackVars
<1>1. ASSUME Landed(k)' \/ (FanoutFails(k) /\ req'[k].phase = "undo"),
             acked'[k] = acked[k], maybe'[k] = maybe[k],
             req'[k].content = req[k].content, req'[k].prior = req[k].prior
      PROVE  NodeOK(k)' /\ RequestOK(k)'
  <2>1. FanoutFails(k) => "create" \notin Operations
    BY DEF FanoutFails, UpsertsOnly
  <2> QED
    BY <1>t, <1>u, <1>1, <2>1 DEF NodeOK, RequestOK, Landed, Writing, Allowed
<1>2. ASSUME FanoutDone(k) PROVE NodeOK(k)' /\ RequestOK(k)'
  <2>1. acked'[k] = req[k].content /\ maybe'[k] = {} /\ req'[k].phase = "idle"
    BY <1>2 DEF FanoutDone, Finish, NoRequest, Acknowledge, CInv, Inv, RequestInv
  <2> QED
    BY <1>t, <1>u, <2>1 DEF NodeOK, RequestOK, Landed, Writing, Allowed
<1>3. \/ FanoutDone(k)
      \/ /\ Landed(k)' \/ (FanoutFails(k) /\ req'[k].phase = "undo")
         /\ acked'[k] = acked[k] /\ maybe'[k] = maybe[k]
         /\ req'[k].content = req[k].content /\ req'[k].prior = req[k].prior
  BY <1>t DEF UpsertFlip, FanoutFails, Landed, Inv, RequestInv, Request, ackVars
<1>4. \A i, r \in Nat, c \in Contents \cup {NoContent} : Fits(i, k, r, c) => Fits(i, k, r, c)'
  BY <1>t, <1>u, NodeTyped DEF Fits
<1>5. \A h \in hung : h.key = k /\ HungOK(h) => HungOK(h)'
  BY <1>t, <1>u DEF HungOK
<1> QED
  BY <1>u, <1>1, <1>2, <1>3, <1>4, <1>5 DEF Kept

\* The rollback is a new state, one revision up: every row is behind it.
LEMMA UndoKept ==
    ASSUME CInv, NEW k \in Keys, Undo(k)
    PROVE  OnlyNode(k) /\ Kept(k)
<1>t. Inv /\ NodeOK(k) /\ RequestOK(k) /\ req[k].phase = "undo"
  BY DEF CInv, Undo
<1>p. req[k].prior.content # NoContent /\ graph[k].content # NoContent
  BY <1>t, NodeTyped DEF NodeOK, RequestOK, Writing
<1>b. Undone(k).rev = graph[k].rev + 1 /\ Undone(k).content = req[k].prior.content
  BY <1>p DEF Undone, N!IsPresent, N!RestoreOver
<1>u. /\ OnlyNode(k) /\ acked'[k] = acked[k] /\ maybe'[k] = maybe[k]
      /\ graph'[k] = Undone(k)
  BY <1>t DEF Undo, OnlyNode, SameNode, Inv, RequestInv, ackVars
<1>q. req'[k].phase = "retract" /\ req'[k].back = Undone(k)
  BY <1>t DEF Undo, Inv, RequestInv, Request
<1>1. NodeOK(k)' /\ RequestOK(k)'
  BY <1>t, <1>p, <1>b, <1>u, <1>q, NodeTyped DEF NodeOK, RequestOK, Landed, Writing, Allowed
<1> QED
  BY <1>t, <1>b, <1>u, <1>1, Overtaken DEF Kept

\* A request that is past its rollback, or has not begun, has no claim on its row.
LEMMA AsideKept ==
    ASSUME Inv, NEW k \in Keys, NodeOK(k), ~Writing(k), ~Writing(k)', RequestOK(k)',
           graph'[k] = graph[k], acked'[k] = acked[k], maybe'[k] = maybe[k]
    PROVE  Kept(k)
<1>1. NodeOK(k)'
  BY DEF NodeOK, Landed, Writing, Allowed
<1>2. \A i, r \in Nat, c \in Contents \cup {NoContent} : Fits(i, k, r, c) => Fits(i, k, r, c)'
  BY DEF Fits, Mine, Landed, Writing, Allowed
<1>3. \A h \in hung : h.key = k /\ HungOK(h) => HungOK(h)'
  BY DEF HungOK, Landed, Writing
<1> QED
  BY <1>1, <1>2, <1>3 DEF Kept

\* Taking the row back, compensating for it, giving up.
LEMMA RetreatKept ==
    ASSUME CInv, NEW k \in Keys, Retract(k) \/ Compensate(k) \/ GiveUp(k)
    PROVE  OnlyNode(k) /\ Kept(k)
<1>t. Inv /\ NodeOK(k) /\ RequestOK(k) /\ req[k].phase \in {"retract", "compensate", "reread"}
  BY DEF CInv, Retract, Compensate, GiveUp
<1>u. /\ OnlyNode(k) /\ acked'[k] = acked[k] /\ maybe'[k] = maybe[k] /\ graph'[k] = graph[k]
  BY <1>t DEF Retract, Compensate, GiveUp, Finish, OnlyNode, SameNode, Inv, RequestInv, ackVars
<1>q. \/ req'[k].phase \in {"idle", "reread"}
      \/ /\ req'[k].phase = "compensate" /\ req[k].phase = "retract"
         /\ req'[k].conflict = req[k].conflict /\ req'[k].back = req[k].back
  <2>1. CASE Retract(k)
    BY <1>t, <2>1 DEF Retract, Finish, NoRequest, Inv, RequestInv, Request
  <2>2. CASE Compensate(k) \/ GiveUp(k)
    BY <1>t, <2>2 DEF Compensate, GiveUp, Finish, NoRequest, Inv, RequestInv, Request
  <2> QED
    BY <2>1, <2>2
<1>1. ~Writing(k) /\ ~Writing(k)'
  BY <1>t, <1>q DEF Writing
<1>2. RequestOK(k)'
  BY <1>t, <1>u, <1>q DEF RequestOK, Writing
<1> QED
  BY <1>t, <1>u, <1>1, <1>2, AsideKept

\* Every row says what it said, or is a new one that may say what it says.
RowsKept ==
    \A i \in DOMAIN rows' : (i \in DOMAIN rows /\ Says(rows'[i], rows[i])) \/ RowOK(i, rows[i])'

\* A new row is in order if its payload fits.
LEMMA RecordKept ==
    ASSUME Inv, NEW k, NEW r, NEW c, NEW st, NEW n, n = nextRow,
           rows' = Record(rows, n, UpsertSpec(k, r, c, st), cursor),
           c # NoContent, Fits(n, k, r, c)'
    PROVE  RowsKept
<1> DEFINE u == Record(rows, n, UpsertSpec(k, r, c, st), cursor)
<1>1. /\ DOMAIN u = DOMAIN rows \cup {n}
      /\ u[n].kind = "upsert" /\ u[n].key = k /\ u[n].rev = r /\ u[n].content = c
      /\ \A j \in DOMAIN rows : j # n => u[j] = rows[j]
  BY DEF Record, NewRow, UpsertSpec
<1>2. n \notin DOMAIN rows
  BY DEF Inv, StoreInv
<1>3. rows' = u
  OBVIOUS
<1> HIDE DEF u
<1>4. RowOK(n, rows[n])'
  BY <1>1, <1>3 DEF RowOK
<1>5. ASSUME NEW i \in DOMAIN rows', i # n PROVE i \in DOMAIN rows /\ Says(rows'[i], rows[i])
  BY <1>1, <1>3, <1>5 DEF Says
<1> QED
  BY <1>4, <1>5 DEF RowsKept

\* The row of a write that begins is one ahead of the node the request has just
\* read, and is the request's own.
LEMMA BeginKept ==
    ASSUME UpsertsOnly, CInv, NEW k \in Keys, (\E c \in Contents : UpsertRecord(k, c)) \/ Reread(k)
    PROVE  OnlyNode(k) /\ Kept(k) /\ RowsKept
<1> DEFINE n == nextRow
           p == graph[k]
<1>t. Inv /\ NodeOK(k) /\ RequestOK(k) /\ req[k].phase \in {"idle", "reread"} /\ n \in Nat
  BY DEF CInv, UpsertRecord, Reread, LockHeld, Inv, StoreInv
<1>u. OnlyNode(k) /\ acked'[k] = acked[k] /\ maybe'[k] = maybe[k] /\ graph'[k] = graph[k]
  BY <1>t DEF UpsertRecord, Reread, OnlyNode, SameNode, Inv, RequestInv, ackVars
<1>q. \E c \in Contents :
         /\ req'[k].phase = "commit" /\ req'[k].content = c /\ req'[k].prior = p
         /\ req'[k].row = n
         /\ rows' = Record(rows, n, UpsertSpec(k, p.rev + 1, c, "pending_commit"), cursor)
  <2>1. ASSUME NEW c \in Contents, UpsertRecord(k, c)
        PROVE  /\ req'[k].phase = "commit" /\ req'[k].content = c /\ req'[k].prior = p
               /\ req'[k].row = n
               /\ rows' = Record(rows, n, UpsertSpec(k, p.rev + 1, c, "pending_commit"), cursor)
    BY <1>t, <2>1 DEF UpsertRecord, RecordRow, NoRequest, Inv, RequestInv
  <2>2. ASSUME Reread(k)
        PROVE  /\ req'[k].phase = "commit" /\ req'[k].content = req[k].content
               /\ req'[k].prior = p /\ req'[k].row = n /\ req[k].content \in Contents
               /\ rows' = Record(rows, n, UpsertSpec(k, p.rev + 1, req[k].content, "pending_commit"),
                                 cursor)
    BY <1>t, <2>2 DEF Reread, RecordRow, Inv, RequestInv, Request
  <2> QED
    BY <2>1, <2>2
<1>c. "create" \notin Operations => graph[k].content # NoContent
  <2>1. ASSUME NEW c \in Contents, UpsertRecord(k, c), "create" \notin Operations
        PROVE  graph[k].content # NoContent
    BY <2>1 DEF UpsertRecord, N!IsPresent
  <2>2. ASSUME Reread(k) PROVE graph[k].content # NoContent
    BY <1>t, <2>2, NodeTyped DEF Reread, RequestOK, NodeOK
  <2> QED
    BY <2>1, <2>2
<1>p. p.rev \in Nat
  BY <1>t, NodeTyped
<1>1. PICK c \in Contents :
         /\ req'[k].phase = "commit" /\ req'[k].content = c /\ req'[k].prior = p
         /\ req'[k].row = n
         /\ rows' = Record(rows, n, UpsertSpec(k, p.rev + 1, c, "pending_commit"), cursor)
  BY <1>q
<1>2. NodeOK(k)' /\ RequestOK(k)'
  BY <1>t, <1>u, <1>c, <1>p, <1>1 DEF NodeOK, RequestOK, Landed, Writing, Allowed
<1>3. \A i, r \in Nat, d \in Contents \cup {NoContent} : Fits(i, k, r, d) => Fits(i, k, r, d)'
  BY <1>t, <1>u, <1>1 DEF Fits, Mine, Landed, Allowed
<1>4. \A h \in hung : h.key = k /\ HungOK(h) => HungOK(h)'
  BY <1>u, <1>1 DEF HungOK, Landed
<1>5. RowsKept
  <2> DEFINE r == p.rev + 1
  <2>1. \A m, q : m = n /\ q = r => Fits(m, k, q, c)'
    BY <1>u, <1>p, <1>1 DEF Fits, Mine, Landed
  <2>2. c # NoContent
    BY ContentsAssumption
  <2> QED
    BY <1>t, <1>1, <2>1, <2>2, RecordKept
<1> QED
  BY <1>u, <1>2, <1>3, <1>4, <1>5 DEF Kept

\* A compensating row re-asserts what the graph already holds.
LEMMA CompensateRows ==
    ASSUME CInv, NEW k \in Keys, Compensate(k)
    PROVE  RowsKept
<1> DEFINE n == nextRow
           back == IF req[k].conflict THEN graph[k] ELSE req[k].back
<1>t. Inv /\ NodeOK(k) /\ RequestOK(k) /\ req[k].phase = "compensate"
  BY DEF CInv, Compensate
<1>1. /\ back.content # NoContent /\ back.rev \in Nat
      /\ 0 < back.rev /\ back.rev <= graph[k].rev
  BY <1>t, NodeTyped DEF NodeOK, RequestOK
<1>2. rows' = Record(rows, n, UpsertSpec(k, back.rev, back.content, "pending"), cursor)
  BY <1>1 DEF Compensate, RecordRow, N!IsPresent
<1>3. graph' = graph
  BY DEF Compensate
<1> HIDE DEF back
<1>4. \A m, q, c : q = back.rev => Fits(m, k, q, c)'
  BY <1>t, <1>1, <1>3, NodeTyped DEF Fits
<1> QED
  BY <1>t, <1>1, <1>2, <1>4, RecordKept

\* A late write lands only over the node its request had read, which no request is
\* about to acknowledge, and its caller was told neither success nor failure.
LEMMA LateKept ==
    ASSUME CInv, NEW h \in hung, HungLands(h) \/ HungLost(h)
    PROVE  \A x \in Keys : Kept(x)
<1>h. h.key \in Keys /\ h.rev \in Nat /\ h.content \in Contents /\ h.content # NoContent
  BY HungTyped, ContentsAssumption DEF CInv
<1> DEFINE k == h.key
<1>t. Inv /\ NodeOK(k) /\ RequestOK(k) /\ HungOK(h) /\ \A x \in Keys : NodeOK(x) /\ RequestOK(x)
  BY <1>h DEF CInv
<1>1. CASE HungLost(h)
  <2>1. \A x \in Keys : SameNode(x)
    BY <1>1 DEF HungLost, SameNode, ackVars
  <2> QED
    BY <1>t, <2>1, ElsewhereKept
<1>2. CASE HungLands(h)
  <2>u. /\ OnlyNode(k) /\ acked'[k] = acked[k] /\ maybe'[k] = maybe[k] \cup {h.content}
        /\ req'[k] = req[k]
    BY <1>h, <1>t, <1>2 DEF HungLands, LeaveOpen, OnlyNode, SameNode, Inv, RequestInv
  <2>g. graph'[k].rev = graph[k].rev + 1 /\ graph'[k].content = h.content /\ graph[k].rev = h.rev
    BY <1>h, <1>t, <1>2 DEF HungLands, N!CanCommitAt, N!CommitAt, Inv, RequestInv
  <2>1. ~Landed(k)
    BY <1>h, <1>t, <2>g DEF HungOK
  <2>2. NodeOK(k)' /\ RequestOK(k)'
    BY <1>h, <1>t, <2>u, <2>g, <2>1, NodeTyped DEF NodeOK, RequestOK, Landed, Writing, Allowed
  <2>3. Kept(k)
    BY <1>h, <1>t, <2>g, <2>2, Overtaken DEF Kept
  <2> QED
    BY <1>t, <2>u, <2>3, ElsewhereKept DEF OnlyNode
<1> QED
  BY <1>1, <1>2

\* A replay writes only a row that is next, and with no request on the node such a
\* row carries an allowed content.
LEMMA DispatchKept ==
    ASSUME CInv, NEW ok \in BOOLEAN, NEW applied \in BOOLEAN, Dispatch(ok, applied)
    PROVE  \A x \in Keys : Kept(x)
<1>e. /\ cur \in DOMAIN batch /\ cur \in Nat /\ entry.key \in Keys /\ entry.rev \in Nat
      /\ entry.content \in Contents \cup {NoContent}
  BY DEF Dispatch, CInv, Inv, TickInv, Replaying, entry, IsTable, Row
<1>k. PICK k \in Keys : k = entry.key
  BY <1>e
<1>t. /\ Inv /\ RowOK(cur, entry) /\ \A x \in Keys : NodeOK(x) /\ RequestOK(x)
      /\ NodeOK(k) /\ RequestOK(k) /\ req[k].phase = "idle"
  BY <1>e, <1>k DEF CInv, entry, Dispatch, LockHeld
<1>u. /\ UNCHANGED <<req, acked, maybe>>
      /\ \A x \in Keys : x # k => graph'[x] = graph[x]
      /\ graph'[k] = graph[k] \/ graph'[k] = N!Replay(graph[k], entry)
  BY <1>k, <1>t DEF Dispatch, ackVars, Inv, RequestInv
<1>o. \A x \in Keys : x # k => SameNode(x)
  BY <1>u DEF SameNode
<1>1. CASE graph'[k] = graph[k]
  BY <1>e, <1>t, <1>u, <1>o, <1>1, ElsewhereKept DEF SameNode
<1>2. CASE graph'[k] # graph[k]
  <2>1. /\ graph'[k].rev = entry.rev /\ graph'[k].content = entry.content
        /\ graph[k].rev < entry.rev
    BY <1>e, <1>k, <1>t, <1>u, <1>2 DEF N!Replay, N!ReplayUpsert, N!ReplayNodeAtRevision, RowOK, Fits
  <2>2. graph'[k].rev = graph[k].rev + 1 /\ entry.content \in Allowed(k) /\ entry.content # NoContent
    BY <1>e, <1>k, <1>t, <2>1, NodeTyped DEF RowOK, Fits, Mine
  <2>3. NodeOK(k)' /\ RequestOK(k)'
    BY <1>e, <1>t, <1>u, <2>1, <2>2, NodeTyped DEF NodeOK, RequestOK, Landed, Writing, Allowed
  <2>4. Kept(k)
    BY <1>e, <1>t, <2>2, <2>3, Overtaken DEF Kept
  <2> QED
    BY <1>t, <1>o, <2>4, ElsewhereKept
<1> QED
  BY <1>1, <1>2

\* A crash leaves every unanswered content open, and a commit that was sent in flight.
LEMMA CrashKept ==
    ASSUME CInv, Crash
    PROVE  (\A x \in Keys : Kept(x)) /\ \A h \in hung' \ hung : HungOK(h)'
<1>1. ASSUME NEW k \in Keys PROVE Kept(k)
  <2>t. Inv /\ NodeOK(k) /\ RequestOK(k)
    BY DEF CInv
  <2>u. /\ graph'[k] = graph[k] /\ acked'[k] = acked[k] /\ req'[k].phase = "idle"
        /\ maybe[k] \subseteq maybe'[k]
        /\ req[k].phase # "idle" => req[k].content \in maybe'[k]
    BY DEF Crash, NoRequest, LockHeld
  <2>1. NodeOK(k)' /\ RequestOK(k)'
    BY <2>t, <2>u DEF NodeOK, RequestOK, Landed, Writing, Allowed
  <2>2. \A i, r \in Nat, c \in Contents \cup {NoContent} : Fits(i, k, r, c) => Fits(i, k, r, c)'
    BY <2>t, <2>u DEF Fits, Mine, Landed, Allowed
  <2>3. \A h \in hung : h.key = k /\ HungOK(h) => HungOK(h)'
    BY <2>u DEF HungOK, Landed
  <2> QED
    BY <2>1, <2>2, <2>3 DEF Kept
<1>2. ASSUME NEW h \in hung' \ hung PROVE HungOK(h)'
  <2>1. PICK k \in Keys : req[k].phase = "commit" /\ h.key = k /\ h.rev = req[k].prior.rev
    BY <1>2 DEF Crash
  <2>2. graph'[k] = graph[k] /\ req'[k].phase = "idle" /\ RequestOK(k)
    BY DEF Crash, NoRequest, CInv
  <2> QED
    BY <2>1, <2>2 DEF HungOK, Landed, RequestOK, Writing
<1> QED
  BY <1>1, <1>2

-----------------------------------------------------------------------------
(* All nodes together *)

\* What no step may do follows node by node and row by row.
LEMMA Assembled ==
    ASSUME CInv, Inv', \A x \in Keys : Kept(x), RowsKept, SnapshotKept,
           \A h \in hung' \ hung : HungOK(h)'
    PROVE  CInv'
<1>r. ASSUME NEW i, NEW e \in Row, i \in Nat, RowOK(i, e) PROVE RowOK(i, e)'
  <2>1. e.key \in Keys /\ e.rev \in Nat /\ e.content \in Contents \cup {NoContent}
    BY DEF Row
  <2> QED
    BY <1>r, <2>1 DEF RowOK, Kept
<1>t. /\ \A i \in DOMAIN rows : i \in Nat /\ rows[i] \in Row
      /\ \A i \in DOMAIN batch : i \in Nat /\ batch[i] \in Row
  BY DEF CInv, Inv, StoreInv, TickInv, IsTable
<1>1. ASSUME NEW i \in DOMAIN rows' PROVE RowOK(i, rows[i])'
  <2>1. CASE i \in DOMAIN rows /\ Says(rows'[i], rows[i])
    <3>1. \A e : e = rows[i] => RowOK(i, e)'
      BY <1>r, <1>t, <2>1 DEF CInv
    <3> QED
      BY <2>1, <3>1 DEF RowOK, Says
  <2> QED
    BY <1>1, <2>1 DEF RowsKept
<1>2. ASSUME NEW i \in DOMAIN batch' PROVE RowOK(i, batch[i])'
  <2>1. \A e : i \in DOMAIN batch /\ e = batch[i] => RowOK(i, e)'
    BY <1>r, <1>t DEF CInv
  <2>2. \A e : i \in DOMAIN rows /\ e = rows[i] => RowOK(i, e)'
    BY <1>r, <1>t DEF CInv
  <2> QED
    BY <1>2, <2>1, <2>2 DEF SnapshotKept, RowOK
<1>3. ASSUME NEW h \in hung' PROVE HungOK(h)'
  <2>1. h \in hung => h.key \in Keys /\ HungOK(h)
    BY HungTyped DEF CInv
  <2> QED
    BY <2>1 DEF Kept
<1> QED
  BY <1>1, <1>2, <1>3 DEF CInv, Kept

\* Nothing to write a node, to answer a request or to record a row.
LEMMA IdleKeeps ==
    ASSUME CInv, Inv', UNCHANGED <<graph, req, hung, acked, maybe>>, SameRows(rows, rows'),
           SnapshotKept
    PROVE  CInv'
<1>1. \A x \in Keys : Kept(x)
  BY ElsewhereKept DEF CInv, SameNode
<1>2. RowsKept
  BY DEF RowsKept, SameRows
<1> QED
  BY <1>1, <1>2, Assembled

\* One step of a request.
LEMMA RequestKeeps ==
    ASSUME UpsertsOnly, CInv, Inv', SnapshotKept, NEW k \in Keys, Client(k) \/ RequestStep(k)
    PROVE  CInv'
<1>k. ASSUME OnlyNode(k), Kept(k), RowsKept, \A h \in hung' \ hung : HungOK(h)' PROVE CInv'
  <2>1. \A x \in Keys : Kept(x)
    BY <1>k, ElsewhereKept DEF OnlyNode, CInv
  <2> QED
    BY <1>k, <2>1, Assembled
<1>r. ASSUME SameRows(rows, rows') PROVE RowsKept
  BY <1>r DEF RowsKept, SameRows
<1>n. RequestOK(k) /\ IsTable(rows)
  BY DEF CInv, Inv, StoreInv
<1>1. ASSUME UpsertCommit(k) \/ UpsertConflict(k) \/ (\E b \in BOOLEAN : UpsertThrows(k, b))
      PROVE  CInv'
  <2>1. UNCHANGED <<rows, hung>>
    BY <1>1 DEF UpsertCommit, UpsertConflict, UpsertThrows, storeVars
  <2> QED
    BY <1>1, <1>k, <1>r, <2>1, SameTable, CommitKept, ConflictKept, ThrowsKept
<1>2. CASE UpsertUnknown(k)
  <2>1. UNCHANGED rows
    BY <1>2 DEF UpsertUnknown, storeVars
  <2> QED
    BY <1>2, <1>k, <1>r, <2>1, SameTable, UnknownKept
<1>3. ASSUME (\E ok \in BOOLEAN : UpsertFlip(k, ok)) \/ FanoutDone(k) \/ FanoutFails(k)
      PROVE  CInv'
  <2>1. UNCHANGED hung /\ (UNCHANGED rows \/ rows' = MarkCommitted(rows, req[k].row))
    BY <1>3 DEF UpsertFlip, FanoutDone, FanoutFails, storeVars
  <2>2. SameRows(rows, rows')
    BY <1>n, <2>1, SameTable, StatementsSay
  <2> QED
    BY <1>3, <1>k, <1>r, <2>1, <2>2, LandedKept
<1>4. CASE Undo(k)
  <2>1. UNCHANGED <<rows, hung>>
    BY <1>4 DEF Undo, storeVars
  <2> QED
    BY <1>4, <1>k, <1>r, <2>1, SameTable, UndoKept
<1>5. CASE Retract(k) \/ GiveUp(k)
  <2>1. UNCHANGED hung /\ (UNCHANGED rows \/ rows' = RemoveIfPending(rows, req[k].row))
    BY <1>5 DEF Retract, GiveUp, storeVars
  <2>2. SameRows(rows, rows')
    BY <2>1, SameTable, RemovalSays
  <2> QED
    BY <1>5, <1>k, <1>r, <2>1, <2>2, RetreatKept
<1>6. CASE Compensate(k)
  <2>1. UNCHANGED hung
    BY <1>6 DEF Compensate
  <2> QED
    BY <1>6, <1>k, <2>1, RetreatKept, CompensateRows
<1>7. CASE (\E c \in Contents : UpsertRecord(k, c)) \/ Reread(k)
  <2>1. UNCHANGED hung
    BY <1>7 DEF UpsertRecord, Reread
  <2> QED
    BY <1>7, <1>k, <2>1, BeginKept
<1>8. ~DeleteRecord(k) /\ ~UndoFails(k) /\ ~DeleteApply(k) /\ ~DeleteThrows(k)
  BY <1>n DEF UpsertsOnly, DeleteRecord, UndoFails, DeleteApply, DeleteThrows, RequestOK
<1> QED
  BY <1>1, <1>2, <1>3, <1>4, <1>5, <1>6, <1>7, <1>8 DEF Client, RequestStep

\* CInv is inductive.
LEMMA NextKeepsCInv ==
    ASSUME UpsertsOnly, CInv, [Next]_vars
    PROVE  CInv'
<1>i. Inv /\ Inv' /\ SnapshotKept
  BY NextKeepsInv, SnapshotIsKept DEF CInv
<1>r. ASSUME SameRows(rows, rows') PROVE RowsKept
  BY <1>r DEF RowsKept, SameRows
<1>1. ASSUME NEW k \in Keys, Client(k) \/ RequestStep(k) PROVE CInv'
  BY <1>i, <1>1, RequestKeeps
<1>2. CASE LateWrite
  <2>1. PICK h \in hung : HungLands(h) \/ HungLost(h)
    BY <1>2 DEF LateWrite
  <2>2. rows' = rows /\ hung' \ hung = {}
    BY <2>1 DEF HungLands, HungLost, storeVars
  <2>3. \A x \in Keys : Kept(x)
    BY <2>1, LateKept
  <2> QED
    BY <1>i, <1>r, <2>2, <2>3, SameTable, Assembled
<1>3. ASSUME NEW ok \in BOOLEAN, NEW applied \in BOOLEAN, Dispatch(ok, applied) PROVE CInv'
  <2>1. rows' = rows /\ hung' = hung
    BY <1>3 DEF Dispatch, storeVars
  <2>2. \A x \in Keys : Kept(x)
    BY <1>3, DispatchKept
  <2> QED
    BY <1>i, <1>r, <2>1, <2>2, SameTable, Assembled
<1>4. CASE Crash
  BY <1>4, <1>i, <1>r, ReplicatorSays, CrashKept, Assembled
<1>5. CASE (ReplicatorStep /\ ~\E ok, applied \in BOOLEAN : Dispatch(ok, applied)) \/ Recover
  <2>1. UNCHANGED <<graph, req, hung, acked, maybe>>
    BY <1>5 DEF ReplicatorStep, TickStart, TickNext, TickEnd, SkipSuperseded, Claim,
       DispatchTimesOut, ReleaseDeferred, MarkReplicated, SettleCounted, SettleTransient,
       HealStart, HealProbe, HealMark, HealEnd, SweepStart, SweepRead, SweepUnreadable,
       SweepAct, SweepEnd, Prune, Recover, sysVars, ackVars
  <2> QED
    BY <1>5, <1>i, <2>1, ReplicatorSays, IdleKeeps
<1>6. CASE \E i \in DOMAIN rows : BackoffElapses(i) \/ OperatorRequeues(i)
  <2>1. UNCHANGED <<graph, req, hung, acked, maybe>>
    BY <1>6 DEF BackoffElapses, OperatorRequeues, sysVars, ackVars
  <2> QED
    BY <1>6, <1>i, <2>1, ReplicatorSays, IdleKeeps
<1>7. CASE UNCHANGED vars
  <2>1. UNCHANGED <<graph, req, hung, acked, maybe>> /\ rows' = rows
    BY <1>7 DEF vars, storeVars, ackVars
  <2> QED
    BY <1>i, <2>1, SameTable, IdleKeeps
<1> QED
  BY <1>1, <1>2, <1>3, <1>4, <1>5, <1>6, <1>7 DEF Next

\* A fresh daemon: no rows, and every node is as it was acknowledged.
LEMMA InitCInv == Init => CInv
<1> SUFFICES ASSUME Init PROVE CInv
  OBVIOUS
<1>1. Inv /\ DOMAIN rows = {} /\ DOMAIN batch = {} /\ hung = {}
  BY InitInv DEF Init, NoRows
<1>2. ASSUME NEW k \in Keys PROVE NodeOK(k) /\ RequestOK(k)
  <2>1. req[k].phase = "idle" /\ acked[k] = graph[k].content
    BY DEF Init, NoRequest
  <2>2. graph[k] = N!Absent \/ (graph[k].rev = 1 /\ graph[k].content \in Contents)
    BY DEF Init
  <2> QED
    BY <2>1, <2>2, ContentsAssumption
    DEF NodeOK, RequestOK, Landed, Writing, Allowed, N!Absent
<1> QED
  BY <1>1, <1>2 DEF CInv

\* As long as nothing takes a node away, the graph holds the last acknowledged
\* write of every node the outbox is done with, or one whose caller was told
\* neither success nor failure: for any number of nodes, rows, crashes, retries,
\* timeouts, late writes, lost flips and requeued rows, no refused write and no
\* older one wins (nodeUpsert, its row recorded ahead of the commit, the
\* replicator's replay by revision, the rollback and its compensating row).
THEOREM UpsertsConverge == ASSUME UpsertsOnly PROVE Spec => []Converged
<1>1. Init => CInv
  BY InitCInv
<1>2. CInv /\ [Next]_vars => CInv'
  BY NextKeepsCInv
<1>3. CInv => Converged
  BY DEF CInv, NodeOK, Landed, Allowed, Converged, Settled, Quiet, LockHeld, Agreed
<1> QED
  BY <1>1, <1>2, <1>3, PTL DEF Spec

=============================================================================
