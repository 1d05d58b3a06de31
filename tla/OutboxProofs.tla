----------------------------- MODULE OutboxProofs -----------------------------
(***************************************************************************)
(* Theorems about Outbox, for every set of nodes and contents and every    *)
(* value of the bounds.                                                    *)
(***************************************************************************)
EXTENDS Outbox, WellFoundedInduction, TLAPS

-----------------------------------------------------------------------------
(* The outbox table *)

IsTable(t) == /\ DOMAIN t \subseteq Nat
              /\ \A i \in DOMAIN t : t[i] \in Row

\* A set of naturals with an upper bound has a largest element.
LEMMA MaxExists ==
    ASSUME NEW S, S \subseteq Nat, S # {}, NEW b \in Nat, \A x \in S : x <= b
    PROVE  \E m \in S : \A x \in S : x <= m
<1> DEFINE U == {u \in Nat : \A x \in S : x <= u}
<1>1. U \subseteq Nat /\ U # {}
  OBVIOUS
<1>2. PICK u \in U : \A v \in U : ~(<<v, u>> \in OpToRel(<, Nat))
  BY <1>1, WFMin, NatLessThanWellFounded
<1>3. \A v \in U : ~(v < u)
  BY <1>2 DEF OpToRel
<1>4. u \in S
  <2> SUFFICES ASSUME u \notin S PROVE FALSE
    OBVIOUS
  <2>1. \A x \in S : x < u
    OBVIOUS
  <2>2. PICK x \in S : x < u
    BY <2>1
  <2>3. u - 1 \in U
    <3>1. u - 1 \in Nat
      BY <2>2
    <3>2. \A y \in S : y <= u - 1
      BY <2>1
    <3> QED BY <3>1, <3>2
  <2> QED
    BY <2>3, <1>3
<1> QED
  BY <1>4

\* nextSequenceId is above the cursor and every live row's id, and no higher than
\* the number of the row it is for.
LEMMA NextSequenceIdFresh ==
    ASSUME NEW t, IsTable(t), NEW c \in Nat, NEW n \in Nat, c < n,
           \A i \in DOMAIN t : t[i].seq < n
    PROVE  /\ NextSequenceId(t, c) \in Nat
           /\ NextSequenceId(t, c) > c
           /\ NextSequenceId(t, c) <= n
           /\ \A i \in DOMAIN t : t[i].seq < NextSequenceId(t, c)
<1> DEFINE S == SeqsInUse(t, c)
<1>1. S \subseteq Nat /\ S # {}
  BY DEF SeqsInUse, IsTable, Row
<1>2. \A x \in S : x <= n - 1
  BY <1>1 DEF SeqsInUse, IsTable, Row
<1>3. n - 1 \in Nat
  OBVIOUS
<1>4. \E m \in S : \A x \in S : x <= m
  <2> HIDE DEF S
  <2> QED BY <1>1, <1>2, <1>3, MaxExists
<1> DEFINE m == CHOOSE x \in S : \A y \in S : y <= x
<1>5. m \in S /\ \A y \in S : y <= m
  <2> HIDE DEF S
  <2> QED BY <1>4
<1>6. NextSequenceId(t, c) = 1 + m
  BY DEF NextSequenceId
<1>7. c \in S /\ \A i \in DOMAIN t : t[i].seq \in S
  BY DEF SeqsInUse
<1>8. m \in Nat /\ m <= n - 1 /\ c <= m /\ \A i \in DOMAIN t : t[i].seq <= m
  <2> HIDE DEF m, S
  <2> QED BY <1>1, <1>2, <1>5, <1>7
<1>9. \A i \in DOMAIN t : t[i].seq \in Nat
  BY DEF IsTable, Row
<1> HIDE DEF m
<1> QED
  BY <1>6, <1>8, <1>9

-----------------------------------------------------------------------------
(* What each statement does to the table.  Update: the rows stay, only row i *)
(* may change, and nobody's sequence id does.                                *)

Update(t, u, i) ==
    /\ DOMAIN u = DOMAIN t
    /\ \A j \in DOMAIN t : /\ u[j] \in Row
                           /\ u[j].seq = t[j].seq
                           /\ j # i => u[j] = t[j]

RowSpec == [kind: Kinds, key: Keys, rev: Nat, content: Contents \cup {NoContent},
            status: {"pending", "pending_commit"}]

\* record adds one row under its id, with the caller's status and the next
\* sequence id, and leaves the other rows alone.
LEMMA RecordAdds ==
    ASSUME NEW t, IsTable(t), NEW i \in Nat, i \notin DOMAIN t,
           NEW spec \in RowSpec, NEW c, NextSequenceId(t, c) \in Nat
    PROVE  LET u == Record(t, i, spec, c)
           IN  /\ IsTable(u)
               /\ DOMAIN u = DOMAIN t \cup {i}
               /\ \A j \in DOMAIN t : u[j] = t[j]
               /\ u[i].seq = NextSequenceId(t, c)
               /\ u[i].status = spec.status
               /\ ~u[i].completed
<1> DEFINE q == NextSequenceId(t, c)
<1>1. NewRow(spec, q) \in Row
  <2>1. q \in Nat
    OBVIOUS
  <2> HIDE DEF q
  <2> QED BY <2>1 DEF NewRow, Row, RowSpec, Statuses, Reasons
<1> QED
  BY <1>1 DEF Record, IsTable, NewRow

\* markEntryStatus touches one row at most; it keeps what the row says and
\* sets its status.
LEMMA MarkUpdates ==
    ASSUME NEW t, IsTable(t), NEW i, NEW st \in Statuses, NEW bump \in {0, 1},
           NEW why \in Reasons
    PROVE  LET u == MarkEntryStatus(t, i, st, bump, why)
           IN  /\ Update(t, u, i)
               /\ i \in DOMAIN t => u[i].status = st
               /\ i \in DOMAIN t /\ u[i].completed => t[i].completed \/ st = "replicated"
<1>1. CASE i \notin DOMAIN t
  BY <1>1 DEF MarkEntryStatus, Update, IsTable
<1>2. CASE i \in DOMAIN t
  <2> DEFINE b == t[i].completed \/ (st = "replicated")
             w == IF st = "dead" THEN why ELSE t[i].reason
             r == Marked(t[i], st, bump, why)
  <2>1. t[i] \in Row
    BY <1>2 DEF IsTable
  <2>2. t[i].attempts + bump \in Nat
    BY <2>1 DEF Row
  <2>3. b \in BOOLEAN /\ w \in Reasons /\ (st # "failed") \in BOOLEAN
    BY <2>1 DEF Row
  <2>4. /\ r \in Row /\ r.seq = t[i].seq /\ r.status = st /\ r.completed = b
    BY <2>1, <2>2, <2>3 DEF Row, Marked
  <2>5. MarkEntryStatus(t, i, st, bump, why) = [t EXCEPT ![i] = r]
    BY <1>2 DEF MarkEntryStatus
  <2> HIDE DEF r
  <2> QED
    BY <1>2, <2>4, <2>5 DEF Update, IsTable
<1> QED
  BY <1>1, <1>2

\* recordTransientFailure reschedules one row at most, as 'failed'.
LEMMA TransientUpdates ==
    ASSUME NEW t, IsTable(t), NEW i
    PROVE  LET u == RecordTransientFailure(t, i)
           IN  /\ Update(t, u, i)
               /\ i \in DOMAIN t => /\ u[i].status = "failed"
                                    /\ u[i].completed = t[i].completed
<1>1. CASE i \notin DOMAIN t
  BY <1>1 DEF RecordTransientFailure, Update, IsTable
<1>2. CASE i \in DOMAIN t
  <2> DEFINE r == Rescheduled(t[i])
  <2>1. t[i] \in Row
    BY <1>2 DEF IsTable
  <2>2. t[i].transients + 1 \in Nat
    BY <2>1 DEF Row
  <2>3. /\ r \in Row /\ r.seq = t[i].seq /\ r.status = "failed"
        /\ r.completed = t[i].completed
    BY <2>1, <2>2 DEF Row, Statuses, Rescheduled
  <2>4. RecordTransientFailure(t, i) = [t EXCEPT ![i] = r]
    BY <1>2 DEF RecordTransientFailure
  <2> HIDE DEF r
  <2> QED
    BY <1>2, <2>3, <2>4 DEF Update, IsTable
<1> QED
  BY <1>1, <1>2

\* The flip touches one row at most and only from 'pending_commit'.
LEMMA MarkCommittedUpdates ==
    ASSUME NEW t, IsTable(t), NEW i
    PROVE  LET u == MarkCommitted(t, i)
           IN  /\ Update(t, u, i)
               /\ i \in DOMAIN t => u[i].completed = t[i].completed
               /\ i \in DOMAIN t => \/ u[i] = t[i]
                                    \/ /\ t[i].status = "pending_commit"
                                       /\ u[i].status = "pending"
  BY DEF MarkCommitted, Update, IsTable, Row, Statuses

\* The claim touches one row at most and only an eligible one.
LEMMA ClaimUpdates ==
    ASSUME NEW t, IsTable(t), NEW i
    PROVE  LET u == ClaimForReplication(t, i)
           IN  /\ Update(t, u, i)
               /\ i \in Eligible(t) => /\ i \in DOMAIN t
                                       /\ t[i].status \in {"pending", "failed"}
                                       /\ u[i].status = "replicating"
                                       /\ u[i].completed = t[i].completed
               /\ i \notin Eligible(t) => u = t
  BY DEF ClaimForReplication, Eligible, Update, IsTable, Row, Statuses

\* The operator's requeue turns one row to 'failed', not completed.
LEMMA RequeueDeadUpdates ==
    ASSUME NEW t, IsTable(t), NEW i \in DOMAIN t
    PROVE  LET u == RequeueDead(t, i)
           IN  /\ Update(t, u, i)
               /\ u[i].status = "failed"
               /\ ~u[i].completed
  BY DEF RequeueDead, Update, IsTable, Row, Statuses, Reasons

\* Boot recovery turns claimed, uncompleted rows to 'pending' and keeps the
\* rest.
LEMMA RequeueReplicatingUpdates ==
    ASSUME NEW t, IsTable(t)
    PROVE  LET u == RequeueReplicating(t)
           IN  /\ DOMAIN u = DOMAIN t
               /\ IsTable(u)
               /\ \A j \in DOMAIN t :
                    /\ u[j].seq = t[j].seq
                    /\ u[j].completed = t[j].completed
                    /\ IF ~t[j].completed /\ t[j].status = "replicating"
                       THEN u[j].status = "pending" ELSE u[j] = t[j]
  BY DEF RequeueReplicating, IsTable, Row, Statuses

\* A removal leaves the surviving rows as they were.
LEMMA RemoveShrinks ==
    ASSUME NEW t, IsTable(t), NEW S
    PROVE  LET u == Remove(t, S)
           IN  /\ IsTable(u)
               /\ DOMAIN u = DOMAIN t \ S
               /\ \A j \in DOMAIN u : u[j] = t[j]
  BY DEF Remove, IsTable

\* removeIfPending removes a row only if nobody claimed it.
LEMMA RemoveIfPendingShrinks ==
    ASSUME NEW t, IsTable(t), NEW i
    PROVE  LET u == RemoveIfPending(t, i)
           IN  /\ IsTable(u)
               /\ DOMAIN u \subseteq DOMAIN t
               /\ \A j \in DOMAIN u : u[j] = t[j]
               /\ \A j \in DOMAIN t \ DOMAIN u :
                    j = i /\ t[j].status \in {"pending", "pending_commit"}
<1>1. CASE Removable(t, i)
  <2>1. RemoveIfPending(t, i) = Remove(t, {i})
    BY <1>1 DEF RemoveIfPending
  <2>2. /\ IsTable(Remove(t, {i}))
        /\ DOMAIN Remove(t, {i}) = DOMAIN t \ {i}
        /\ \A j \in DOMAIN Remove(t, {i}) : Remove(t, {i})[j] = t[j]
    BY RemoveShrinks
  <2> QED
    BY <1>1, <2>1, <2>2 DEF Removable
<1>2. CASE ~Removable(t, i)
  BY <1>2 DEF RemoveIfPending
<1> QED
  BY <1>1, <1>2

-----------------------------------------------------------------------------
(* The type invariant and what makes it inductive: sequence ids are bounded  *)
(* by row ids (so a next one exists), the row in hand is one of the tick's   *)
(* snapshot, and a request that still has to write carries a real content.   *)

StoreInv ==
    /\ nextRow \in Nat \ {0}
    /\ IsTable(rows)
    /\ DOMAIN rows \subseteq 1 .. (nextRow - 1)
    /\ cursor \in Nat
    /\ cursor < nextRow
    /\ \A i \in DOMAIN rows : rows[i].seq <= i
    /\ SeqFollowsOrder

RequestInv ==
    /\ graph \in [Keys -> N!Node]
    /\ req \in [Keys -> Request]
    /\ hung \subseteq HungWrite
    /\ crashes \in Nat
    /\ acked \in [Keys -> Contents \cup {NoContent}]
    /\ maybe \in [Keys -> SUBSET (Contents \cup {NoContent})]
    /\ \A k \in Keys : req[k].phase \notin {"idle", "delete"} => req[k].content \in Contents

TickInv ==
    /\ pc \in PCs
    /\ IsTable(batch)
    /\ \A i \in DOMAIN batch : i < nextRow /\ batch[i].seq < nextRow
    /\ cur \in Nat
    /\ advanced \in Nat
    /\ advanced < nextRow
    /\ deferred \subseteq Keys
    /\ todo \subseteq Nat
    /\ verdict \in Verdicts
    /\ pc \in {"claim", "skip"} \cup Replaying => cur \in DOMAIN batch

TypeInv == StoreInv /\ RequestInv /\ TickInv

\* The inductive type invariant is stronger than TypeOK.
LEMMA TypeInvImpliesTypeOK == TypeInv => TypeOK
  BY DEF TypeInv, StoreInv, RequestInv, TickInv, TypeOK, IsTable

\* A fresh daemon is well typed.
LEMMA InitTypeInv == Init => TypeInv
<1> SUFFICES ASSUME Init PROVE TypeInv
  OBVIOUS
<1>1. StoreInv
  BY DEF Init, StoreInv, IsTable, NoRows, SeqFollowsOrder
<1>2. RequestInv
  BY DEF Init, RequestInv, NoRequest, Request, Phases, N!Node, N!Absent
<1>3. TickInv
  BY DEF Init, TickInv, IsTable, NoRows, PCs, Verdicts, Replaying
<1> QED
  BY <1>1, <1>2, <1>3 DEF TypeInv

\* Three ways a step leaves the store well-formed.
LEMMA UpdateKeepsStore ==
    ASSUME StoreInv, NEW i, Update(rows, rows', i), UNCHANGED <<nextRow, cursor>>
    PROVE  StoreInv'
  BY DEF StoreInv, Update, IsTable, SeqFollowsOrder

\* Removing rows keeps the table typed and in sequence order.
LEMMA RemovalKeepsStore ==
    ASSUME StoreInv, IsTable(rows'), DOMAIN rows' \subseteq DOMAIN rows,
           \A j \in DOMAIN rows' : rows'[j] = rows[j],
           UNCHANGED <<nextRow, cursor>>
    PROVE  StoreInv'
  BY DEF StoreInv, SeqFollowsOrder

\* Recording keeps the table typed and in order: the new row has the highest
\* id and the highest sequence id.
LEMMA RecordKeepsStore ==
    ASSUME StoreInv, NEW spec \in RowSpec, RecordRow(spec)
    PROVE  /\ StoreInv'
           /\ nextRow' = nextRow + 1
           /\ nextRow \notin DOMAIN rows
           /\ DOMAIN rows' = DOMAIN rows \cup {nextRow}
           /\ \A j \in DOMAIN rows : rows'[j] = rows[j]
           /\ \A j \in DOMAIN rows : rows[j].seq < rows'[nextRow].seq
           /\ rows'[nextRow].status = spec.status
           /\ ~rows'[nextRow].completed
<1> DEFINE q == NextSequenceId(rows, cursor)
<1>1. nextRow \in Nat /\ nextRow \notin DOMAIN rows /\ IsTable(rows)
  BY DEF StoreInv
<1>2. \A i \in DOMAIN rows : rows[i].seq < nextRow
  BY DEF StoreInv, IsTable, Row
<1>3. q \in Nat /\ q <= nextRow /\ \A i \in DOMAIN rows : rows[i].seq < q
  BY <1>1, <1>2, NextSequenceIdFresh DEF StoreInv
<1>4. rows' = Record(rows, nextRow, spec, cursor) /\ nextRow' = nextRow + 1 /\ cursor' = cursor
  BY DEF RecordRow
<1> DEFINE u == Record(rows, nextRow, spec, cursor)
<1>5. /\ IsTable(u)
      /\ DOMAIN u = DOMAIN rows \cup {nextRow}
      /\ \A j \in DOMAIN rows : u[j] = rows[j]
      /\ u[nextRow].seq = q
      /\ u[nextRow].status = spec.status
      /\ ~u[nextRow].completed
  BY <1>1, <1>3, RecordAdds
<1>a. rows' = u
  BY <1>4
<1> HIDE DEF u
<1> HIDE DEF q
<1>6. SeqFollowsOrder'
  BY <1>1, <1>3, <1>4, <1>5, <1>a DEF StoreInv, SeqFollowsOrder
<1>7. StoreInv'
  BY <1>1, <1>3, <1>4, <1>5, <1>6, <1>a DEF StoreInv
<1> QED
  BY <1>1, <1>3, <1>4, <1>5, <1>7, <1>a

-----------------------------------------------------------------------------
(* Requests *)

\* What every step of a request keeps: its own record is well-formed, the others
\* are untouched.
LEMMA RequestMoves ==
    ASSUME req \in [Keys -> Request], NEW k \in Keys, NEW r \in Request,
           \A x \in Keys : req[x].phase \notin {"idle", "delete"} => req[x].content \in Contents,
           r.phase \notin {"idle", "delete"} => r.content \in Contents,
           req' = [req EXCEPT ![k] = r]
    PROVE  /\ req' \in [Keys -> Request]
           /\ \A x \in Keys :
                req'[x].phase \notin {"idle", "delete"} => req'[x].content \in Contents
  OBVIOUS

\* Every write of a node yields a node.
LEMMA NodeWrites ==
    ASSUME NEW g \in N!Node, NEW r \in Nat, NEW c \in Contents \cup {NoContent}
    PROVE  /\ N!Absent \in N!Node
           /\ N!CommitAt(g, r, c) \in N!Node
           /\ N!RestoreOver(g, c) \in N!Node
           /\ N!ReplayUpsert(g, r, c) \in N!Node
  BY DEF N!Node, N!Absent, N!CommitAt, N!RestoreOver, N!ReplayUpsert,
         N!UpsertNode, N!ReplayNodeAtRevision

\* The idle request is a request.
LEMMA NoRequestType == NoRequest \in Request
  BY DEF NoRequest, Request, Phases, N!Node, N!Absent

\* Steps that touch neither the store nor the replicator.
InlineStep(k) ==
    \/ UpsertCommit(k) \/ UpsertConflict(k) \/ UpsertUnknown(k)
    \/ \E b \in BOOLEAN : UpsertThrows(k, b)
    \/ FanoutDone(k) \/ FanoutFails(k) \/ Undo(k) \/ UndoFails(k) \/ GiveUp(k)
    \/ DeleteApply(k) \/ DeleteThrows(k)

\* Request steps that leave the table alone keep requests, graph and ghosts
\* typed.
LEMMA InlineKeepsRequests ==
    ASSUME RequestInv, NEW k \in Keys, InlineStep(k)
    PROVE  RequestInv'
<1> USE DEF RequestInv
<1>0. /\ graph[k] \in N!Node /\ req[k] \in Request /\ req[k].prior \in N!Node
      /\ req[k].prior.rev \in Nat /\ req[k].content \in Contents \cup {NoContent}
      /\ req[k].row \in Nat /\ req[k].prior.content \in Contents \cup {NoContent}
  BY DEF Request, N!Node
<1>1. CASE UpsertCommit(k)
  <2> DEFINE r == [req[k] EXCEPT !.phase = "flip"]
  <2>1. r \in Request /\ r.content = req[k].content
    BY <1>0 DEF Request, Phases
  <2>2. req' = [req EXCEPT ![k] = r] /\ req[k].content \in Contents
    BY <1>1 DEF UpsertCommit
  <2>3. graph' \in [Keys -> N!Node]
    BY <1>0, <1>1, NodeWrites DEF UpsertCommit
  <2> HIDE DEF r
  <2>4. UNCHANGED <<hung, crashes, acked, maybe>>
    BY <1>1 DEF UpsertCommit, ackVars
  <2> QED BY <2>1, <2>2, <2>3, <2>4, RequestMoves
<1>2. CASE UpsertConflict(k)
  <2> DEFINE r == [req[k] EXCEPT !.phase = "retract", !.conflict = TRUE]
  <2>1. r \in Request /\ r.content = req[k].content
    BY <1>0 DEF Request, Phases
  <2>2. req' = [req EXCEPT ![k] = r] /\ req[k].content \in Contents
    BY <1>2 DEF UpsertConflict
  <2> HIDE DEF r
  <2>4. UNCHANGED <<graph, hung, crashes, acked, maybe>>
    BY <1>2 DEF UpsertConflict, ackVars
  <2> QED BY <2>1, <2>2, <2>4, RequestMoves
<1>3. CASE UpsertUnknown(k)
  <2>1. req[k].content \in Contents
    BY <1>3 DEF UpsertUnknown
  <2>2. hung' \subseteq HungWrite
    BY <1>0, <1>3, <2>1 DEF UpsertUnknown, HungWrite
  <2>3. req' = [req EXCEPT ![k] = NoRequest] /\ NoRequest.phase = "idle"
    BY <1>3 DEF UpsertUnknown, Finish, NoRequest
  <2>4. UNCHANGED <<graph, crashes, acked>>
        /\ maybe' \in [Keys -> SUBSET (Contents \cup {NoContent})]
    BY <1>0, <1>3 DEF UpsertUnknown, LeaveOpen
  <2> QED BY <2>2, <2>3, <2>4, RequestMoves, NoRequestType
<1>4. CASE \E b \in BOOLEAN : UpsertThrows(k, b)
  <2>0. PICK b \in BOOLEAN : UpsertThrows(k, b)
    BY <1>4
  <2> DEFINE r == [req[k] EXCEPT !.phase = "undo"]
  <2>1. r \in Request /\ r.content = req[k].content
    BY <1>0 DEF Request, Phases
  <2>2. req' = [req EXCEPT ![k] = r] /\ req[k].content \in Contents
    BY <2>0 DEF UpsertThrows
  <2>3. graph' \in [Keys -> N!Node]
    BY <1>0, <2>0, NodeWrites DEF UpsertThrows
  <2> HIDE DEF r
  <2>4. UNCHANGED <<hung, crashes, acked, maybe>>
    BY <2>0 DEF UpsertThrows, ackVars
  <2> QED BY <2>1, <2>2, <2>3, <2>4, RequestMoves
<1>5. CASE FanoutDone(k)
  <2>1. req' = [req EXCEPT ![k] = NoRequest] /\ NoRequest.phase = "idle"
    BY <1>5 DEF FanoutDone, Finish, NoRequest
  <2>2. /\ UNCHANGED <<graph, hung, crashes>>
        /\ acked' \in [Keys -> Contents \cup {NoContent}]
        /\ maybe' \in [Keys -> SUBSET (Contents \cup {NoContent})]
    BY <1>0, <1>5 DEF FanoutDone, Acknowledge
  <2> QED BY <2>1, <2>2, RequestMoves, NoRequestType
<1>6. CASE FanoutFails(k)
  <2> DEFINE r == [req[k] EXCEPT !.phase = "undo"]
  <2>1. r \in Request /\ r.content = req[k].content
    BY <1>0 DEF Request, Phases
  <2>2. req' = [req EXCEPT ![k] = r] /\ req[k].content \in Contents
    BY <1>6 DEF FanoutFails
  <2> HIDE DEF r
  <2>4. UNCHANGED <<graph, hung, crashes, acked, maybe>>
    BY <1>6 DEF FanoutFails, ackVars
  <2> QED BY <2>1, <2>2, <2>4, RequestMoves
<1>7. CASE Undo(k)
  <2>0. Undone(k) \in N!Node
    BY <1>0, NodeWrites DEF Undone
  <2> DEFINE r == [req[k] EXCEPT !.phase = "retract", !.back = Undone(k)]
  <2>1. r \in Request /\ r.content = req[k].content
    BY <1>0, <2>0 DEF Request, Phases
  <2>2. req' = [req EXCEPT ![k] = r] /\ req[k].content \in Contents
    BY <1>7 DEF Undo
  <2>3. graph' \in [Keys -> N!Node]
    BY <1>7, <2>0 DEF Undo
  <2> HIDE DEF r
  <2>4. UNCHANGED <<hung, crashes, acked, maybe>>
    BY <1>7 DEF Undo, ackVars
  <2> QED BY <2>1, <2>2, <2>3, <2>4, RequestMoves
<1>8. CASE UndoFails(k)
  <2>0. [req[k].prior EXCEPT !.rev = 0] \in N!Node
    BY <1>0 DEF N!Node
  <2> DEFINE r == [req[k] EXCEPT !.phase = "retract",
                                 !.back = [req[k].prior EXCEPT !.rev = 0]]
  <2>1. r \in Request /\ r.content = req[k].content
    BY <1>0, <2>0 DEF Request, Phases
  <2>2. req' = [req EXCEPT ![k] = r] /\ req[k].content \in Contents
    BY <1>8 DEF UndoFails
  <2> HIDE DEF r
  <2>3. UNCHANGED <<graph, hung, crashes, acked>>
        /\ maybe' \in [Keys -> SUBSET (Contents \cup {NoContent})]
    BY <1>0, <1>8 DEF UndoFails, LeaveOpen
  <2> QED BY <2>1, <2>2, <2>3, RequestMoves
<1>9. CASE GiveUp(k)
  <2>1. req' = [req EXCEPT ![k] = NoRequest] /\ NoRequest.phase = "idle"
    BY <1>9 DEF GiveUp, Finish, NoRequest
  <2>2. UNCHANGED <<graph, hung, crashes, acked, maybe>>
    BY <1>9 DEF GiveUp, ackVars
  <2> QED BY <2>1, <2>2, RequestMoves, NoRequestType
<1>10. CASE DeleteApply(k)
  <2>1. req' = [req EXCEPT ![k] = NoRequest] /\ NoRequest.phase = "idle"
    BY <1>10 DEF DeleteApply, Finish, NoRequest
  <2>2. /\ UNCHANGED <<hung, crashes>>
        /\ graph' \in [Keys -> N!Node]
        /\ acked' \in [Keys -> Contents \cup {NoContent}]
        /\ maybe' \in [Keys -> SUBSET (Contents \cup {NoContent})]
    BY <1>0, <1>10, NodeWrites DEF DeleteApply, Acknowledge
  <2> QED BY <2>1, <2>2, RequestMoves, NoRequestType
<1>11. CASE DeleteThrows(k)
  <2>1. req' = [req EXCEPT ![k] = NoRequest] /\ NoRequest.phase = "idle"
    BY <1>11 DEF DeleteThrows, Finish, NoRequest
  <2>2. /\ UNCHANGED <<graph, hung, crashes, acked>>
        /\ maybe' \in [Keys -> SUBSET (Contents \cup {NoContent})]
    BY <1>0, <1>11 DEF DeleteThrows, LeaveOpen
  <2> QED BY <2>1, <2>2, RequestMoves, NoRequestType
<1> QED
  BY <1>1, <1>2, <1>3, <1>4, <1>5, <1>6, <1>7, <1>8, <1>9, <1>10, <1>11 DEF InlineStep

-----------------------------------------------------------------------------
(* What requests, the clock and the operator may do to the table while the   *)
(* replicator is at work: record, flip, retract what nobody claimed, and     *)
(* bring a dead row back.                                                    *)

NewIds == nextRow .. (nextRow' - 1)

OthersMove ==
    /\ nextRow <= nextRow'
    /\ DOMAIN rows' \subseteq DOMAIN rows \cup NewIds
    /\ NewIds \subseteq DOMAIN rows'
    /\ \A i \in NewIds : rows'[i].status \in L!Recorded /\ ~rows'[i].completed
    /\ \A i \in DOMAIN rows \ DOMAIN rows' :
            rows[i].status \in {"pending", "pending_commit"}
    /\ \A i \in DOMAIN rows \cap DOMAIN rows' :
        \/ rows'[i].status = rows[i].status /\ rows'[i].completed = rows[i].completed
        \/ /\ rows[i].status = "pending_commit" /\ rows'[i].status = "pending"
           /\ rows'[i].completed = rows[i].completed
        \/ rows[i].status = "dead" /\ rows'[i].status = "failed" /\ ~rows'[i].completed

\* A new row is a move of the actors beside the replicator.
LEMMA RecordIsOthers ==
    ASSUME StoreInv, NEW spec \in RowSpec, RecordRow(spec)
    PROVE  StoreInv' /\ OthersMove
<1>1. /\ StoreInv' /\ nextRow' = nextRow + 1 /\ nextRow \notin DOMAIN rows
      /\ DOMAIN rows' = DOMAIN rows \cup {nextRow}
      /\ \A j \in DOMAIN rows : rows'[j] = rows[j]
      /\ rows'[nextRow].status = spec.status /\ ~rows'[nextRow].completed
  BY RecordKeepsStore
<1>2. nextRow \in Nat
  BY DEF StoreInv
<1>3. NewIds = {nextRow}
  BY <1>1, <1>2 DEF NewIds
<1>4. spec.status \in L!Recorded
  BY DEF RowSpec, L!Recorded
<1> QED
  BY <1>1, <1>2, <1>3, <1>4 DEF OthersMove

\* A retraction is a move of the actors beside the replicator: the row was
\* not claimed.
LEMMA RemovalIsOthers ==
    ASSUME StoreInv, NEW i, rows' = RemoveIfPending(rows, i),
           UNCHANGED <<nextRow, cursor>>
    PROVE  StoreInv' /\ OthersMove
<1> DEFINE u == RemoveIfPending(rows, i)
<1>0. IsTable(rows) /\ nextRow \in Nat
  BY DEF StoreInv
<1>1. /\ IsTable(u) /\ DOMAIN u \subseteq DOMAIN rows
      /\ \A j \in DOMAIN u : u[j] = rows[j]
      /\ \A j \in DOMAIN rows \ DOMAIN u : rows[j].status \in {"pending", "pending_commit"}
  BY <1>0, RemoveIfPendingShrinks
<1>2. rows' = u
  OBVIOUS
<1> HIDE DEF u
<1>3. StoreInv'
  BY <1>1, <1>2, RemovalKeepsStore
<1>4. NewIds = {}
  BY <1>0 DEF NewIds
<1> QED
  BY <1>0, <1>1, <1>2, <1>3, <1>4 DEF OthersMove

\* A flip is a move of the actors beside the replicator.
LEMMA FlipIsOthers ==
    ASSUME StoreInv, NEW i, rows' = MarkCommitted(rows, i) \/ rows' = rows,
           UNCHANGED <<nextRow, cursor>>
    PROVE  StoreInv' /\ OthersMove
<1> DEFINE u == MarkCommitted(rows, i)
<1>0. IsTable(rows) /\ nextRow \in Nat
  BY DEF StoreInv
<1>1. /\ Update(rows, u, i)
      /\ i \in DOMAIN rows => u[i].completed = rows[i].completed
      /\ i \in DOMAIN rows =>
            \/ u[i] = rows[i]
            \/ rows[i].status = "pending_commit" /\ u[i].status = "pending"
  BY <1>0, MarkCommittedUpdates
<1>2. rows' = u \/ rows' = rows
  OBVIOUS
<1> HIDE DEF u
<1>3. Update(rows, rows', i)
  BY <1>0, <1>1, <1>2 DEF Update, IsTable
<1>4. StoreInv'
  BY <1>3, UpdateKeepsStore
<1>5. NewIds = {}
  BY <1>0 DEF NewIds
<1> QED
  BY <1>0, <1>1, <1>2, <1>3, <1>4, <1>5 DEF OthersMove, Update

\* Steps of a request that touch the table.
TableStep(k) ==
    \/ \E c \in Contents : UpsertRecord(k, c)
    \/ \E ok \in BOOLEAN : UpsertFlip(k, ok)
    \/ Retract(k) \/ Compensate(k) \/ Reread(k) \/ DeleteRecord(k)

\* Request steps that change the table keep it in order and make only moves
\* the replicator tolerates.
LEMMA TableKeepsStore ==
    ASSUME StoreInv, RequestInv, NEW k \in Keys, TableStep(k)
    PROVE  StoreInv' /\ OthersMove
<1>0. /\ graph[k] \in N!Node /\ req[k] \in Request
      /\ graph[k].rev \in Nat /\ graph[k].content \in Contents \cup {NoContent}
      /\ req[k].back \in N!Node /\ req[k].content \in Contents \cup {NoContent}
  BY DEF RequestInv, Request, N!Node
<1>s. /\ \A r \in Nat, c \in Contents \cup {NoContent}, st \in {"pending", "pending_commit"} :
            UpsertSpec(k, r, c, st) \in RowSpec
      /\ DeleteSpec(k) \in RowSpec
  BY DEF RowSpec, UpsertSpec, DeleteSpec, Kinds
<1>1. ASSUME NEW c \in Contents, UpsertRecord(k, c) PROVE StoreInv' /\ OthersMove
  <2>1. RecordRow(UpsertSpec(k, graph[k].rev + 1, c, "pending_commit"))
    BY <1>1 DEF UpsertRecord
  <2>2. UpsertSpec(k, graph[k].rev + 1, c, "pending_commit") \in RowSpec
    BY <1>0, <1>s
  <2> QED BY <2>1, <2>2, RecordIsOthers
<1>2. ASSUME NEW ok \in BOOLEAN, UpsertFlip(k, ok) PROVE StoreInv' /\ OthersMove
  BY <1>2, FlipIsOthers DEF UpsertFlip
<1>3. CASE Retract(k)
  BY <1>3, RemovalIsOthers DEF Retract
<1>4. CASE Compensate(k)
  <2> DEFINE back == IF req[k].conflict THEN graph[k] ELSE req[k].back
             spec == IF N!IsPresent(back)
                     THEN UpsertSpec(k, back.rev, back.content, "pending")
                     ELSE DeleteSpec(k)
  <2>1. back \in N!Node
    BY <1>0
  <2>2. spec \in RowSpec
    <3> HIDE DEF back
    <3> QED BY <1>s, <2>1 DEF N!Node
  <2>3. RecordRow(spec)
    BY <1>4 DEF Compensate
  <2> HIDE DEF spec
  <2> QED BY <2>2, <2>3, RecordIsOthers
<1>5. CASE Reread(k)
  <2>1. RecordRow(UpsertSpec(k, graph[k].rev + 1, req[k].content, "pending_commit"))
    BY <1>5 DEF Reread
  <2>2. UpsertSpec(k, graph[k].rev + 1, req[k].content, "pending_commit") \in RowSpec
    BY <1>0, <1>s
  <2> QED BY <2>1, <2>2, RecordIsOthers
<1>6. CASE DeleteRecord(k)
  <2>1. RecordRow(DeleteSpec(k))
    BY <1>6 DEF DeleteRecord
  <2> QED BY <1>s, <2>1, RecordIsOthers
<1> QED
  BY <1>1, <1>2, <1>3, <1>4, <1>5, <1>6 DEF TableStep

\* Request steps that change the table keep requests, graph and ghosts typed.
LEMMA TableKeepsRequests ==
    ASSUME RequestInv, StoreInv, NEW k \in Keys, TableStep(k)
    PROVE  RequestInv'
<1> USE DEF RequestInv
<1>0. /\ graph[k] \in N!Node /\ req[k] \in Request
      /\ req[k].content \in Contents \cup {NoContent} /\ nextRow \in Nat
  BY DEF Request, N!Node, StoreInv
<1>u. UNCHANGED <<graph, hung, crashes, acked, maybe>>
  BY DEF TableStep, UpsertRecord, UpsertFlip, Retract, Compensate, Reread,
         DeleteRecord, ackVars
<1>i. NoRequest.phase = "idle" /\ NoRequest \in Request
  BY NoRequestType DEF NoRequest
<1>1. ASSUME NEW c \in Contents, UpsertRecord(k, c) PROVE RequestInv'
  <2> DEFINE r == [NoRequest EXCEPT !.phase = "commit", !.content = c,
                                    !.prior = graph[k], !.row = nextRow]
  <2>1. r \in Request /\ r.content = c
    BY <1>0, <1>i DEF Request, Phases, NoRequest
  <2>2. req' = [req EXCEPT ![k] = r]
    BY <1>1 DEF UpsertRecord
  <2> HIDE DEF r
  <2> QED BY <1>u, <2>1, <2>2, RequestMoves
<1>2. ASSUME NEW ok \in BOOLEAN, UpsertFlip(k, ok) PROVE RequestInv'
  <2> DEFINE r == [req[k] EXCEPT !.phase = "fanout"]
  <2>1. r \in Request /\ r.content = req[k].content
    BY <1>0 DEF Request, Phases
  <2>2. req' = [req EXCEPT ![k] = r] /\ req[k].content \in Contents
    BY <1>2 DEF UpsertFlip
  <2> HIDE DEF r
  <2> QED BY <1>u, <2>1, <2>2, RequestMoves
<1>p. ASSUME NEW ph \in Phases, req[k].phase \notin {"idle", "delete"},
             req' = [req EXCEPT ![k].phase = ph]
      PROVE  RequestInv'
  <2> DEFINE r == [req[k] EXCEPT !.phase = ph]
  <2>1. r \in Request /\ r.content = req[k].content
    BY <1>0 DEF Request
  <2>2. req' = [req EXCEPT ![k] = r] /\ req[k].content \in Contents
    BY <1>p
  <2> HIDE DEF r
  <2> QED BY <1>u, <2>1, <2>2, RequestMoves
<1>f. ASSUME Finish(k) PROVE RequestInv'
  BY <1>f, <1>i, <1>u, RequestMoves DEF Finish
<1>3. CASE Retract(k)
  <2>1. req[k].phase = "retract" /\ "compensate" \in Phases /\ "reread" \in Phases
    BY <1>3 DEF Retract, Phases
  <2>2. \/ Finish(k)
        \/ req' = [req EXCEPT ![k].phase = "compensate"]
        \/ req' = [req EXCEPT ![k].phase = "reread"]
    BY <1>3 DEF Retract
  <2> QED BY <1>p, <1>f, <2>1, <2>2
<1>4. CASE Compensate(k)
  <2>1. req[k].phase = "compensate" /\ "reread" \in Phases
    BY <1>4 DEF Compensate, Phases
  <2>2. Finish(k) \/ req' = [req EXCEPT ![k].phase = "reread"]
    BY <1>4 DEF Compensate
  <2> QED BY <1>p, <1>f, <2>1, <2>2
<1>5. CASE Reread(k)
  <2> DEFINE r == [req[k] EXCEPT !.phase = "commit", !.prior = graph[k],
                                 !.row = nextRow, !.conflict = FALSE]
  <2>1. r \in Request /\ r.content = req[k].content
    BY <1>0 DEF Request, Phases
  <2>2. req' = [req EXCEPT ![k] = r] /\ req[k].content \in Contents
    BY <1>5 DEF Reread
  <2> HIDE DEF r
  <2> QED BY <1>u, <2>1, <2>2, RequestMoves
<1>6. CASE DeleteRecord(k)
  <2> DEFINE r == [NoRequest EXCEPT !.phase = "delete", !.row = nextRow]
  <2>1. r \in Request /\ r.phase = "delete"
    BY <1>0, <1>i DEF Request, Phases, NoRequest
  <2>2. req' = [req EXCEPT ![k] = r]
    BY <1>6 DEF DeleteRecord
  <2> HIDE DEF r
  <2> QED BY <1>u, <2>1, <2>2, RequestMoves
<1> QED
  BY <1>1, <1>2, <1>3, <1>4, <1>5, <1>6 DEF TableStep

\* A write that lands late, or is lost, keeps requests and graph typed.
LEMMA LateWriteKeepsRequests ==
    ASSUME RequestInv, LateWrite
    PROVE  RequestInv'
<1> USE DEF RequestInv
<1>1. PICK h \in hung : HungLands(h) \/ HungLost(h)
  BY DEF LateWrite
<1>2. h.key \in Keys /\ h.rev \in Nat /\ h.content \in Contents
  BY DEF HungWrite
<1>3. hung' \subseteq HungWrite /\ UNCHANGED <<req, crashes>>
  BY <1>1 DEF HungLands, HungLost
<1>4. CASE HungLands(h)
  <2>1. graph' \in [Keys -> N!Node]
    BY <1>2, <1>4, NodeWrites DEF HungLands
  <2>2. UNCHANGED acked /\ maybe' \in [Keys -> SUBSET (Contents \cup {NoContent})]
    BY <1>2, <1>4 DEF HungLands, LeaveOpen
  <2> QED BY <1>3, <2>1, <2>2
<1>5. CASE HungLost(h)
  BY <1>3, <1>5 DEF HungLost, ackVars
<1> QED
  BY <1>1, <1>4, <1>5

-----------------------------------------------------------------------------
(* The claims.  DispatchOwnsRow and NoOrphanClaim are inductive only with:   *)
(* the rows of the snapshot the tick has still to come to are open (nobody   *)
(* but the tick closes one), the rows self-heal has still to probe are       *)
(* failed, a completed row is replicated (boot recovery requeues no          *)
(* completed one), and there is no snapshot outside a tick.                  *)

Ticking == {"next", "claim", "skip"} \cup Replaying

Open == {"pending", "failed"}

SnapshotOpen ==
    /\ pc \notin Ticking => DOMAIN batch = {}
    /\ \A i \in DOMAIN batch \cap DOMAIN rows :
            (pc \in Replaying /\ i = cur) \/ rows[i].status \in Open

HealOpen ==
    /\ pc \in {"probe", "healmark"} =>
        \A i \in todo : i \in DOMAIN rows /\ rows[i].status = "failed"
    /\ pc = "healmark" =>
        cur \in DOMAIN rows \ todo /\ rows[cur].status = "failed"

CompletedIsReplicated ==
    \A i \in DOMAIN rows : rows[i].completed => rows[i].status = "replicated"

ClaimInv ==
    /\ DispatchOwnsRow
    /\ NoOrphanClaim
    /\ SnapshotOpen
    /\ HealOpen
    /\ CompletedIsReplicated

Inv == StoreInv /\ RequestInv /\ TickInv /\ ClaimInv

\* The requests, the clock and the operator disturb no claim.
LEMMA OthersKeepClaims ==
    ASSUME StoreInv, TickInv, ClaimInv, StoreInv', OthersMove, UNCHANGED replVars
    PROVE  TickInv' /\ ClaimInv'
<1> USE DEF replVars
<1>1. TickInv'
  BY DEF TickInv, StoreInv, OthersMove, IsTable, Row
<1>0. /\ nextRow \in Nat /\ nextRow' \in Nat /\ DOMAIN rows \subseteq 1 .. (nextRow - 1)
      /\ \A i \in NewIds : i \notin DOMAIN rows /\ i \in Nat /\ i >= nextRow
  BY DEF StoreInv, NewIds
<1>2. DispatchOwnsRow'
  BY DEF ClaimInv, DispatchOwnsRow, OthersMove, Replaying
<1>3. NoOrphanClaim'
  BY <1>0 DEF ClaimInv, NoOrphanClaim, OthersMove, WithStatus, L!Recorded
<1>4. SnapshotOpen'
  <2>1. \A i \in DOMAIN batch : i < nextRow /\ i \in Nat
    BY DEF TickInv, IsTable
  <2>2. \A i \in DOMAIN batch \cap DOMAIN rows' : i \in DOMAIN rows
    BY <1>0, <2>1 DEF OthersMove, NewIds
  <2> QED BY <1>0, <2>2 DEF ClaimInv, SnapshotOpen, OthersMove, Open
<1>5. HealOpen'
  BY DEF ClaimInv, HealOpen, OthersMove
<1>6. CompletedIsReplicated'
  BY <1>0 DEF ClaimInv, CompletedIsReplicated, OthersMove
<1> QED
  BY <1>1, <1>2, <1>3, <1>4, <1>5, <1>6 DEF ClaimInv

\* A mark on one row, as the replicator makes it.
MarkOf(i, st) ==
    /\ Update(rows, rows', i)
    /\ i \in DOMAIN rows =>
        /\ rows'[i].status = st
        /\ rows'[i].completed => rows[i].completed \/ st = "replicated"
    /\ UNCHANGED nextRow

\* markEntryStatus is a mark of one row.
LEMMA MarkIsMark ==
    ASSUME StoreInv, NEW i, NEW st \in Statuses, NEW bump \in {0, 1}, NEW why \in Reasons,
           rows' = MarkEntryStatus(rows, i, st, bump, why), UNCHANGED <<nextRow, cursor>>
    PROVE  StoreInv' /\ MarkOf(i, st)
<1> DEFINE u == MarkEntryStatus(rows, i, st, bump, why)
<1>0. IsTable(rows)
  BY DEF StoreInv
<1>1. /\ Update(rows, u, i)
      /\ i \in DOMAIN rows => u[i].status = st
      /\ i \in DOMAIN rows /\ u[i].completed => rows[i].completed \/ st = "replicated"
  BY <1>0, MarkUpdates, ZenonT(60)
<1>2. rows' = u
  OBVIOUS
<1> HIDE DEF u
<1> QED
  BY <1>1, <1>2, UpdateKeepsStore DEF MarkOf

\* recordTransientFailure is a mark of one row as 'failed'.
LEMMA TransientIsMark ==
    ASSUME StoreInv, NEW i, rows' = RecordTransientFailure(rows, i),
           UNCHANGED <<nextRow, cursor>>
    PROVE  StoreInv' /\ MarkOf(i, "failed")
<1> DEFINE u == RecordTransientFailure(rows, i)
<1>0. IsTable(rows)
  BY DEF StoreInv
<1>1. /\ Update(rows, u, i)
      /\ i \in DOMAIN rows => u[i].status = "failed" /\ u[i].completed = rows[i].completed
  BY <1>0, TransientUpdates
<1>2. rows' = u
  OBVIOUS
<1> HIDE DEF u
<1> QED
  BY <1>1, <1>2, UpdateKeepsStore DEF MarkOf

\* Leaving a row: the tick marks it and goes on with the rest of the snapshot,
\* or drops the snapshot.
LEMMA LeavingKeepsClaims ==
    ASSUME StoreInv, TickInv, ClaimInv, pc \in Replaying \cup {"skip"},
           NEW st \in {"replicated", "failed", "dead", "pending"}, MarkOf(cur, st),
           batch' = Remove(batch, {cur}) \/ batch' = NoRows, cur' = 0, pc' = "next"
    PROVE  ClaimInv'
<1> USE DEF Replaying
<1>1. cur \in DOMAIN batch /\ (pc = "skip" => pc \notin Replaying)
  BY DEF TickInv
<1>2. cur \in DOMAIN rows => rows[cur].status \in Open \cup {"replicating"}
  BY <1>1 DEF ClaimInv, SnapshotOpen, DispatchOwnsRow
<1>3. DOMAIN rows' = DOMAIN rows /\ \A j \in DOMAIN rows : j # cur => rows'[j] = rows[j]
  BY DEF MarkOf, Update
<1>4. DOMAIN batch' \subseteq DOMAIN batch \ {cur}
  BY DEF Remove, NoRows
<1>5. DispatchOwnsRow' /\ HealOpen'
  BY DEF DispatchOwnsRow, HealOpen
<1>6. NoOrphanClaim'
  BY <1>3 DEF ClaimInv, NoOrphanClaim, WithStatus, MarkOf
<1>7. SnapshotOpen'
  BY <1>3, <1>4 DEF ClaimInv, SnapshotOpen, Ticking
<1>8. CompletedIsReplicated'
  BY <1>2, <1>3 DEF ClaimInv, CompletedIsReplicated, MarkOf, Open
<1> QED
  BY <1>5, <1>6, <1>7, <1>8 DEF ClaimInv

-----------------------------------------------------------------------------
(* What a step may do to the table in terms of RowLifecycle *)

RowsMove ==
    /\ nextRow <= nextRow'
    /\ DOMAIN rows' \subseteq DOMAIN rows \cup NewIds
    /\ NewIds \subseteq DOMAIN rows'
    /\ \A i \in NewIds : rows'[i].status \in L!Recorded
    /\ \A i \in DOMAIN rows \ DOMAIN rows' :
            <<rows[i].status, "gone">> \in L!Transitions
    /\ \A i \in DOMAIN rows \cap DOMAIN rows' :
            \/ rows'[i].status = rows[i].status
            \/ <<rows[i].status, rows'[i].status>> \in L!Transitions

\* A move of the other actors follows the documented transitions.
LEMMA OthersMoveRows == OthersMove => RowsMove
  BY DEF OthersMove, RowsMove, L!Transitions

\* So does a step that leaves the table alone.
LEMMA SameRowsMove == StoreInv /\ UNCHANGED <<rows, nextRow>> => RowsMove
  BY DEF StoreInv, RowsMove, NewIds

\* So does a mark whose transition is documented.
LEMMA MarkMovesRows ==
    ASSUME StoreInv, NEW i, NEW st, MarkOf(i, st),
           i \in DOMAIN rows => <<rows[i].status, st>> \in L!Transitions
    PROVE  RowsMove
<1>1. NewIds = {}
  BY DEF StoreInv, NewIds, MarkOf
<1> QED
  BY <1>1 DEF StoreInv, RowsMove, MarkOf, Update

\* Removing rows from a snapshot leaves a snapshot.
LEMMA LeavingKeepsTick ==
    ASSUME TickInv, UNCHANGED nextRow,
           batch' = Remove(batch, {cur}) \/ batch' = NoRows, cur' = 0, pc' = "next",
           advanced' \in Nat, advanced' < nextRow, UNCHANGED <<deferred, todo, verdict>>
    PROVE  TickInv'
<1>1. IsTable(batch') /\ DOMAIN batch' \subseteq DOMAIN batch
      /\ \A i \in DOMAIN batch' : batch'[i] = batch[i]
  BY RemoveShrinks DEF TickInv, IsTable, NoRows, Remove
<1> QED
  BY <1>1 DEF TickInv, PCs, Replaying

\* The steps that end a row's turn (superseded, deferred, replicated, failed)
\* keep the invariant: they settle the row the replicator owns.
LEMMA SettlingKeepsInv ==
    ASSUME Inv,
           \/ SkipSuperseded \/ ReleaseDeferred \/ MarkReplicated \/ SettleCounted
           \/ \E ceiling, halt \in BOOLEAN : SettleTransient(ceiling, halt)
    PROVE  StoreInv' /\ TickInv' /\ ClaimInv' /\ RowsMove
<1> USE DEF Inv, Replaying
<1>0. /\ advanced \in Nat /\ advanced < nextRow /\ nextRow \in Nat
      /\ pc \in Replaying => cur \in DOMAIN batch
                             /\ entry.seq \in Nat /\ entry.seq < nextRow
  BY DEF TickInv, StoreInv, IsTable, Row, entry
<1>1. ASSUME NEW st \in {"replicated", "failed", "dead", "pending"},
             pc \in Replaying \cup {"skip"}, StoreInv', MarkOf(cur, st),
             pc = "skip" => st = "dead",
             batch' = Remove(batch, {cur}) \/ batch' = NoRows, cur' = 0, pc' = "next",
             advanced' \in Nat, advanced' < nextRow, UNCHANGED <<deferred, todo, verdict>>
      PROVE  StoreInv' /\ TickInv' /\ ClaimInv' /\ RowsMove
  <2>1. ClaimInv'
    BY <1>1, LeavingKeepsClaims
  <2>2. TickInv'
    BY <1>1, LeavingKeepsTick DEF MarkOf
  <2>3. cur \in DOMAIN rows => \/ rows[cur].status = "replicating"
                               \/ pc = "skip" /\ rows[cur].status \in Open
    BY <1>1 DEF ClaimInv, DispatchOwnsRow, SnapshotOpen, TickInv
  <2>4. cur \in DOMAIN rows => <<rows[cur].status, st>> \in L!Transitions
    BY <1>1, <2>3 DEF L!Transitions, Open
  <2>5. RowsMove
    BY <1>1, <2>4, MarkMovesRows
  <2> QED BY <1>1, <2>1, <2>2, <2>5
<1>t. /\ "dead" \in Statuses /\ "pending" \in Statuses /\ "failed" \in Statuses
      /\ "replicated" \in Statuses /\ Reasons = {"none", "superseded", "unreplayable"}
  BY DEF Statuses, Reasons
<1>2. CASE SkipSuperseded
  <2>1. StoreInv' /\ MarkOf(cur, "dead")
    BY <1>2, <1>t, MarkIsMark DEF SkipSuperseded
  <2> QED BY <1>0, <1>1, <1>2, <2>1 DEF SkipSuperseded, RowDone, Goto
<1>3. CASE ReleaseDeferred
  <2>1. StoreInv' /\ MarkOf(cur, "pending")
    BY <1>3, <1>t, MarkIsMark DEF ReleaseDeferred
  <2> QED BY <1>0, <1>1, <1>3, <2>1 DEF ReleaseDeferred, RowDone, Goto
<1>4. CASE MarkReplicated
  <2>1. StoreInv' /\ MarkOf(cur, "replicated")
    BY <1>4, <1>t, MarkIsMark DEF MarkReplicated
  <2>2. advanced' \in Nat /\ advanced' < nextRow
    BY <1>0, <1>4 DEF MarkReplicated, WriteReplicationState
  <2> QED BY <1>0, <1>1, <1>4, <2>1, <2>2 DEF MarkReplicated, RowDone, Goto
<1>5. CASE SettleCounted
  <2>1. \/ StoreInv' /\ MarkOf(cur, "dead")
        \/ StoreInv' /\ MarkOf(cur, "failed")
    BY <1>5, <1>t, MarkIsMark DEF SettleCounted
  <2> QED BY <1>0, <1>1, <1>5, <2>1 DEF SettleCounted, RowDone, Goto
<1>6. ASSUME NEW ceiling \in BOOLEAN, NEW halt \in BOOLEAN, SettleTransient(ceiling, halt)
      PROVE  StoreInv' /\ TickInv' /\ ClaimInv' /\ RowsMove
  <2>1. \/ StoreInv' /\ MarkOf(cur, "dead")
        \/ StoreInv' /\ MarkOf(cur, "failed")
    BY <1>6, <1>t, MarkIsMark, TransientIsMark DEF SettleTransient
  <2> QED BY <1>0, <1>1, <1>6, <2>1 DEF SettleTransient, Goto
<1> QED
  BY <1>2, <1>3, <1>4, <1>5, <1>6

\* Steps of the replicator that leave the table alone.
ReadingStep ==
    \/ TickStart \/ (\E i \in DOMAIN batch : TickNext(i)) \/ TickEnd
    \/ (\E ok, applied \in BOOLEAN : Dispatch(ok, applied)) \/ DispatchTimesOut
    \/ HealStart \/ (\E i \in todo : HealProbe(i)) \/ HealEnd
    \/ SweepStart \/ (\E i \in todo : SweepRead(i)) \/ SweepUnreadable \/ SweepEnd

\* Replicator steps that write no row keep the table.
LEMMA ReadingKeepsStore ==
    ASSUME Inv, ReadingStep
    PROVE  StoreInv' /\ RowsMove
<1>1. UNCHANGED <<rows, nextRow>> /\ (cursor' = cursor \/ TickEnd)
  BY DEF ReadingStep, TickStart, TickNext, TickEnd, Dispatch, DispatchTimesOut,
         HealStart, HealProbe, HealEnd, SweepStart, SweepRead, SweepUnreadable,
         SweepEnd, storeVars
<1>2. cursor' \in Nat /\ cursor' < nextRow
  BY <1>1 DEF Inv, StoreInv, TickInv, TickEnd, WriteReplicationState
<1> QED
  BY <1>1, <1>2, SameRowsMove DEF Inv, StoreInv, SeqFollowsOrder

\* Replicator steps that write no row keep the loop's own state typed.
LEMMA ReadingKeepsTick ==
    ASSUME Inv, ReadingStep
    PROVE  TickInv'
<1> USE DEF Inv, TickInv, Goto
<1>p. PCs = {"down", "tick", "next", "claim", "skip", "dispatch", "mark", "settle",
             "late", "defer", "heal", "probe", "healmark", "sweep", "read", "act",
             "prune"}
  BY DEF PCs
<1>1. CASE TickStart
  <2> DEFINE ids == ListPending(rows, BatchSize)
  <2>1. ids \subseteq DOMAIN rows
    BY DEF ListPending, Eligible
  <2>2. /\ batch' = [i \in ids |-> rows[i]]
        /\ advanced' = 0 \/ advanced' = cursor
        /\ pc' \in {"heal", "next"}
        /\ UNCHANGED <<nextRow, cur, deferred, todo, verdict>>
    BY <1>1 DEF TickStart, storeVars
  <2> HIDE DEF ids
  <2> QED BY <1>p, <2>1, <2>2 DEF StoreInv, IsTable, Row, Replaying
<1>2. ASSUME NEW i \in DOMAIN batch, TickNext(i) PROVE TickInv'
  <2>1. UNCHANGED <<nextRow, advanced, deferred, todo, verdict>>
    BY <1>2 DEF TickNext, storeVars
  <2>2. CASE batch[i].key \in deferred
    <3>1. batch' = Remove(batch, {i}) /\ UNCHANGED <<pc, cur>> /\ pc = "next"
      BY <1>2, <2>2 DEF TickNext
    <3>2. IsTable(batch') /\ DOMAIN batch' \subseteq DOMAIN batch
          /\ \A j \in DOMAIN batch' : batch'[j] = batch[j]
      BY <3>1, RemoveShrinks DEF Remove, IsTable
    <3> QED BY <2>1, <3>1, <3>2 DEF Replaying
  <2>3. CASE batch[i].key \notin deferred
    <3>1. UNCHANGED batch /\ cur' = i /\ pc' \in {"skip", "claim"}
      BY <1>2, <2>3 DEF TickNext
    <3> QED BY <1>p, <2>1, <3>1 DEF IsTable, Replaying
  <2> QED BY <2>2, <2>3
<1>3. CASE TickEnd
  BY <1>3, <1>p DEF TickEnd, StoreInv, Replaying
<1>4. ASSUME NEW ok \in BOOLEAN, NEW applied \in BOOLEAN, Dispatch(ok, applied)
      PROVE  TickInv'
  BY <1>4, <1>p DEF Dispatch, storeVars, Replaying
<1>5. CASE DispatchTimesOut
  <2>1. entry.key \in Keys
    BY <1>5 DEF DispatchTimesOut, entry, Replaying, IsTable, Row
  <2> QED BY <1>5, <1>p, <2>1 DEF DispatchTimesOut, storeVars, Replaying
<1>6. CASE HealStart
  <2>1. todo' \subseteq Nat
    BY <1>6 DEF HealStart, WithStatus, StoreInv, IsTable
  <2> QED BY <1>6, <1>p, <2>1 DEF HealStart, storeVars, tickVars, Replaying
<1>7. ASSUME NEW i \in todo, HealProbe(i) PROVE TickInv'
  BY <1>7, <1>p DEF HealProbe, storeVars, tickVars, Replaying
<1>8. CASE HealEnd
  BY <1>8, <1>p DEF HealEnd, storeVars, tickVars, Replaying
<1>9. CASE SweepStart
  BY <1>9, <1>p DEF SweepStart, storeVars, tickVars, Replaying, WithStatus, StoreInv, IsTable
<1>10. ASSUME NEW i \in todo, SweepRead(i) PROVE TickInv'
  <2>1. SweepVerdict(i) \in Verdicts
    BY DEF SweepVerdict, Verdicts
  <2> QED BY <1>10, <1>p, <2>1 DEF SweepRead, storeVars, tickVars, Replaying
<1>11. CASE SweepUnreadable
  BY <1>11 DEF SweepUnreadable, storeVars, tickVars
<1>12. CASE SweepEnd
  BY <1>12, <1>p DEF SweepEnd, storeVars, tickVars, Replaying
<1> QED
  BY <1>1, <1>2, <1>3, <1>4, <1>5, <1>6, <1>7, <1>8, <1>9, <1>10, <1>11, <1>12
     DEF ReadingStep

\* Replicator steps that write no row neither lose nor invent a claim.
LEMMA ReadingKeepsClaims ==
    ASSUME Inv, ReadingStep
    PROVE  ClaimInv'
<1> USE DEF Inv, ClaimInv, Goto
<1>u. UNCHANGED rows
  BY DEF ReadingStep, TickStart, TickNext, TickEnd, Dispatch, DispatchTimesOut,
         HealStart, HealProbe, HealEnd, SweepStart, SweepRead, SweepUnreadable,
         SweepEnd, storeVars
<1>0. CompletedIsReplicated'
  BY <1>u DEF CompletedIsReplicated
<1>a. ASSUME pc \notin Replaying, pc' \notin Replaying \cup {"down"}, pc # "down"
      PROVE  NoOrphanClaim' /\ DispatchOwnsRow'
  BY <1>a, <1>u DEF NoOrphanClaim, DispatchOwnsRow, WithStatus
<1>1. CASE TickStart
  <2>1. /\ batch' = [i \in ListPending(rows, BatchSize) |-> rows[i]]
        /\ pc' = IF ListPending(rows, BatchSize) = {} THEN "heal" ELSE "next"
        /\ pc \in {"heal", "sweep", "prune", "tick"}
    BY <1>1 DEF TickStart, AtTick
  <2>2. \A i \in ListPending(rows, BatchSize) : i \in DOMAIN rows /\ rows[i].status \in Open
    BY DEF ListPending, Eligible, Open
  <2> QED BY <1>0, <1>a, <1>u, <2>1, <2>2 DEF SnapshotOpen, HealOpen, Replaying, Ticking
<1>2. ASSUME NEW i \in DOMAIN batch, TickNext(i) PROVE ClaimInv'
  <2>1. pc = "next" /\ pc' \in {"next", "skip", "claim"}
        /\ DOMAIN batch' \subseteq DOMAIN batch
    BY <1>2 DEF TickNext, Remove
  <2> QED BY <1>0, <1>a, <1>u, <2>1 DEF SnapshotOpen, HealOpen, Replaying, Ticking
<1>3. CASE TickEnd
  <2>1. pc = "next" /\ pc' = "heal" /\ batch' = batch /\ DOMAIN batch = {}
    BY <1>3 DEF TickEnd
  <2> QED BY <1>0, <1>a, <1>u, <2>1 DEF SnapshotOpen, HealOpen, Replaying
<1>4. CASE \/ \E ok, applied \in BOOLEAN : Dispatch(ok, applied)
           \/ DispatchTimesOut
  <2>1. pc = "dispatch" /\ pc' \in {"mark", "late", "settle", "defer"}
        /\ UNCHANGED <<batch, cur>>
    BY <1>4 DEF Dispatch, DispatchTimesOut
  <2> QED BY <1>0, <1>u, <2>1 DEF NoOrphanClaim, DispatchOwnsRow, WithStatus,
                                   SnapshotOpen, HealOpen, Replaying, Ticking
<1>5. CASE HealStart
  <2>1. pc = "heal" /\ pc' = "probe" /\ batch' = batch
        /\ todo' \subseteq WithStatus(rows, "failed")
    BY <1>5 DEF HealStart, AtHeal, tickVars
  <2> QED BY <1>0, <1>a, <1>u, <2>1 DEF SnapshotOpen, HealOpen, Replaying, Ticking, WithStatus
<1>6. ASSUME NEW i \in todo, HealProbe(i) PROVE ClaimInv'
  <2>1. /\ pc = "probe" /\ pc' \in {"probe", "healmark"} /\ batch' = batch
        /\ todo' = todo \ {i} /\ (pc' = "healmark" => cur' = i)
    BY <1>6 DEF HealProbe, tickVars
  <2> QED BY <1>0, <1>a, <1>u, <2>1 DEF SnapshotOpen, HealOpen, Replaying, Ticking
<1>7. CASE \/ HealEnd \/ SweepStart \/ (\E i \in todo : SweepRead(i))
           \/ SweepUnreadable \/ SweepEnd
  <2>1. /\ pc \in {"probe", "heal", "sweep", "read"}
        /\ pc' \in {"sweep", "read", "act", "prune"} /\ batch' = batch
    BY <1>7 DEF HealEnd, SweepStart, AtSweep, SweepRead, SweepUnreadable, SweepEnd, tickVars
  <2> QED BY <1>0, <1>a, <1>u, <2>1 DEF SnapshotOpen, HealOpen, Replaying, Ticking
<1> QED
  BY <1>1, <1>2, <1>3, <1>4, <1>5, <1>6, <1>7 DEF ReadingStep

-----------------------------------------------------------------------------
(* The remaining steps that change the table *)

\* A claim owns its row when it succeeds, and drops it when it does not.
LEMMA ClaimKeepsInv ==
    ASSUME Inv, Claim
    PROVE  StoreInv' /\ TickInv' /\ ClaimInv' /\ RowsMove
<1> USE DEF Inv, Replaying
<1> DEFINE u == ClaimForReplication(rows, cur)
<1>0. IsTable(rows) /\ nextRow \in Nat /\ pc = "claim" /\ cur \in DOMAIN batch
      /\ UNCHANGED <<nextRow, cursor, advanced, deferred, todo, verdict>>
  BY DEF StoreInv, TickInv, Claim
<1>1. /\ Update(rows, u, cur)
      /\ cur \in Eligible(rows) =>
            /\ cur \in DOMAIN rows /\ rows[cur].status \in Open
            /\ u[cur].status = "replicating" /\ u[cur].completed = rows[cur].completed
      /\ cur \notin Eligible(rows) => u = rows
  BY <1>0, ClaimUpdates DEF Open
<1>2. rows' = u
  BY DEF Claim
<1> HIDE DEF u
<1>3. StoreInv'
  BY <1>0, <1>1, <1>2, UpdateKeepsStore
<1>4. CASE cur \in Eligible(rows)
  <2>1. pc' = "dispatch" /\ UNCHANGED <<batch, cur>>
    BY <1>4 DEF Claim, Goto
  <2>2. TickInv'
    BY <1>0, <2>1 DEF TickInv, PCs
  <2>3. DispatchOwnsRow' /\ HealOpen'
    BY <1>1, <1>2, <1>4, <2>1 DEF DispatchOwnsRow, HealOpen, Update
  <2>4. NoOrphanClaim'
    BY <1>0, <1>1, <1>2, <2>1 DEF ClaimInv, NoOrphanClaim, WithStatus, Update
  <2>5. SnapshotOpen'
    BY <1>0, <1>1, <1>2, <2>1 DEF ClaimInv, SnapshotOpen, Ticking, Update
  <2>6. CompletedIsReplicated'
    BY <1>1, <1>2, <1>4 DEF ClaimInv, CompletedIsReplicated, Update, Open
  <2>7. RowsMove
    <3>1. MarkOf(cur, "replicating")
      BY <1>0, <1>1, <1>2, <1>4 DEF MarkOf
    <3>2. <<rows[cur].status, "replicating">> \in L!Transitions
      BY <1>1, <1>4 DEF L!Transitions, Open
    <3> QED BY <3>1, <3>2, MarkMovesRows
  <2> QED BY <1>3, <2>2, <2>3, <2>4, <2>5, <2>6, <2>7 DEF ClaimInv
<1>5. CASE cur \notin Eligible(rows)
  <2>1. /\ batch' = Remove(batch, {cur}) /\ cur' = 0 /\ pc' = "next" /\ rows' = rows
    BY <1>1, <1>2, <1>5 DEF Claim, RowDone, Goto
  <2>2. TickInv'
    BY <1>0, <2>1, LeavingKeepsTick DEF TickInv
  <2>3. DOMAIN batch' \subseteq DOMAIN batch
    BY <2>1 DEF Remove
  <2>4. ClaimInv'
    BY <1>0, <2>1, <2>3 DEF ClaimInv, DispatchOwnsRow, HealOpen, NoOrphanClaim,
       WithStatus, SnapshotOpen, Ticking, CompletedIsReplicated
  <2>5. RowsMove
    BY <1>0, <2>1, SameRowsMove
  <2> QED BY <1>3, <2>2, <2>4, <2>5
<1> QED
  BY <1>4, <1>5

\* Self-heal marks a row that is still failed: nobody else moves a failed row
\* while the replicator is in its sweep.
LEMMA HealMarkKeepsInv ==
    ASSUME Inv, HealMark
    PROVE  StoreInv' /\ TickInv' /\ ClaimInv' /\ RowsMove
<1> USE DEF Inv, Replaying
<1>0. /\ pc = "healmark" /\ pc' = "probe" /\ cur' = 0
      /\ UNCHANGED <<nextRow, cursor, batch, advanced, deferred, todo, verdict>>
  BY DEF HealMark, Goto, tickVars
<1>1. cur \in DOMAIN rows /\ rows[cur].status = "failed" /\ DOMAIN batch = {}
      /\ cur \notin WithStatus(rows, "replicating")
  BY <1>0 DEF ClaimInv, HealOpen, SnapshotOpen, Ticking, WithStatus
<1>2. StoreInv' /\ MarkOf(cur, "replicated")
  <2>1. "replicated" \in Statuses /\ "none" \in Reasons
    BY DEF Statuses, Reasons
  <2> QED BY <1>0, <2>1, MarkIsMark DEF HealMark
<1>3. TickInv'
  BY <1>0 DEF TickInv, PCs
<1>4. NoOrphanClaim' /\ DispatchOwnsRow'
  BY <1>0, <1>2 DEF ClaimInv, NoOrphanClaim, DispatchOwnsRow, WithStatus, MarkOf, Update
<1>5. SnapshotOpen'
  BY <1>0, <1>1 DEF SnapshotOpen
<1>7. HealOpen'
  BY <1>0, <1>1, <1>2 DEF ClaimInv, HealOpen, MarkOf, Update
<1>8. CompletedIsReplicated'
  BY <1>1, <1>2 DEF ClaimInv, CompletedIsReplicated, MarkOf, Update
<1>9. RowsMove
  BY <1>1, <1>2, MarkMovesRows DEF L!Transitions
<1> QED
  BY <1>2, <1>3, <1>4, <1>5, <1>7, <1>8, <1>9 DEF ClaimInv

\* The settle sweep's verdict may be stale, but its statements are conditional
\* on the row's status.
LEMMA SweepActKeepsInv ==
    ASSUME Inv, SweepAct
    PROVE  StoreInv' /\ TickInv' /\ ClaimInv' /\ RowsMove
<1> USE DEF Inv, Replaying
<1>0. /\ pc = "act" /\ pc' = "read" /\ cur' = 0 /\ verdict' = "none"
      /\ UNCHANGED <<nextRow, cursor, batch, advanced, deferred, todo>>
  BY DEF SweepAct, Goto, tickVars
<1>1. StoreInv' /\ OthersMove
  <2>1. \/ rows' = MarkCommitted(rows, cur) \/ rows' = rows
        \/ rows' = RemoveIfPending(rows, cur)
    BY DEF SweepAct
  <2> QED BY <1>0, <2>1, FlipIsOthers, RemovalIsOthers
<1>2. TickInv'
  BY <1>0 DEF TickInv, PCs, Verdicts
<1>3. DOMAIN batch = {}
  BY <1>0 DEF ClaimInv, SnapshotOpen, Ticking
<1>4. \A i \in NewIds : i \notin DOMAIN rows
  BY DEF StoreInv, NewIds
<1>5. DispatchOwnsRow' /\ HealOpen' /\ SnapshotOpen'
  BY <1>0, <1>3 DEF DispatchOwnsRow, HealOpen, SnapshotOpen
<1>6. NoOrphanClaim' /\ CompletedIsReplicated'
  BY <1>0, <1>1, <1>4 DEF ClaimInv, NoOrphanClaim, CompletedIsReplicated, WithStatus,
     OthersMove, L!Recorded
<1> QED
  BY <1>1, <1>2, <1>5, <1>6, OthersMoveRows DEF ClaimInv

\* The retention sweep removes only replicated rows, never a claimed one.
LEMMA PruneKeepsInv ==
    ASSUME Inv, Prune
    PROVE  StoreInv' /\ TickInv' /\ ClaimInv' /\ RowsMove
<1> USE DEF Inv, Replaying
<1>0. /\ pc \in {"heal", "sweep", "prune"} /\ pc' = "tick"
      /\ UNCHANGED <<nextRow, cursor, batch, advanced, deferred, cur, todo, verdict>>
  BY DEF Prune, AtPrune, Goto, tickVars
<1>1. PICK S \in SUBSET WithStatus(rows, "replicated") : rows' = Remove(rows, S)
  BY DEF Prune
<1>2. /\ IsTable(rows') /\ DOMAIN rows' = DOMAIN rows \ S
      /\ \A j \in DOMAIN rows' : rows'[j] = rows[j]
  BY <1>1, RemoveShrinks, ZenonT(60) DEF StoreInv
<1>3. StoreInv'
  BY <1>0, <1>2, RemovalKeepsStore
<1>4. TickInv'
  BY <1>0 DEF TickInv, PCs
<1>5. ClaimInv'
  BY <1>0, <1>2 DEF ClaimInv, DispatchOwnsRow, HealOpen, SnapshotOpen, Ticking,
     NoOrphanClaim, CompletedIsReplicated, WithStatus
<1>6. RowsMove
  <2>1. NewIds = {}
    BY <1>0 DEF NewIds, StoreInv
  <2> QED BY <1>0, <1>1, <1>2, <2>1 DEF RowsMove, WithStatus, L!Transitions, StoreInv
<1> QED
  BY <1>3, <1>4, <1>5, <1>6

\* A backoff that elapses and an operator's requeue leave the claimed row
\* alone.
LEMMA ClockAndOperatorMove ==
    ASSUME Inv, NEW i \in DOMAIN rows, BackoffElapses(i) \/ OperatorRequeues(i)
    PROVE  StoreInv' /\ OthersMove
<1> USE DEF Inv
<1>0. IsTable(rows) /\ nextRow \in Nat /\ UNCHANGED <<nextRow, cursor>> /\ NewIds = {}
  BY DEF StoreInv, BackoffElapses, OperatorRequeues, NewIds
<1>1. CASE BackoffElapses(i)
  <2>1. Update(rows, rows', i) /\ rows'[i].status = rows[i].status
        /\ rows'[i].completed = rows[i].completed
    BY <1>0, <1>1 DEF BackoffElapses, Update, IsTable, Row
  <2>2. StoreInv'
    BY <1>0, <2>1, UpdateKeepsStore
  <2> QED BY <1>0, <2>1, <2>2 DEF OthersMove, Update
<1>2. CASE OperatorRequeues(i)
  <2> DEFINE u == RequeueDead(rows, i)
  <2>1. rows' = u /\ rows[i].status = "dead"
    BY <1>2 DEF OperatorRequeues, WithStatus
  <2>2. Update(rows, u, i) /\ u[i].status = "failed" /\ ~u[i].completed
    BY <1>0, RequeueDeadUpdates
  <2> HIDE DEF u
  <2>3. StoreInv'
    BY <1>0, <2>1, <2>2, UpdateKeepsStore
  <2> QED BY <1>0, <2>1, <2>2, <2>3 DEF OthersMove, Update
<1> QED
  BY <1>1, <1>2

\* A crash leaves at most one claim behind, for boot to find.
LEMMA CrashKeepsInv ==
    ASSUME Inv, Crash
    PROVE  Inv' /\ RowsMove
<1> USE DEF Inv, Replaying
<1>0. /\ pc' = "down" /\ batch' = NoRows /\ cur' = 0 /\ deferred' = {}
      /\ advanced' = 0 /\ todo' = {} /\ verdict' = "none"
      /\ UNCHANGED <<rows, nextRow, cursor, graph, acked>>
  BY DEF Crash, storeVars
<1>1. StoreInv'
  BY <1>0 DEF StoreInv, SeqFollowsOrder
<1>2. TickInv'
  BY <1>0 DEF TickInv, StoreInv, PCs, Verdicts, NoRows, IsTable
<1>3. ClaimInv'
  BY <1>0 DEF ClaimInv, DispatchOwnsRow, HealOpen, SnapshotOpen, Ticking,
     NoOrphanClaim, CompletedIsReplicated, WithStatus, NoRows
<1>4. RequestInv'
  <2>1. hung' \subseteq HungWrite
    <3>1. ASSUME NEW k \in Keys, req[k].phase = "commit"
          PROVE  [row |-> req[k].row, key |-> k, rev |-> req[k].prior.rev,
                  content |-> req[k].content] \in HungWrite
      <4>1. req[k] \in Request /\ req[k].content \in Contents
        BY <3>1 DEF RequestInv
      <4> QED BY <4>1 DEF HungWrite, Request, N!Node
    <3> QED BY <3>1 DEF Crash, RequestInv
  <2>2. req' = [k \in Keys |-> NoRequest] /\ NoRequest.phase = "idle"
    BY DEF Crash, NoRequest
  <2>3. maybe' \in [Keys -> SUBSET (Contents \cup {NoContent})]
    <3>1. \A k \in Keys : req[k].content \in Contents \cup {NoContent}
      BY DEF RequestInv, Request
    <3>2. maybe' = [k \in Keys |-> IF LockHeld(k) THEN maybe[k] \cup {req[k].content}
                                                   ELSE maybe[k]]
      BY DEF Crash
    <3> QED BY <3>1, <3>2 DEF RequestInv
  <2>4. crashes' \in Nat
    BY DEF Crash, RequestInv
  <2> QED BY <1>0, <2>1, <2>2, <2>3, <2>4, NoRequestType DEF RequestInv
<1> QED
  BY <1>0, <1>1, <1>2, <1>3, <1>4, SameRowsMove

\* Boot recovery releases the claim a crash left.
LEMMA RecoverKeepsInv ==
    ASSUME Inv, Recover
    PROVE  StoreInv' /\ TickInv' /\ ClaimInv' /\ RowsMove
<1> USE DEF Inv, Replaying
<1> DEFINE u == RequeueReplicating(rows)
<1>0. /\ IsTable(rows) /\ nextRow \in Nat /\ pc = "down" /\ pc' = "tick"
      /\ UNCHANGED <<nextRow, cursor, batch, advanced, deferred, cur, todo, verdict>>
  BY DEF StoreInv, Recover, Goto, tickVars
<1>1. /\ DOMAIN u = DOMAIN rows /\ IsTable(u)
      /\ \A j \in DOMAIN rows :
            /\ u[j].seq = rows[j].seq /\ u[j].completed = rows[j].completed
            /\ IF ~rows[j].completed /\ rows[j].status = "replicating"
               THEN u[j].status = "pending" ELSE u[j] = rows[j]
  BY <1>0, RequeueReplicatingUpdates
<1>2. rows' = u
  BY DEF Recover
<1> HIDE DEF u
<1>3. StoreInv'
  BY <1>0, <1>1, <1>2 DEF StoreInv, SeqFollowsOrder
<1>4. TickInv'
  BY <1>0 DEF TickInv, PCs
<1>5. \A j \in DOMAIN rows : rows[j].status = "replicating" => ~rows[j].completed
  BY DEF ClaimInv, CompletedIsReplicated
<1>6. DOMAIN batch = {}
  BY <1>0 DEF ClaimInv, SnapshotOpen, Ticking
<1>7. NoOrphanClaim'
  BY <1>1, <1>2, <1>5 DEF NoOrphanClaim, WithStatus
<1>8. CompletedIsReplicated'
  BY <1>1, <1>2 DEF ClaimInv, CompletedIsReplicated
<1>9. DispatchOwnsRow' /\ HealOpen' /\ SnapshotOpen'
  BY <1>0, <1>6 DEF DispatchOwnsRow, HealOpen, SnapshotOpen
<1>10. RowsMove
  <2>1. NewIds = {}
    BY <1>0 DEF NewIds
  <2> QED BY <1>0, <1>1, <1>2, <2>1 DEF RowsMove, L!Transitions
<1> QED
  BY <1>3, <1>4, <1>7, <1>8, <1>9, <1>10 DEF ClaimInv

-----------------------------------------------------------------------------
(* The inductive invariant *)

\* A fresh daemon satisfies the inductive invariant.
LEMMA InitInv == Init => Inv
<1> SUFFICES ASSUME Init PROVE Inv
  OBVIOUS
<1>1. TypeInv
  BY InitTypeInv
<1>2. ClaimInv
  BY DEF Init, ClaimInv, DispatchOwnsRow, NoOrphanClaim, SnapshotOpen, HealOpen,
         CompletedIsReplicated, WithStatus, NoRows, Replaying
<1> QED
  BY <1>1, <1>2 DEF TypeInv, Inv

\* The replicator and boot recovery keep requests, graph and ghosts typed.
LEMMA ReplicatorKeepsRequests ==
    ASSUME Inv, ReplicatorStep \/ Recover
    PROVE  RequestInv'
<1> USE DEF Inv
<1>1. ASSUME NEW ok \in BOOLEAN, NEW applied \in BOOLEAN, Dispatch(ok, applied)
      PROVE  RequestInv'
  <2>1. entry \in Row /\ entry.key \in Keys /\ entry.rev \in Nat
        /\ entry.content \in Contents \cup {NoContent}
    BY <1>1 DEF Dispatch, TickInv, Replaying, entry, IsTable, Row
  <2>2. graph[entry.key] \in N!Node
    BY <2>1 DEF RequestInv
  <2>3. N!Replay(graph[entry.key], entry) \in N!Node
    BY <2>1, <2>2, NodeWrites DEF N!Replay
  <2>4. graph' \in [Keys -> N!Node]
    BY <1>1, <2>1, <2>3 DEF Dispatch, RequestInv
  <2>5. UNCHANGED <<req, hung, crashes, acked, maybe>>
    BY <1>1 DEF Dispatch, ackVars
  <2> QED BY <2>4, <2>5 DEF RequestInv
<1>2. CASE UNCHANGED <<graph, req, hung, crashes, acked, maybe>>
  BY <1>2 DEF RequestInv
<1>3. \/ \E ok, applied \in BOOLEAN : Dispatch(ok, applied)
      \/ UNCHANGED <<graph, req, hung, crashes, acked, maybe>>
  BY DEF ReplicatorStep, TickStart, TickNext, TickEnd, SkipSuperseded, Claim,
     DispatchTimesOut, ReleaseDeferred, MarkReplicated, SettleCounted, SettleTransient,
     HealStart, HealProbe, HealMark, HealEnd, SweepStart, SweepRead, SweepUnreadable,
     SweepAct, SweepEnd, Prune, Recover, sysVars, ackVars
<1> QED
  BY <1>1, <1>2, <1>3

\* Every step of the replicator keeps the inductive invariant.
LEMMA ReplicatorKeepsInv ==
    ASSUME Inv, ReplicatorStep
    PROVE  Inv' /\ RowsMove
<1>1. RequestInv'
  BY ReplicatorKeepsRequests
<1>2. CASE ReadingStep
  BY <1>1, <1>2, ReadingKeepsStore, ReadingKeepsTick, ReadingKeepsClaims DEF Inv
<1>3. CASE \/ SkipSuperseded \/ ReleaseDeferred \/ MarkReplicated \/ SettleCounted
           \/ \E ceiling, halt \in BOOLEAN : SettleTransient(ceiling, halt)
  BY <1>1, <1>3, SettlingKeepsInv DEF Inv
<1>4. CASE Claim
  BY <1>1, <1>4, ClaimKeepsInv DEF Inv
<1>5. CASE HealMark
  BY <1>1, <1>5, HealMarkKeepsInv DEF Inv
<1>6. CASE SweepAct
  BY <1>1, <1>6, SweepActKeepsInv DEF Inv
<1>7. CASE Prune
  BY <1>1, <1>7, PruneKeepsInv DEF Inv
<1> QED
  BY <1>2, <1>3, <1>4, <1>5, <1>6, <1>7 DEF ReplicatorStep, ReadingStep

\* Every client and request step keeps the inductive invariant.
LEMMA OthersKeepInv ==
    ASSUME Inv, NEW k \in Keys, Client(k) \/ RequestStep(k)
    PROVE  Inv' /\ RowsMove
<1>1. CASE InlineStep(k)
  <2>1. UNCHANGED <<rows, nextRow, cursor>> /\ UNCHANGED replVars
    BY <1>1 DEF InlineStep, UpsertCommit, UpsertConflict, UpsertUnknown, UpsertThrows,
       FanoutDone, FanoutFails, Undo, UndoFails, GiveUp, DeleteApply, DeleteThrows, storeVars
  <2>2. StoreInv' /\ OthersMove
    <3>1. StoreInv'
      BY <2>1 DEF Inv, StoreInv, SeqFollowsOrder
    <3>2. NewIds = {}
      BY <2>1 DEF Inv, StoreInv, NewIds
    <3> QED BY <2>1, <3>1, <3>2 DEF OthersMove, Inv, StoreInv
  <2> QED
    BY <1>1, <2>1, <2>2, InlineKeepsRequests, OthersKeepClaims, OthersMoveRows DEF Inv
<1>2. CASE TableStep(k)
  <2>1. UNCHANGED replVars
    BY <1>2 DEF TableStep, UpsertRecord, UpsertFlip, Retract, Compensate, Reread, DeleteRecord
  <2>2. StoreInv' /\ OthersMove
    BY <1>2, TableKeepsStore DEF Inv
  <2> QED
    BY <1>2, <2>1, <2>2, TableKeepsRequests, OthersKeepClaims, OthersMoveRows DEF Inv
<1> QED
  BY <1>1, <1>2 DEF Client, RequestStep, InlineStep, TableStep

\* The invariant is inductive, and every step follows the documented
\* transitions.
LEMMA NextKeepsInv ==
    ASSUME Inv, [Next]_vars
    PROVE  Inv' /\ RowsMove
<1>1. ASSUME NEW k \in Keys, Client(k) \/ RequestStep(k) PROVE Inv' /\ RowsMove
  BY <1>1, OthersKeepInv
<1>2. CASE LateWrite
  <2>1. UNCHANGED <<rows, nextRow, cursor>> /\ UNCHANGED replVars
    BY <1>2 DEF LateWrite, HungLands, HungLost, storeVars
  <2>2. StoreInv' /\ TickInv' /\ ClaimInv'
    BY <2>1 DEF Inv, StoreInv, SeqFollowsOrder, TickInv, ClaimInv, DispatchOwnsRow,
       NoOrphanClaim, SnapshotOpen, HealOpen, CompletedIsReplicated, WithStatus, replVars
  <2> QED BY <1>2, <2>1, <2>2, LateWriteKeepsRequests, SameRowsMove DEF Inv
<1>3. CASE ReplicatorStep
  BY <1>3, ReplicatorKeepsInv
<1>4. ASSUME NEW i \in DOMAIN rows, BackoffElapses(i) \/ OperatorRequeues(i)
      PROVE  Inv' /\ RowsMove
  <2>1. StoreInv' /\ OthersMove
    BY <1>4, ClockAndOperatorMove
  <2>2. UNCHANGED replVars /\ UNCHANGED <<graph, req, hung, crashes, acked, maybe>>
    BY <1>4 DEF BackoffElapses, OperatorRequeues, sysVars, ackVars
  <2>3. RequestInv'
    BY <2>2 DEF Inv, RequestInv
  <2> QED BY <2>1, <2>2, <2>3, OthersKeepClaims, OthersMoveRows DEF Inv
<1>5. CASE Crash
  BY <1>5, CrashKeepsInv
<1>6. CASE Recover
  BY <1>6, RecoverKeepsInv, ReplicatorKeepsRequests DEF Inv
<1>7. CASE UNCHANGED vars
  <2>1. UNCHANGED <<rows, nextRow, cursor>> /\ UNCHANGED replVars
        /\ UNCHANGED <<graph, req, hung, crashes, acked, maybe>>
    BY <1>7 DEF vars, storeVars, ackVars
  <2>2. Inv'
    BY <2>1 DEF Inv, StoreInv, SeqFollowsOrder, RequestInv, TickInv, ClaimInv,
       DispatchOwnsRow, NoOrphanClaim, SnapshotOpen, HealOpen, CompletedIsReplicated,
       WithStatus, replVars
  <2> QED BY <2>1, <2>2, SameRowsMove DEF Inv
<1> QED
  BY <1>1, <1>2, <1>3, <1>4, <1>5, <1>6, <1>7 DEF Next

\* Inv holds in every reachable state.
THEOREM InvHolds == Spec => []Inv
<1>1. Init => Inv
  BY InitInv
<1>2. Inv /\ [Next]_vars => Inv'
  BY NextKeepsInv
<1> QED
  BY <1>1, <1>2, PTL DEF Spec

-----------------------------------------------------------------------------
(* What follows *)

\* Every variable keeps its type, whatever the bounds are.
THEOREM TypeCorrect == Spec => []TypeOK
<1>1. Inv => TypeOK
  BY TypeInvImpliesTypeOK DEF Inv, TypeInv
<1> QED
  BY <1>1, InvHolds, PTL

\* What the replicator dispatches, marks or settles it owns: claimEntry against
\* removeIfPending, the sweeps, the operator and the crash.
THEOREM DispatchOwned == Spec => []DispatchOwnsRow
<1>1. Inv => DispatchOwnsRow
  BY DEF Inv, ClaimInv
<1> QED
  BY <1>1, InvHolds, PTL

\* No row stays 'replicating' without a replay: recoverOutbox requeues exactly
\* the claims a crash left behind.
THEOREM ClaimsNotOrphaned == Spec => []NoOrphanClaim
<1>1. Inv => NoOrphanClaim
  BY DEF Inv, ClaimInv
<1> QED
  BY <1>1, InvHolds, PTL

\* nextSequenceId orders the live rows the way they were recorded, prunes and
\* retractions included.
THEOREM SequenceOrdered == Spec => []SeqFollowsOrder
<1>1. Inv => SeqFollowsOrder
  BY DEF Inv, StoreInv
<1> QED
  BY <1>1, InvHolds, PTL

\* A table that moves along the documented transitions is a step of the
\* abstract specification.
LEMMA RowsMoveIsStep ==
    ASSUME StoreInv, StoreInv', RowsMove
    PROVE  L!Step
<1>0. /\ nextRow \in Nat /\ nextRow' \in Nat /\ nextRow <= nextRow'
      /\ DOMAIN rows \subseteq 1 .. (nextRow - 1)
      /\ DOMAIN rows' \subseteq 1 .. (nextRow' - 1) /\ nextRow > 0
  BY DEF StoreInv, RowsMove
<1>1. DOMAIN RowLife = 1 .. (nextRow - 1) /\ DOMAIN RowLife' = 1 .. (nextRow' - 1)
  BY DEF RowLife
<1>2. DOMAIN RowLife \subseteq DOMAIN RowLife'
  <2>1. \A m, n \in Nat : m <= n => 1 .. (m - 1) \subseteq 1 .. (n - 1)
    OBVIOUS
  <2>2. 1 .. (nextRow - 1) \subseteq 1 .. (nextRow' - 1)
    BY <1>0, <2>1
  <2> QED BY <1>1, <2>2
<1>3. ASSUME NEW i \in DOMAIN RowLife
      PROVE  RowLife'[i] = RowLife[i] \/ <<RowLife[i], RowLife'[i]>> \in L!Transitions
  <2>1. i \in 1 .. (nextRow - 1) /\ i \in 1 .. (nextRow' - 1) /\ i \notin NewIds
    BY <1>0, <1>1, <1>2, <1>3 DEF NewIds
  <2>2. /\ RowLife[i] = IF i \in DOMAIN rows THEN rows[i].status ELSE "gone"
        /\ RowLife'[i] = IF i \in DOMAIN rows' THEN rows'[i].status ELSE "gone"
    BY <2>1 DEF RowLife
  <2> QED BY <2>1, <2>2 DEF RowsMove
<1>4. ASSUME NEW i \in DOMAIN RowLife' \ DOMAIN RowLife
      PROVE  RowLife'[i] \in L!Recorded
  <2>1. i \in NewIds /\ i \in 1 .. (nextRow' - 1)
    BY <1>0, <1>1, <1>4 DEF NewIds
  <2>2. i \in DOMAIN rows' /\ rows'[i].status \in L!Recorded
    BY <2>1 DEF RowsMove
  <2> QED BY <2>1, <2>2 DEF RowLife
<1> QED
  BY <1>2, <1>3, <1>4 DEF L!Step

\* The write path, the replicator, boot recovery and the operator together
\* implement RowLifecycle: every row moves along the documented statuses only.
THEOREM LifecycleImplemented == Spec => Lifecycle
<1>1. Init => L!Init
  BY DEF Init, L!Init, RowLife
<1>2. Inv /\ [Next]_vars => [L!Step]_RowLife
  BY NextKeepsInv, RowsMoveIsStep DEF Inv
<1> QED
  BY <1>1, <1>2, InvHolds, PTL DEF Lifecycle, L!Spec, Spec

\* Every write of a present node raises its revision, deletes it or changes
\* nothing.
LEMMA WritesGoUp ==
    ASSUME NEW g \in N!Node, NEW r \in Nat, NEW c \in Contents \cup {NoContent}
    PROVE  /\ N!CanCommitAt(g, r) => N!CommitAt(g, r, c).rev > g.rev
           /\ N!RestoreOver(g, c).rev > g.rev
           /\ N!ReplayUpsert(g, r, c).rev > g.rev \/ N!ReplayUpsert(g, r, c) = g
           /\ ~N!IsPresent(N!Absent)
  BY DEF N!Node, N!CanCommitAt, N!CommitAt, N!RestoreOver, N!ReplayUpsert,
         N!UpsertNode, N!ReplayNodeAtRevision, N!Absent,
         N!IsPresent

\* Only the node of the step changes, and it goes up or away.
LEMMA OneNodeStep ==
    ASSUME graph \in [Keys -> N!Node], NEW k \in Keys, NEW g,
           graph' = [graph EXCEPT ![k] = g],
           ~N!IsPresent(g) \/ g.rev > graph[k].rev \/ g = graph[k]
    PROVE  RevisionStep
  BY DEF RevisionStep

\* No step of the system takes the revision of a present node back.
LEMMA NextKeepsRevisions ==
    ASSUME Inv, [Next]_vars
    PROVE  RevisionStep
<1>g. graph \in [Keys -> N!Node] /\ req \in [Keys -> Request] /\ hung \subseteq HungWrite
  BY DEF Inv, RequestInv
<1>0. CASE UNCHANGED graph
  BY <1>0 DEF RevisionStep
<1>1. ASSUME NEW k \in Keys,
             \/ UpsertCommit(k) \/ (\E b \in BOOLEAN : UpsertThrows(k, b))
             \/ Undo(k) \/ DeleteApply(k)
      PROVE  RevisionStep
  <2>0. /\ graph[k] \in N!Node /\ req[k].prior.rev \in Nat
        /\ req[k].prior.content \in Contents \cup {NoContent}
        /\ req[k].content \in Contents \cup {NoContent}
    BY <1>g DEF Request, N!Node
  <2>1. CASE \/ UpsertCommit(k) \/ \E b \in BOOLEAN : UpsertThrows(k, b)
    <3> DEFINE g == N!CommitAt(graph[k], req[k].prior.rev, req[k].content)
    <3>1. \/ UNCHANGED graph
          \/ /\ N!CanCommitAt(graph[k], req[k].prior.rev)
             /\ graph' = [graph EXCEPT ![k] = g]
      BY <2>1 DEF UpsertCommit, UpsertThrows
    <3>2. N!CanCommitAt(graph[k], req[k].prior.rev) => g.rev > graph[k].rev
      BY <2>0, WritesGoUp
    <3> HIDE DEF g
    <3> QED BY <1>0, <1>g, <3>1, <3>2, OneNodeStep
  <2>2. CASE Undo(k)
    <3>1. ~N!IsPresent(Undone(k)) \/ Undone(k).rev > graph[k].rev
      BY <2>0, WritesGoUp DEF Undone
    <3> QED BY <1>g, <2>2, <3>1, OneNodeStep DEF Undo
  <2>3. CASE DeleteApply(k)
    BY <1>g, <2>0, <2>3, WritesGoUp, OneNodeStep DEF DeleteApply
  <2> QED BY <1>1, <2>1, <2>2, <2>3
<1>2. ASSUME NEW h \in hung, HungLands(h) PROVE RevisionStep
  <2>0. h.key \in Keys /\ h.rev \in Nat /\ h.content \in Contents /\ graph[h.key] \in N!Node
    BY <1>g DEF HungWrite
  <2>1. N!CommitAt(graph[h.key], h.rev, h.content).rev > graph[h.key].rev
    BY <1>2, <2>0, WritesGoUp DEF HungLands
  <2> QED BY <1>2, <1>g, <2>0, <2>1, OneNodeStep DEF HungLands
<1>3. ASSUME NEW ok \in BOOLEAN, NEW applied \in BOOLEAN, Dispatch(ok, applied)
      PROVE  RevisionStep
  <2>0. entry.key \in Keys /\ entry.rev \in Nat /\ graph[entry.key] \in N!Node
        /\ entry.content \in Contents \cup {NoContent}
    BY <1>3, <1>g DEF Dispatch, Inv, TickInv, Replaying, entry, IsTable, Row
  <2> DEFINE g == N!Replay(graph[entry.key], entry)
  <2>1. ~N!IsPresent(g) \/ g.rev > graph[entry.key].rev \/ g = graph[entry.key]
    BY <2>0, WritesGoUp DEF N!Replay
  <2>2. UNCHANGED graph \/ graph' = [graph EXCEPT ![entry.key] = g]
    BY <1>3 DEF Dispatch
  <2> HIDE DEF g
  <2> QED BY <1>0, <1>g, <2>0, <2>1, <2>2, OneNodeStep
<1>4. \/ UNCHANGED graph
      \/ \E k \in Keys : \/ UpsertCommit(k) \/ (\E b \in BOOLEAN : UpsertThrows(k, b))
                         \/ Undo(k) \/ DeleteApply(k)
      \/ \E h \in hung : HungLands(h)
      \/ \E ok, applied \in BOOLEAN : Dispatch(ok, applied)
  <2>1. ASSUME NEW k \in Keys, Client(k) \/ RequestStep(k)
        PROVE  \/ UNCHANGED graph
               \/ UpsertCommit(k) \/ (\E b \in BOOLEAN : UpsertThrows(k, b))
               \/ Undo(k) \/ DeleteApply(k)
    BY <2>1 DEF Client, RequestStep, UpsertRecord, DeleteRecord, UpsertConflict,
       UpsertUnknown, UpsertFlip, FanoutDone, FanoutFails, UndoFails, Retract,
       Compensate, Reread, GiveUp, DeleteThrows
  <2>2. CASE ReplicatorStep
    BY <2>2 DEF ReplicatorStep, TickStart, TickNext, TickEnd, SkipSuperseded, Claim,
       DispatchTimesOut, ReleaseDeferred, MarkReplicated, SettleCounted, SettleTransient,
       HealStart, HealProbe, HealMark, HealEnd, SweepStart, SweepRead, SweepUnreadable,
       SweepAct, SweepEnd, Prune, sysVars
  <2>3. CASE LateWrite
    BY <2>3 DEF LateWrite, HungLost
  <2>4. CASE \/ \E i \in DOMAIN rows : BackoffElapses(i) \/ OperatorRequeues(i)
             \/ Crash \/ Recover \/ UNCHANGED vars
    BY <2>4 DEF BackoffElapses, OperatorRequeues, Crash, Recover, sysVars, vars
  <2> QED BY <2>1, <2>2, <2>3, <2>4 DEF Next
<1> QED
  BY <1>0, <1>1, <1>2, <1>3, <1>4

\* A node that stays present never goes back to an older revision and never
\* changes under an unchanged one (upsertNodeAtRevision, replayNodeAtRevision,
\* restoreNodeInline).
THEOREM RevisionsGoUp == Spec => RevisionOnlyUp
<1>1. Inv /\ [Next]_vars => [RevisionStep]_vars
  BY NextKeepsRevisions
<1> QED
  BY <1>1, InvHolds, PTL DEF RevisionOnlyUp, Spec

=============================================================================
