----------------------------- MODULE OutboxStore -----------------------------
(***************************************************************************)
(* The outbox tables of one workspace and the statements the write path,   *)
(* the replicator and the operator run on them.  A table is a function     *)
(* from the ids of the live rows to rows; every operator below is one      *)
(* atomic SQL statement or one synchronous better-sqlite3 transaction and  *)
(* returns the table after it.                                             *)
(*                                                                         *)
(* Row ids are random UUIDs in the code.  Here they are the numbers 1, 2,  *)
(* ... in the order the rows were recorded, so an id is never issued twice *)
(* and "recorded before" can be said; the code never compares ids.         *)
(*                                                                         *)
(* Abstractions.  Only the node family is here (node.upsert, node.delete). *)
(* A payload is the node's content, a model value, and the revision it     *)
(* carries (0: a payload without one).  nextAttemptAt is `due', FALSE      *)
(* while it lies in the future; the clock is an action of the system.      *)
(***************************************************************************)
EXTENDS Integers, FiniteSets

CONSTANTS
    Keys,      \* node ids of the workspace
    Contents,  \* node contents a client may write
    NoContent  \* the content of a node that is not there

ASSUME ContentsAssumption == NoContent \notin Contents

-----------------------------------------------------------------------------
(* Rows *)

Kinds == {"upsert", "delete"}

Statuses ==
    {"pending_commit", "pending", "replicating", "failed", "replicated", "dead"}

Reasons == {"none", "superseded", "unreplayable"}

Row == [kind: Kinds, key: Keys, rev: Nat, content: Contents \cup {NoContent},
        seq: Nat, status: Statuses, attempts: Nat, transients: Nat,
        due: BOOLEAN, completed: BOOLEAN, reason: Reasons]

\* What a caller hands to recordHotWrite.
UpsertSpec(k, r, c, st) ==
    [kind |-> "upsert", key |-> k, rev |-> r, content |-> c, status |-> st]
DeleteSpec(k) ==
    [kind |-> "delete", key |-> k, rev |-> 0, content |-> NoContent,
     status |-> "pending"]

NoRows == [i \in {} |-> 0]

WithStatus(rows, st) == {i \in DOMAIN rows : rows[i].status = st}

-----------------------------------------------------------------------------
(* Recording.  The next sequence id is one above the larger of the highest *)
(* surviving sequence id and the replication cursor.                       *)

SeqsInUse(rows, cursor) == {rows[i].seq : i \in DOMAIN rows} \cup {cursor}

\* Mutant: COUNT(*) for MAX(sequenceId).
NextSequenceIdByCount(rows, cursor) == 1 + Cardinality(DOMAIN rows)

NextSequenceId(rows, cursor) ==
    1 + CHOOSE m \in SeqsInUse(rows, cursor) :
            \A n \in SeqsInUse(rows, cursor) : n <= m

NewRow(spec, seq) ==
    [kind |-> spec.kind, key |-> spec.key, rev |-> spec.rev,
     content |-> spec.content, seq |-> seq, status |-> spec.status,
     attempts |-> 0, transients |-> 0, due |-> TRUE, completed |-> FALSE,
     reason |-> "none"]

Record(rows, i, spec, cursor) ==
    [j \in DOMAIN rows \cup {i} |->
        IF j = i THEN NewRow(spec, NextSequenceId(rows, cursor)) ELSE rows[j]]

-----------------------------------------------------------------------------
(* The writer's statements *)

Remove(rows, S) == [j \in DOMAIN rows \ S |-> rows[j]]

\* Mutant: the unconditional remove() that removeIfPending replaced.
RemovableAlways(rows, i) == i \in DOMAIN rows

\* DELETE ... WHERE status IN ('pending', 'pending_commit').
Removable(rows, i) ==
    i \in DOMAIN rows /\ rows[i].status \in {"pending", "pending_commit"}

RemoveIfPending(rows, i) ==
    IF Removable(rows, i) THEN Remove(rows, {i}) ELSE rows

\* FALSE only for a row the replicator already claimed.
RemoveIfPendingResult(rows, i) == Removable(rows, i) \/ i \notin DOMAIN rows

MarkCommitted(rows, i) ==
    IF i \in DOMAIN rows /\ rows[i].status = "pending_commit"
    THEN [rows EXCEPT ![i].status = "pending"]
    ELSE rows

-----------------------------------------------------------------------------
(* The replicator's statements *)

\* Mutant: dead rows are retried too.
EligibleWithDead(rows) ==
    {i \in DOMAIN rows :
        rows[i].status \in {"pending", "failed", "dead"} /\ rows[i].due}

Eligible(rows) ==
    {i \in DOMAIN rows : rows[i].status \in {"pending", "failed"} /\ rows[i].due}

\* The first n eligible rows in sequence order.
ListPending(rows, n) ==
    {i \in Eligible(rows) :
        Cardinality({j \in Eligible(rows) : rows[j].seq < rows[i].seq}) < n}

ClaimForReplication(rows, i) ==
    IF i \in Eligible(rows)
    THEN [rows EXCEPT ![i] = [@ EXCEPT !.status = "replicating"]]
    ELSE rows

\* `bump' counts an attempt; a missing row is left missing.  Only 'failed'
\* starts a backoff, and `completed' is set by 'replicated' and never reset.
Marked(row, st, bump, why) ==
    [row EXCEPT !.status = st,
                !.attempts = @ + bump,
                !.due = (st # "failed"),
                !.completed = @ \/ (st = "replicated"),
                !.reason = IF st = "dead" THEN why ELSE @]

MarkEntryStatus(rows, i, st, bump, why) ==
    IF i \notin DOMAIN rows THEN rows
    ELSE [rows EXCEPT ![i] = Marked(@, st, bump, why)]

Rescheduled(row) ==
    [row EXCEPT !.status = "failed", !.transients = @ + 1, !.due = FALSE]

RecordTransientFailure(rows, i) ==
    IF i \notin DOMAIN rows THEN rows
    ELSE [rows EXCEPT ![i] = Rescheduled(@)]

\* A newer row of the same entity, of any kind, already replicated.
HasNewerReplicatedForKey(rows, e) ==
    \E j \in DOMAIN rows : /\ rows[j].key = e.key
                           /\ rows[j].status = "replicated"
                           /\ rows[j].seq > e.seq

\* A newer delete of the same entity that applied or will be tried.
HasNewerDeleteForKey(rows, e) ==
    \E j \in DOMAIN rows :
        /\ rows[j].kind = "delete"
        /\ rows[j].key = e.key
        /\ rows[j].status \in {"pending", "replicating", "replicated"}
        /\ rows[j].seq > e.seq

\* Mutant: the newer-than guards are not asked.
IsSupersededNever(rows, e) == FALSE

\* replicator.isSupersededFailed: `e' is the tick's snapshot of the row, the
\* table is the one of now.
IsSuperseded(rows, e) ==
    \/ e.kind = "upsert" /\ HasNewerDeleteForKey(rows, e)
    \/ e.status = "failed" /\ HasNewerReplicatedForKey(rows, e)

\* The cursor only advances.
WriteReplicationState(cursor, seq) == IF seq > cursor THEN seq ELSE cursor

-----------------------------------------------------------------------------
(* Boot and operator statements *)

\* Mutant: boot leaves a claimed row alone.
RequeueNothing(rows) == rows

\* recoverOutbox on rows whose only step is already 'done'.
RequeueReplicating(rows) ==
    [i \in DOMAIN rows |->
        IF ~rows[i].completed /\ rows[i].status = "replicating"
        THEN [rows[i] EXCEPT !.status = "pending", !.due = TRUE]
        ELSE rows[i]]

\* Mutant: a requeue gives one attempt back instead of resetting the count.
RequeueDeadOneAttempt(rows, i) ==
    [rows EXCEPT ![i] =
        [@ EXCEPT !.status = "failed", !.attempts = @ - 1, !.transients = 0,
                  !.due = TRUE, !.completed = FALSE, !.reason = "none"]]

RequeueDead(rows, i) ==
    [rows EXCEPT ![i] =
        [@ EXCEPT !.status = "failed", !.attempts = 0, !.transients = 0,
                  !.due = TRUE, !.completed = FALSE, !.reason = "none"]]

=============================================================================
