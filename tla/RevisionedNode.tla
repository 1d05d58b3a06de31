---------------------------- MODULE RevisionedNode ----------------------------
(***************************************************************************)
(* One node of the graph substrate, reduced to its revision and content,   *)
(* and the ways a write may change it.  A node that is not there reads as  *)
(* revision 0.                                                             *)
(***************************************************************************)
EXTENDS Integers

CONSTANTS Contents, NoContent

Absent == [rev |-> 0, content |-> NoContent]

Node == [rev: Nat, content: Contents \cup {NoContent}]

IsPresent(g) == g.content # NoContent

\* upsertNodeAtRevision(node, r) throws RevisionConflictError unless it can.
CanCommitAt(g, r) == g.rev = r
CommitAt(g, r, c) == [rev |-> r + 1, content |-> c]

\* Mutant: the previous node goes back under its own, old revision.
RestoreUnder(g, c) == [rev |-> g.rev - 1, content |-> c]

\* restoreNodeInline: the previous content is a new state, one revision up.
RestoreOver(g, c) == [rev |-> g.rev + 1, content |-> c]

\* upsertNode: written whatever is stored, one revision up.
UpsertNode(g, c) == [rev |-> g.rev + 1, content |-> c]

\* replayNodeAtRevision: written verbatim over an absent or older node, skipped
\* otherwise.
ReplayNodeAtRevision(g, r, c) ==
    IF g.rev < r THEN [rev |-> r, content |-> c] ELSE g

\* replayNodePayload: only a payload with a revision passes the gate.
ReplayUpsert(g, r, c) ==
    IF r = 0 THEN UpsertNode(g, c) ELSE ReplayNodeAtRevision(g, r, c)

\* dispatch of a row, and the read that tells whether it is already applied
\* (dispatcher.verifyApplied: the witness fields of the stored node).
Replay(g, e) ==
    IF e.kind = "delete" THEN Absent ELSE ReplayUpsert(g, e.rev, e.content)

VerifyApplied(g, e) ==
    IF e.kind = "delete" THEN ~IsPresent(g) ELSE g.content = e.content

\* pendingCommit.rowCommitted: the graph shows the commit the row was recorded
\* ahead of, or a later one.
RowCommitted(g, e) ==
    /\ IsPresent(g)
    /\ IF e.rev > 0 THEN g.rev >= e.rev ELSE g.content = e.content

=============================================================================
