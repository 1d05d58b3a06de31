----------------------------- MODULE Migration -----------------------------
(***************************************************************************)
(* One online migration of a SQLite table, driven by `lore migrate` runs   *)
(* (apply, advance, rollback) that may be killed at any point, while the   *)
(* program that owns the table keeps writing it.                           *)
(*                                                                         *)
(* "rename" stands for rename_column and change_type, whose steps are the  *)
(* same; "additive" for add_column, add_table and add_index, which create  *)
(* a thing if it is absent and drop it if it is present.                   *)
(*                                                                         *)
(* A step runs up to the next await or the next statement on the database: *)
(* another process may write between two statements.  One `lore migrate`   *)
(* runs at a time: no code excludes a second one.                          *)
(***************************************************************************)
EXTENDS Integers, FiniteSets

CONSTANTS
    Rows,         \* rows of the table
    Values,       \* column values, NULL among them
    Default,      \* what ADD COLUMN fills the new column with
    BatchSize,    \* rows copied by one UPDATE
    MaxFaults,    \* bound on failing statements
    MaxKills,     \* bound on killed runs
    MaxWrites     \* bound on writes by the owner of the table

ASSUME MigrationAssumption ==
    /\ IsFiniteSet(Rows)
    /\ Default \in Values
    /\ BatchSize \in Nat \ {0}
    /\ MaxFaults \in Nat /\ MaxKills \in Nat /\ MaxWrites \in Nat

VARIABLES
    kind,     \* migrations.kind
    status,   \* migrations.status, "none" before the row exists
    phase,    \* migrations.phase
    cols,     \* the columns the table has: "old" (fromColumn), "new" (toColumn)
    old,      \* the old column's values
    new,      \* the new column's values
    pc,       \* how far the running `lore migrate` is
    truth,    \* history: what the owner wrote last to each row
    faults, kills, writes

row    == <<kind, status, phase>>
table  == <<cols, old, new>>
counts == <<faults, kills, writes>>
vars   == <<row, table, pc, truth, counts>>

Kinds       == {"additive", "rename", "drop"}
Destructive == {"rename", "drop"}
Statuses    == {"none", "pending", "running", "applied", "failed", "rolled_back"}
Phases      == {"additive", "expand", "migrate", "contract", "complete"}
PCs         == {"idle", "begin", "dispatch", "advance", "undo", "undone", "ok", "fail"}

\* Mutant: every kind starts at expand.
PhaseOfAllExpand(k) == "expand"

\* KIND_TO_PHASE.
PhaseOf(k) == IF k = "additive" THEN "additive" ELSE "expand"

\* nextPhase: defined up to "contract".
NextPhase(p) == CASE p = "expand"   -> "migrate"
                  [] p = "migrate"  -> "contract"
                  [] p = "contract" -> "complete"
                  [] OTHER          -> p

Init ==
    /\ kind = "rename" /\ status = "none" /\ phase = "expand"
    /\ cols = {"old"}
    /\ old \in [Rows -> Values]
    /\ new = [r \in Rows |-> Default]
    /\ pc = "idle"
    /\ truth = old
    /\ faults = 0 /\ kills = 0 /\ writes = 0

Fault == faults < MaxFaults /\ faults' = faults + 1 /\ UNCHANGED <<kills, writes>>

-----------------------------------------------------------------------------
(* lore migrate apply.                                                     *)

\* A migration is applied once under its id; one that was rolled back may be
\* applied again under a fresh id, and the old id is left alone from then on.
Apply(k) ==
    /\ pc = "idle" /\ status \in {"none", "rolled_back"}
    /\ kind' = k /\ status' = "pending" /\ phase' = PhaseOf(k)
    /\ pc' = "begin"
    /\ UNCHANGED <<table, truth, counts>>

ApplyRunning ==
    /\ pc = "begin"
    /\ status' = "running" /\ pc' = "dispatch"
    /\ UNCHANGED <<kind, phase, table, truth, counts>>

\* prepareRename, prepareDropColumn and addColumn.
Dispatch ==
    /\ pc = "dispatch"
    /\ cols' = IF kind = "drop" THEN cols ELSE cols \union {"new"}
    /\ pc' = "ok"
    /\ UNCHANGED <<row, old, new, truth, counts>>

-----------------------------------------------------------------------------
(* lore migrate advance.                                                   *)

Advance ==
    /\ pc = "idle" /\ kind \in Destructive
    /\ status = "applied" /\ phase # "complete"
    /\ status' = "running" /\ phase' = NextPhase(phase)
    /\ pc' = "advance"
    /\ UNCHANGED <<kind, table, truth, counts>>

\* SELECT rowid ... WHERE to IS NOT from: IS NOT tells NULL from a value.
Differing == {r \in Rows : new[r] # old[r]}

\* The table after the rows S are copied.
CopiedOver(S) == [r \in Rows |-> IF r \in S THEN old[r] ELSE new[r]]

Columns == {"old", "new"} \subseteq cols

\* One UPDATE ... LIMIT batchSize of migrateData.
CopyBatch ==
    /\ pc = "advance" /\ phase = "migrate" /\ kind = "rename" /\ Columns
    /\ \E S \in SUBSET Differing :
          /\ S # {}
          /\ \/ Cardinality(S) = BatchSize
             \/ S = Differing /\ Cardinality(S) < BatchSize
          /\ new' = CopiedOver(S)
    /\ UNCHANGED <<row, cols, old, pc, truth, counts>>

\* The UPDATE that changes no row.
CopyDone ==
    /\ pc = "advance" /\ phase = "migrate" /\ kind = "rename" /\ Columns
    /\ Differing = {}
    /\ pc' = "ok"
    /\ UNCHANGED <<row, table, truth, counts>>

\* Mutant: drops without copying the late writes.
CatchUpNone == new

\* contract: BEGIN IMMEDIATE, copy until nothing differs, drop, COMMIT.
CatchUp == CopiedOver(Differing)

Contract ==
    /\ pc = "advance" /\ phase = "contract" /\ kind = "rename" /\ Columns
    /\ new' = CatchUp
    /\ cols' = cols \ {"old"}
    /\ pc' = "ok"
    /\ UNCHANGED <<row, old, truth, counts>>

\* dropOld.
DropOld ==
    /\ pc = "advance" /\ phase = "contract" /\ kind = "drop"
    /\ cols' = cols \ {"old"}
    /\ pc' = "ok"
    /\ UNCHANGED <<row, old, new, truth, counts>>

\* Phase 2 of drop_column and the last phase touch no substrate.
Mark ==
    /\ pc = "advance"
    /\ \/ phase = "complete"
       \/ phase = "migrate" /\ kind = "drop"
    /\ pc' = "ok"
    /\ UNCHANGED <<row, table, truth, counts>>

\* migrateData or contract finds a column missing.
ColumnMissing ==
    /\ pc = "advance" /\ phase \in {"migrate", "contract"}
    /\ kind = "rename" /\ ~Columns
    /\ pc' = "fail"
    /\ UNCHANGED <<row, table, truth, counts>>

-----------------------------------------------------------------------------
(* lore migrate rollback.                                                  *)

\* rollback(), for additive kinds.
Rollback ==
    /\ pc = "idle" /\ kind = "additive" /\ status = "applied"
    /\ pc' = "undo"
    /\ UNCHANGED <<row, table, truth, counts>>

\* Mutant: the contract phase is rolled back like the one before it.
RollbackRefusedNever ==
    /\ pc = "idle" /\ kind \in Destructive /\ status # "none"
    /\ phase \in {"contract", "complete"}
    /\ status' = "applied" /\ phase' = "expand"
    /\ UNCHANGED <<kind, table, pc, truth, counts>>

\* rollbackPhase from contract or complete.
RollbackRefused ==
    /\ pc = "idle" /\ kind \in Destructive /\ status # "none"
    /\ phase \in {"contract", "complete"}
    /\ status' = "failed"
    /\ UNCHANGED <<kind, phase, table, pc, truth, counts>>

\* rollbackPhase from migrate: the new column stays.
RollbackMigrate ==
    /\ pc = "idle" /\ kind \in Destructive /\ status # "none"
    /\ phase = "migrate"
    /\ status' = "applied" /\ phase' = "expand"
    /\ UNCHANGED <<kind, table, pc, truth, counts>>

\* rollbackPhase from expand: whatever the status is.
RollbackExpand ==
    /\ pc = "idle" /\ kind \in Destructive /\ status # "none"
    /\ phase = "expand"
    /\ pc' = IF kind = "drop" THEN "undone" ELSE "undo"
    /\ UNCHANGED <<row, table, truth, counts>>

\* reverseAddColumn.
Undo ==
    /\ pc = "undo"
    /\ cols' = cols \ {"new"}
    /\ new' = [r \in Rows |-> Default]
    /\ pc' = "undone"
    /\ UNCHANGED <<row, old, truth, counts>>

RolledBack ==
    /\ pc = "undone"
    /\ status' = "rolled_back" /\ pc' = "idle"
    /\ UNCHANGED <<kind, phase, table, truth, counts>>

-----------------------------------------------------------------------------
(* The outcome of a run, its faults, and the owner of the table.           *)

Finish ==
    /\ pc = "ok"
    /\ status' = "applied" /\ pc' = "idle"
    /\ UNCHANGED <<kind, phase, table, truth, counts>>

Fail ==
    /\ pc = "fail"
    /\ status' = "failed" /\ pc' = "idle"
    /\ UNCHANGED <<kind, phase, table, truth, counts>>

\* A statement of the adapter fails (a busy lock, a full disk): its effect is
\* undone.  The no-op verbs issue none.
StatementFails ==
    /\ \/ pc = "undo"
       \/ pc = "dispatch" /\ kind # "drop"
       \/ pc = "advance" /\ phase = "contract"
       \/ pc = "advance" /\ phase = "migrate" /\ kind = "rename"
    /\ Fault
    /\ pc' = "fail"
    /\ UNCHANGED <<row, table, truth>>

Kill ==
    /\ pc # "idle"
    /\ kills < MaxKills /\ kills' = kills + 1
    /\ pc' = "idle"
    /\ UNCHANGED <<row, table, truth, faults, writes>>

\* The owner writes the old column while it is there, and the new one once
\* the old is gone (a write that names a missing column fails).
Write(r, v) ==
    /\ writes < MaxWrites /\ writes' = writes + 1
    /\ truth[r] # v
    /\ \/ "old" \in cols /\ old' = [old EXCEPT ![r] = v] /\ UNCHANGED new
       \/ cols = {"new"} /\ new' = [new EXCEPT ![r] = v] /\ UNCHANGED old
    /\ truth' = [truth EXCEPT ![r] = v]
    /\ UNCHANGED <<row, cols, pc, faults, kills>>

Next ==
    \/ \E k \in Kinds : Apply(k)
    \/ ApplyRunning \/ Dispatch
    \/ Advance \/ CopyBatch \/ CopyDone \/ Contract \/ DropOld \/ Mark \/ ColumnMissing
    \/ Rollback \/ RollbackRefused \/ RollbackMigrate \/ RollbackExpand \/ Undo \/ RolledBack
    \/ Finish \/ Fail \/ StatementFails \/ Kill
    \/ \E r \in Rows, v \in Values : Write(r, v)

Spec == Init /\ [][Next]_vars

-----------------------------------------------------------------------------

\* The row and the table have their types, and the phase is one its kind has.
TypeOK ==
    /\ kind \in Kinds /\ status \in Statuses /\ phase \in Phases
    /\ kind = "additive" <=> phase = "additive"
    /\ cols \in SUBSET {"old", "new"}
    /\ old \in [Rows -> Values] /\ new \in [Rows -> Values]
    /\ truth \in [Rows -> Values]
    /\ pc \in PCs
    /\ faults \in 0 .. MaxFaults /\ kills \in 0 .. MaxKills /\ writes \in 0 .. MaxWrites

\* A migration never loses a value: whatever phases ran, failed, were killed
\* or rolled back, and whenever the owner wrote between the backfill and the
\* drop, the last value written to a row is in the old column while it exists
\* and in the new column once the old is dropped - unless the migration is the
\* one that drops the column for good.
NoValueLost ==
    IF "old" \in cols THEN old = truth
    ELSE kind = "drop" \/ ("new" \in cols /\ new = truth)

\* What the row tells the operator is true of the table: a migration that can
\* still be rolled back has its old column, one rolled back has left the table
\* as it was, an applied backfill has both columns, an applied contract has
\* dropped the old one.  ("Applied" at expand is not in the list: a rollback
\* killed between its DROP and its update leaves it behind.)
PhaseTruthful ==
    /\ phase \in {"additive", "expand", "migrate"} => "old" \in cols
    /\ status = "rolled_back" => cols = {"old"}
    /\ status = "applied" /\ kind = "rename" =>
          /\ phase = "migrate" => cols = {"old", "new"}
          /\ phase \in {"contract", "complete"} => cols = {"new"}
    /\ status = "applied" /\ kind = "drop" /\ phase \in {"contract", "complete"} => cols = {}

=============================================================================
