-------------------------- MODULE MigrationProofs --------------------------
(***************************************************************************)
(* For every table, batch size and bound: the migration keeps every value  *)
(* and its row is true of the table.                                       *)
(***************************************************************************)
EXTENDS Migration, TLAPS

\* What a phase that has been carried out left of the columns.
Carried ==
    /\ kind = "rename" =>
          /\ phase = "migrate" => cols = {"old", "new"}
          /\ phase \in {"contract", "complete"} => cols = {"new"}
    /\ kind = "drop" /\ phase \in {"contract", "complete"} => cols = {}

\* The part of the inductive invariant about a run under way: which phase it
\* works on, and that the phases before it have been carried out.
RunShape ==
    /\ pc \in {"begin", "dispatch", "undo", "undone"} => phase \in {"additive", "expand"}
    /\ pc = "undone" => cols = {"old"}
    /\ pc \in {"dispatch", "advance", "ok"} => status = "running"
    /\ pc = "begin" => status = "pending"
    /\ pc = "advance" => kind \in Destructive /\ phase \in {"migrate", "contract", "complete"}
    /\ pc = "advance" /\ phase = "contract" /\ kind = "rename" => cols = {"old", "new"}
    /\ pc = "advance" /\ phase = "complete" => Carried
    /\ pc = "ok" => Carried

\* A migration that drops a column adds none, and one not begun changed nothing.
ColumnShape ==
    /\ kind = "drop" => "new" \notin cols
    /\ status = "none" => cols = {"old"} /\ pc = "idle"

IInv == TypeOK /\ NoValueLost /\ PhaseTruthful /\ RunShape /\ ColumnShape

-----------------------------------------------------------------------------

LEMMA InitIInv == Init => IInv
  BY MigrationAssumption, SMT
  DEF Init, IInv, TypeOK, NoValueLost, PhaseTruthful, RunShape, ColumnShape, Carried,
      Kinds, Statuses, Phases, PCs, Destructive

\* Copying a set of rows leaves a column of values, and copying the rows that
\* differ makes the columns equal: no late write is missed.
LEMMA CopyLemma ==
  ASSUME TypeOK
  PROVE  /\ \A S \in SUBSET Rows : CopiedOver(S) \in [Rows -> Values]
         /\ CatchUp = old
  BY DEF TypeOK, CatchUp, CopiedOver, Differing

\* The types are kept by every step.
LEMMA TypeStep == IInv /\ [Next]_vars => TypeOK'
<1> SUFFICES ASSUME IInv, [Next]_vars PROVE TypeOK'
    OBVIOUS
<1> USE MigrationAssumption
    DEF IInv, TypeOK, Kinds, Statuses, Phases, PCs, Destructive, row, table, counts
<1>1. ASSUME NEW k \in Kinds, Apply(k) PROVE TypeOK'
    BY <1>1 DEF Apply, PhaseOf
<1>2. CASE ApplyRunning \/ Dispatch
    BY <1>2 DEF ApplyRunning, Dispatch
<1>3. CASE Advance
    BY <1>3 DEF Advance, NextPhase
<1>4. CASE CopyBatch
    BY <1>4, CopyLemma DEF CopyBatch, Differing
<1>5. CASE Contract
    BY <1>5, CopyLemma DEF Contract
<1>6. CASE CopyDone \/ DropOld \/ Mark \/ ColumnMissing
    BY <1>6 DEF CopyDone, DropOld, Mark, ColumnMissing
<1>7. CASE Rollback \/ RollbackRefused \/ RollbackMigrate \/ RollbackExpand
    BY <1>7 DEF Rollback, RollbackRefused, RollbackMigrate, RollbackExpand
<1>8. CASE Undo \/ RolledBack \/ Finish \/ Fail
    BY <1>8 DEF Undo, RolledBack, Finish, Fail
<1>9. CASE StatementFails \/ Kill
  <2>1. faults' \in 0 .. MaxFaults /\ kills' \in 0 .. MaxKills /\ writes' = writes
    BY <1>9 DEF StatementFails, Fault, Kill
  <2>2. pc' \in PCs /\ UNCHANGED <<row, table, truth>>
    BY <1>9 DEF StatementFails, Kill
  <2> QED
    BY <2>1, <2>2
<1>10. ASSUME NEW r \in Rows, NEW v \in Values, Write(r, v) PROVE TypeOK'
    BY <1>10 DEF Write
<1>11. CASE UNCHANGED vars
    BY <1>11 DEF vars
<1> QED
    BY <1>1, <1>2, <1>3, <1>4, <1>5, <1>6, <1>7, <1>8, <1>9, <1>10, <1>11 DEF Next

\* Only a run of `contract` takes the old column away, and it copies first.
LEMMA ValueStep == IInv /\ [Next]_vars => NoValueLost'
<1> SUFFICES ASSUME IInv, [Next]_vars PROVE NoValueLost'
    OBVIOUS
<1> USE DEF IInv, NoValueLost, row, table, counts
<1>1. ASSUME NEW k \in Kinds, Apply(k) PROVE NoValueLost'
    BY <1>1 DEF Apply, PhaseTruthful, ColumnShape
<1>2. CASE ApplyRunning \/ Dispatch
    BY <1>2 DEF ApplyRunning, Dispatch
<1>3. CASE Advance \/ CopyDone \/ Mark \/ ColumnMissing
    BY <1>3 DEF Advance, CopyDone, Mark, ColumnMissing
<1>4. CASE CopyBatch
    BY <1>4 DEF CopyBatch, Columns
<1>5. CASE Contract
  <2>1. old = truth /\ "new" \in cols'
    BY <1>5 DEF Contract, Columns
  <2>2. new' = old /\ truth' = truth /\ "old" \notin cols'
    BY <1>5, CopyLemma DEF Contract
  <2> QED
    BY <2>1, <2>2
<1>6. CASE DropOld
    BY <1>6 DEF DropOld
<1>7. CASE Rollback \/ RollbackRefused \/ RollbackMigrate \/ RollbackExpand
    BY <1>7 DEF Rollback, RollbackRefused, RollbackMigrate, RollbackExpand
<1>8. CASE Undo
    BY <1>8 DEF Undo, PhaseTruthful, RunShape
<1>9. CASE RolledBack \/ Finish \/ Fail \/ StatementFails \/ Kill
    BY <1>9 DEF RolledBack, Finish, Fail, StatementFails, Fault, Kill
<1>10. ASSUME NEW r \in Rows, NEW v \in Values, Write(r, v) PROVE NoValueLost'
  <2>1. CASE "old" \in cols
    BY <1>10, <2>1 DEF Write
  <2>2. CASE "old" \notin cols
    BY <1>10, <2>2 DEF Write
  <2> QED
    BY <2>1, <2>2
<1>11. CASE UNCHANGED vars
    BY <1>11 DEF vars
<1> QED
    BY <1>1, <1>2, <1>3, <1>4, <1>5, <1>6, <1>7, <1>8, <1>9, <1>10, <1>11 DEF Next

\* The row, the columns and the place of the run move together.
LEMMA RowStep == IInv /\ [Next]_vars => PhaseTruthful' /\ RunShape' /\ ColumnShape'
<1> SUFFICES ASSUME IInv, [Next]_vars PROVE PhaseTruthful' /\ RunShape' /\ ColumnShape'
    OBVIOUS
<1> USE DEF IInv, TypeOK, PhaseTruthful, RunShape, ColumnShape, Carried,
            Kinds, Destructive, row, table, counts
<1> DEFINE Goal == PhaseTruthful' /\ RunShape' /\ ColumnShape'
<1>1. ASSUME NEW k \in Kinds, Apply(k) PROVE Goal
    BY <1>1 DEF Apply, PhaseOf
<1>2. CASE ApplyRunning
    BY <1>2 DEF ApplyRunning
<1>3. CASE Dispatch
    BY <1>3 DEF Dispatch
<1>4. CASE Advance
  <2>1. kind \in Destructive /\ status = "applied" /\ UNCHANGED <<kind, cols>>
    BY <1>4 DEF Advance
  <2>2. status' = "running" /\ pc' = "advance"
    BY <1>4 DEF Advance
  <2>3. \/ phase = "expand" /\ phase' = "migrate"
        \/ phase = "migrate" /\ phase' = "contract"
        \/ phase = "contract" /\ phase' = "complete"
    BY <1>4 DEF Advance, NextPhase, Phases
  <2> QED
    BY <2>1, <2>2, <2>3
<1>5. CASE CopyBatch
    BY <1>5 DEF CopyBatch
<1>6. CASE CopyDone
    BY <1>6 DEF CopyDone, Columns
<1>7. CASE Contract
    BY <1>7 DEF Contract, Columns
<1>8. CASE DropOld
    BY <1>8 DEF DropOld
<1>9. CASE Mark
    BY <1>9 DEF Mark
<1>10. CASE ColumnMissing
    BY <1>10 DEF ColumnMissing
<1>11. CASE Rollback \/ RollbackRefused
    BY <1>11 DEF Rollback, RollbackRefused
<1>12. CASE RollbackMigrate \/ RollbackExpand
  <2>1. CASE RollbackMigrate
    BY <2>1 DEF RollbackMigrate
  <2>2. CASE RollbackExpand
    BY <2>2 DEF RollbackExpand
  <2> QED
    BY <1>12, <2>1, <2>2
<1>13. CASE Undo
    BY <1>13 DEF Undo
<1>14. CASE RolledBack \/ Finish \/ Fail
    BY <1>14 DEF RolledBack, Finish, Fail
<1>15. CASE StatementFails \/ Kill
    BY <1>15 DEF StatementFails, Fault, Kill
<1>16. ASSUME NEW r \in Rows, NEW v \in Values, Write(r, v) PROVE Goal
    BY <1>16 DEF Write
<1>17. CASE UNCHANGED vars
    BY <1>17 DEF vars
<1> QED
    BY <1>1, <1>2, <1>3, <1>4, <1>5, <1>6, <1>7, <1>8, <1>9, <1>10, <1>11, <1>12,
       <1>13, <1>14, <1>15, <1>16, <1>17 DEF Next

\* The invariant is inductive.
LEMMA Inductive == Spec => []IInv
<1>1. IInv /\ [Next]_vars => IInv'
    BY TypeStep, ValueStep, RowStep DEF IInv
<1> QED
    BY InitIInv, <1>1, PTL DEF Spec

-----------------------------------------------------------------------------

\* The row and the table of a migration always have their types.
THEOREM MigrationTypeCorrect == Spec => []TypeOK
  BY Inductive, PTL DEF IInv

\* No run of apply, advance and rollback, wherever it fails or is killed and
\* whatever the owner of the table writes meanwhile, loses a value.
THEOREM ValuesKept == Spec => []NoValueLost
  BY Inductive, PTL DEF IInv

\* The phase and the status of a migration are always true of the table.
THEOREM RowTruthful == Spec => []PhaseTruthful
  BY Inductive, PTL DEF IInv

=============================================================================
