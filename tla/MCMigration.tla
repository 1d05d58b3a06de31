---------------------------- MODULE MCMigration ----------------------------
(***************************************************************************)
(* A table of three rows, copied two at a time, whose values include the   *)
(* NULL that a copy has to tell from the new column's default.             *)
(***************************************************************************)
EXTENDS Migration

CONSTANTS r1, r2, r3, null, default, v1

MCRows   == {r1, r2, r3}
MCValues == {null, default, v1}

=============================================================================
