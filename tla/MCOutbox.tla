------------------------------ MODULE MCOutbox ------------------------------
(***************************************************************************)
(* Outbox on small instances.                                              *)
(***************************************************************************)
EXTENDS Outbox, TLC

ContentSymmetry == Permutations(Contents)

=============================================================================
