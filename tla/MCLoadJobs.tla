------------------------------ MODULE MCLoadJobs ------------------------------
(***************************************************************************)
(* Jobs whose bodies reach a progress flush and a checkpoint, end on a bad *)
(* row, or are empty.                                                      *)
(***************************************************************************)
EXTENDS LoadJobs

CONSTANTS j1, j2

MCBody == [j \in Jobs |-> IF j = j1 THEN <<"good", "good", "good", "bad">> ELSE <<>>]

=============================================================================
