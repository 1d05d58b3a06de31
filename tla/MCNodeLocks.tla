----------------------------- MODULE MCNodeLocks -----------------------------
(***************************************************************************)
(* Two batches with duplicate and crossed ids beside a replicator tick over *)
(* the same nodes; and a batch alone on its nodes beside two bidirectional *)
(* edge writes.                                                            *)
(***************************************************************************)
EXTENDS NodeLocks, TLC

CONSTANTS n1, n2, t1, e1, e2

MCKind == (n1 :> "node" @@ n2 :> "node" @@ t1 :> "tick"
           @@ e1 :> "edge" @@ e2 :> "edge")

MCIds == (n1 :> <<2, 1, 2>> @@ n2 :> <<1, 2>> @@ t1 :> <<2, 1, 2>>
          @@ e1 :> <<4, 3>> @@ e2 :> <<3, 4>>)

=============================================================================
