----------------------------- MODULE MCSequence -----------------------------
(***************************************************************************)
(* Outbox with a history variable: the highest sequence id ever issued.    *)
(***************************************************************************)
EXTENDS Outbox, FiniteSetsExt

VARIABLE highest

histVars == <<vars, highest>>

HistInit == Init /\ highest = 0

HistNext ==
    /\ Next
    /\ highest' = Max({highest} \cup {rows'[i].seq : i \in DOMAIN rows'})

HistSpec == HistInit /\ [][HistNext]_histVars

\* Sequence ids only grow, pruned rows included (nextSequenceId, runPruneSweep):
\* a recorded row gets an id above every id ever issued.
SequenceMonotonic ==
    [][\A i \in DOMAIN rows' \ DOMAIN rows : rows'[i].seq > highest]_histVars

=============================================================================
