----------------------------- MODULE LockService -----------------------------
(***************************************************************************)
(* What the write locks promise their callers: a body runs only while its  *)
(* caller owns every key it asked for, nobody else owns one of them        *)
(* meanwhile, and a caller that was refused owns nothing and never runs.   *)
(***************************************************************************)
CONSTANTS
    Calls,
    Keys,
    Nobody,
    Demand     \* Demand[c]: the sets of keys a body of call c may run under

VARIABLES
    owner,     \* who owns each key
    phase      \* where each call is

vars == <<owner, phase>>

Phases == {"asking", "running", "leaving", "done", "refused"}

TypeOK ==
    /\ owner \in [Keys -> Calls \cup {Nobody}]
    /\ phase \in [Calls -> Phases]

Init ==
    /\ owner = [k \in Keys |-> Nobody]
    /\ phase \in [Calls -> {"asking", "done"}]   \* done: a call nobody makes

Owned(c) == {k \in Keys : owner[k] = c}

To(c, from, to) ==
    /\ phase[c] = from
    /\ phase' = [phase EXCEPT ![c] = to]

Grant(c, k) ==
    /\ phase[c] = "asking"
    /\ owner[k] = Nobody
    /\ owner' = [owner EXCEPT ![k] = c]
    /\ UNCHANGED phase

Run(c) ==
    /\ To(c, "asking", "running")
    /\ \E K \in Demand[c] : Owned(c) = K
    /\ UNCHANGED owner

Leave(c) == To(c, "running", "leaving") /\ UNCHANGED owner

\* Refused on one key: the others are given back before the caller is told.
GiveUp(c) == To(c, "asking", "leaving") /\ UNCHANGED owner

Release(c, k) ==
    /\ phase[c] = "leaving"
    /\ owner[k] = c
    /\ owner' = [owner EXCEPT ![k] = Nobody]
    /\ UNCHANGED phase

\* The call returns, or goes on with its next body.
Return(c, to) ==
    /\ Owned(c) = {}
    /\ To(c, "leaving", to)
    /\ UNCHANGED owner

Next ==
    \E c \in Calls :
        \/ \E k \in Keys : Grant(c, k) \/ Release(c, k)
        \/ Run(c) \/ Leave(c) \/ GiveUp(c)
        \/ \E to \in {"asking", "done", "refused"} : Return(c, to)

Spec == Init /\ [][Next]_vars

=============================================================================
