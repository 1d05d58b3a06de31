----------------------------- MODULE RowLifecycle -----------------------------
(***************************************************************************)
(* What the outbox promises about one row: the states it may pass through. *)
(* `life' maps every row id issued so far to the row's status, or to       *)
(* "gone" once the row has left the table.  One statement may move several *)
(* rows (boot recovery, a prune); each of them moves along a transition.   *)
(***************************************************************************)
EXTENDS Integers

VARIABLE life

Recorded == {"pending_commit", "pending"}

\* A retraction takes only what nobody claimed; a claimed row is settled by its
\* replay or put back by the deferral and by boot recovery; only an operator
\* brings a dead row back; only the retention sweep removes a finished one.
Transitions ==
    {<<"pending_commit", "pending">>, <<"pending_commit", "gone">>,
     <<"pending", "replicating">>, <<"pending", "gone">>, <<"pending", "dead">>,
     <<"replicating", "replicated">>, <<"replicating", "failed">>,
     <<"replicating", "dead">>, <<"replicating", "pending">>,
     <<"failed", "replicating">>, <<"failed", "replicated">>, <<"failed", "dead">>,
     <<"dead", "failed">>,
     <<"replicated", "gone">>}

Init == DOMAIN life = {}

\* Issued ids keep their place and move along a transition or stay; a new id
\* starts as recorded.
Step ==
    /\ DOMAIN life \subseteq DOMAIN life'
    /\ \A i \in DOMAIN life :
        life'[i] = life[i] \/ <<life[i], life'[i]>> \in Transitions
    /\ \A i \in DOMAIN life' \ DOMAIN life : life'[i] \in Recorded

Spec == Init /\ [][Step]_life

=============================================================================
