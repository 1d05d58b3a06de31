------------------------------ MODULE NodeLocks ------------------------------
(***************************************************************************)
(* The write locks of one daemon: a promise chain per key (KeyedMutex), the *)
(* bounded waits put on top of it for node keys (withNodeLock,             *)
(* withNodeLocks, and withNodeLockBudgeted under the replicator's tick) and *)
(* the unbounded ones for edge keys (withEdgeLocks).                       *)
(*                                                                         *)
(* A call is one invocation.  Every microtask boundary is a step boundary; *)
(* a wait that has a timer may be ended by it in any state.                *)
(***************************************************************************)
EXTENDS Integers, Sequences, Functions

CONSTANTS
    Calls,      \* invocations
    Keys,       \* lock keys; the order of Nat is the order of the strings
    Nobody,
    Kind,       \* Kind[c]: one of CallKinds
    Ids,        \* Ids[c]: the ids call c was given, in its order
    Scenarios,  \* which calls are made in one life of the daemon
    MaxWait     \* the wait allowance of a call, in ticks of the clock

CallKinds ==
    {"node",    \* withNodeLock, withNodeLocks: all ids at once
     "tick",    \* a replicator tick: one id after the other, one allowance
     "edge"}    \* withEdgeLock, withEdgeLocks: all at once, no allowance

ASSUME LocksAssumption ==
    /\ Keys \subseteq Nat \ {0}
    /\ Nobody \notin Calls
    /\ Kind \in [Calls -> CallKinds]
    /\ Ids \in [Calls -> Seq(Keys)]
    /\ Scenarios \subseteq SUBSET Calls
    /\ MaxWait \in Nat \ {0}

VARIABLES
    made,       \* the calls made
    chain,      \* KeyedMutex.chains: the ops of each key that have not settled
    lag,        \* whose op settled last, its map entry not deleted yet
    pc,         \* where each call is
    held,       \* the keys inside whose critical section a call is
    at,         \* the key a call waits for, or whose finally block is due
    timed,      \* a timer bounds that wait
    gaveUp,     \* the keys where a call left an abandoned slot behind
    budget,     \* NodeLockWaitBudget.remainingMs
    pos,        \* the ids a tick has dealt with
    refused,    \* the call (of a tick: its current row) timed out
    waited      \* how long the call has waited so far

vars == <<made, chain, lag, pc, held, at, timed, gaveUp, budget, pos, refused, waited>>

PCs == {"acquire", "wait", "inside", "unwind", "done", "refused"}

TypeOK ==
    /\ made \in SUBSET Calls
    /\ chain \in [Keys -> Seq(Calls)]
    /\ lag \in [Keys -> Calls \cup {Nobody}]
    /\ pc \in [Calls -> PCs]
    /\ held \in [Calls -> SUBSET Keys]
    /\ at \in [Calls -> Keys \cup {0}]
    /\ timed \in [Calls -> BOOLEAN]
    /\ gaveUp \in [Calls -> SUBSET Keys]
    /\ budget \in [Calls -> 0 .. MaxWait]
    /\ pos \in [Calls -> Nat]
    /\ \A c \in Calls : pos[c] = 0 \/ pos[c] < Len(Ids[c])
    /\ refused \in [Calls -> BOOLEAN]
    /\ waited \in [Calls -> Nat]

Init ==
    /\ made \in Scenarios
    /\ chain = [k \in Keys |-> <<>>]
    /\ lag = [k \in Keys |-> Nobody]
    /\ pc = [c \in Calls |-> IF c \in made THEN "acquire" ELSE "done"]
    /\ held = [c \in Calls |-> {}]
    /\ at = [c \in Calls |-> 0]
    /\ timed = [c \in Calls |-> FALSE]
    /\ gaveUp = [c \in Calls |-> {}]
    /\ budget = [c \in Calls |-> MaxWait]
    /\ pos = [c \in Calls |-> 0]
    /\ refused = [c \in Calls |-> FALSE]
    /\ waited = [c \in Calls |-> 0]

-----------------------------------------------------------------------------
(* KeyedMutex *)

IsHeld(k) == chain[k] # <<>> \/ lag[k] # Nobody

\* run: chain behind the tail; the map now points to the new op.
Chain(c, k) ==
    /\ chain' = [chain EXCEPT ![k] = Append(@, c)]
    /\ lag' = [lag EXCEPT ![k] = Nobody]

\* The op at the head of k settles (a rejection too: only the order counts).
Settle(k) ==
    /\ chain' = [chain EXCEPT ![k] = Tail(@)]
    /\ lag' = [lag EXCEPT ![k] =
                   IF Tail(chain[k]) = <<>> THEN Head(chain[k]) ELSE Nobody]

-----------------------------------------------------------------------------
(* What a call still has to take *)

\* The ids the current body needs: all of them at once, or the tick's next row.
Need(c) ==
    IF Kind[c] = "tick"
    THEN IF pos[c] < Len(Ids[c]) THEN {Ids[c][pos[c] + 1]} ELSE {}
    ELSE Range(Ids[c])

Missing(c) == Need(c) \ held[c]

\* Mutant: the ids are taken in the order they were given.
IsNextAsGiven(c, k) ==
    /\ k \in Missing(c)
    /\ \E i \in DOMAIN Ids[c] :
          /\ Ids[c][i] = k
          /\ Kind[c] = "tick" \/ \A j \in 1 .. (i - 1) : Ids[c][j] \in held[c]

\* Mutant: duplicate ids are not dropped.
IsNextRepeated(c, k) ==
    \/ k \in Missing(c) /\ \A j \in Missing(c) : k <= j
    \/ /\ k \in held[c] /\ \A j \in Missing(c) : k < j
       /\ \E i, j \in DOMAIN Ids[c] : i # j /\ Ids[c][i] = k /\ Ids[c][j] = k

\* De-duplicated and in sorted order, the lowest key outermost.
IsNext(c, k) == k \in Missing(c) /\ \A j \in Missing(c) : k <= j

-----------------------------------------------------------------------------
(* Steps of a call *)

Goto(c, p) == pc' = [pc EXCEPT ![c] = p]

\* A free lock is taken at once, without a timer; edges wait without bound.
\* Either way the op itself starts in a later microtask.
Enqueue(c, k) ==
    /\ pc[c] = "acquire" /\ IsNext(c, k)
    /\ ~IsHeld(k) \/ Kind[c] = "edge" \/ budget[c] > 0
    /\ Chain(c, k)
    /\ at' = [at EXCEPT ![c] = k]
    /\ timed' = [timed EXCEPT ![c] = IsHeld(k) /\ Kind[c] # "edge"]
    /\ Goto(c, "wait")
    /\ UNCHANGED <<made, held, gaveUp, budget, pos, refused, waited>>

\* A held lock and no allowance left: NodeLockTimeoutError at once.
RefuseAtOnce(c, k) ==
    /\ pc[c] = "acquire" /\ IsNext(c, k)
    /\ IsHeld(k) /\ Kind[c] # "edge" /\ budget[c] = 0
    /\ refused' = [refused EXCEPT ![c] = TRUE]
    /\ Goto(c, "unwind")
    /\ UNCHANGED <<made, chain, lag, held, at, timed, gaveUp, budget, pos, waited>>

\* Mutant: the op does not wait for its predecessor.
StartOutOfTurn(c, d) ==
    /\ pc[c] = "wait" /\ d = 0
    /\ held' = [held EXCEPT ![c] = @ \cup {at[c]}]
    /\ timed' = [timed EXCEPT ![c] = FALSE]
    /\ at' = [at EXCEPT ![c] = 0]
    /\ Goto(c, "acquire")
    /\ UNCHANGED <<made, chain, lag, gaveUp, budget, pos, refused, waited>>

\* Mutant: the time a wait took is not charged.
StartUncharged(c, d) ==
    LET k == at[c]
    IN  /\ pc[c] = "wait" /\ chain[k] # <<>> /\ Head(chain[k]) = c
        /\ IF timed[c] THEN d <= budget[c] ELSE d = 0
        /\ held' = [held EXCEPT ![c] = @ \cup {k}]
        /\ waited' = [waited EXCEPT ![c] = @ + d]
        /\ timed' = [timed EXCEPT ![c] = FALSE]
        /\ at' = [at EXCEPT ![c] = 0]
        /\ Goto(c, "acquire")
        /\ UNCHANGED <<made, chain, lag, gaveUp, budget, pos, refused>>

\* The op comes to the head of its chain after d ticks: the slot is no longer
\* 'waiting', the timer is off, the allowance is charged.
Start(c, d) ==
    LET k == at[c]
    IN  /\ pc[c] = "wait" /\ chain[k] # <<>> /\ Head(chain[k]) = c
        /\ IF timed[c] THEN d <= budget[c] ELSE d = 0
        /\ held' = [held EXCEPT ![c] = @ \cup {k}]
        /\ budget' = [budget EXCEPT ![c] = @ - d]
        /\ waited' = [waited EXCEPT ![c] = @ + d]
        /\ timed' = [timed EXCEPT ![c] = FALSE]
        /\ at' = [at EXCEPT ![c] = 0]
        /\ Goto(c, "acquire")
        /\ UNCHANGED <<made, chain, lag, gaveUp, pos, refused>>

\* The timer fires while the slot is 'waiting': the caller is refused, the slot
\* stays in the chain, the allowance is spent.
Timeout(c) ==
    /\ pc[c] = "wait" /\ timed[c]
    /\ gaveUp' = [gaveUp EXCEPT ![c] = @ \cup {at[c]}]
    /\ waited' = [waited EXCEPT ![c] = @ + budget[c]]
    /\ budget' = [budget EXCEPT ![c] = 0]
    /\ timed' = [timed EXCEPT ![c] = FALSE]
    /\ at' = [at EXCEPT ![c] = 0]
    /\ refused' = [refused EXCEPT ![c] = TRUE]
    /\ Goto(c, "unwind")
    /\ UNCHANGED <<made, chain, lag, held, pos>>

\* Mutant: the abandoned slot runs the body of a caller that was refused.
PassThroughRuns(k) ==
    /\ chain[k] # <<>> /\ k \in gaveUp[Head(chain[k])]
    /\ gaveUp' = [gaveUp EXCEPT ![Head(chain[k])] = @ \ {k}]
    /\ held' = [held EXCEPT ![Head(chain[k])] = @ \cup {k}]
    /\ Goto(Head(chain[k]), "inside")
    /\ UNCHANGED <<made, chain, lag, at, timed, budget, pos, refused, waited>>

\* An abandoned slot comes to the head of its chain and passes through.
PassThrough(k) ==
    /\ chain[k] # <<>> /\ k \in gaveUp[Head(chain[k])]
    /\ gaveUp' = [gaveUp EXCEPT ![Head(chain[k])] = @ \ {k}]
    /\ Settle(k)
    /\ UNCHANGED <<made, pc, held, at, timed, budget, pos, refused, waited>>

\* Everything is held (an empty list needs nothing): the body runs.
Enter(c) ==
    /\ pc[c] = "acquire" /\ Missing(c) = {}
    /\ Kind[c] = "tick" => pos[c] < Len(Ids[c])
    /\ Goto(c, "inside")
    /\ UNCHANGED <<made, chain, lag, held, at, timed, gaveUp, budget, pos, refused, waited>>

\* The body settles, whatever its outcome.
Leave(c) ==
    /\ pc[c] = "inside"
    /\ Goto(c, "unwind")
    /\ UNCHANGED <<made, chain, lag, held, at, timed, gaveUp, budget, pos, refused, waited>>

\* The nested sections end from the innermost (highest) key outwards.
Unwind(c, k) ==
    /\ pc[c] = "unwind" /\ at[c] = 0
    /\ k \in held[c] /\ \A j \in held[c] : j <= k
    /\ Settle(k)
    /\ held' = [held EXCEPT ![c] = @ \ {k}]
    /\ at' = [at EXCEPT ![c] = k]
    /\ UNCHANGED <<made, pc, timed, gaveUp, budget, pos, refused, waited>>

\* The entry is deleted, unless a newer op chained on.
Delete(c, k) == lag' = IF lag[k] = c THEN [lag EXCEPT ![k] = Nobody] ELSE lag

\* run's finally block, before the section around it can go on.
Finally(c) ==
    /\ pc[c] = "unwind" /\ at[c] # 0
    /\ Delete(c, at[c])
    /\ at' = [at EXCEPT ![c] = 0]
    /\ UNCHANGED <<made, chain, pc, held, timed, gaveUp, budget, pos, refused, waited>>

\* The finally block of an abandoned slot: its caller is long gone.
Forget(k) ==
    /\ lag[k] # Nobody /\ at[lag[k]] # k
    /\ Delete(lag[k], k)
    /\ UNCHANGED <<made, chain, pc, held, at, timed, gaveUp, budget, pos, refused, waited>>

\* Mutant: a tick goes on past its last row.
ReturnOnePast(c) ==
    /\ pc[c] = "unwind" /\ at[c] = 0 /\ held[c] = {}
    /\ IF Kind[c] = "tick" /\ pos[c] + 1 <= Len(Ids[c])
       THEN /\ Goto(c, "acquire")
            /\ pos' = [pos EXCEPT ![c] = @ + 1]
            /\ refused' = [refused EXCEPT ![c] = FALSE]
       ELSE /\ Goto(c, IF refused[c] THEN "refused" ELSE "done")
            /\ UNCHANGED <<pos, refused>>
    /\ UNCHANGED <<made, chain, lag, held, at, timed, gaveUp, budget, waited>>

\* The promise of the call settles; a tick defers a refused row and goes on.  (The
\* replicator skips the later rows of a deferred node; here they may ask again.)
Return(c) ==
    /\ pc[c] = "unwind" /\ at[c] = 0 /\ held[c] = {}
    /\ IF Kind[c] = "tick" /\ pos[c] + 1 < Len(Ids[c])
       THEN /\ Goto(c, "acquire")
            /\ pos' = [pos EXCEPT ![c] = @ + 1]
            /\ refused' = [refused EXCEPT ![c] = FALSE]
       ELSE /\ Goto(c, IF refused[c] THEN "refused" ELSE "done")
            /\ UNCHANGED <<pos, refused>>
    /\ UNCHANGED <<made, chain, lag, held, at, timed, gaveUp, budget, waited>>

CallStep(c) ==
    \/ \E k \in Keys : Enqueue(c, k) \/ RefuseAtOnce(c, k) \/ Unwind(c, k)
    \/ \E d \in 0 .. MaxWait : Start(c, d)
    \/ Enter(c) \/ Leave(c) \/ Finally(c) \/ Return(c)

Ended(c) == pc[c] \in {"done", "refused"}

\* All calls have returned and every slot and entry is gone.
AllDone ==
    /\ \A c \in Calls : Ended(c)
    /\ \A k \in Keys : ~IsHeld(k)
    /\ UNCHANGED vars

Next ==
    \/ \E c \in Calls : CallStep(c) \/ Timeout(c)
    \/ \E k \in Keys : PassThrough(k) \/ Forget(k)
    \/ AllDone

Spec == Init /\ [][Next]_vars

\* Microtasks always run and bodies end (runInHold); nothing is assumed of the
\* timers, so no call may depend on one.
Fairness ==
    /\ \A c \in Calls : WF_vars(CallStep(c))
    /\ \A k \in Keys : WF_vars(PassThrough(k)) /\ WF_vars(Forget(k))

FairSpec == Spec /\ Fairness

-----------------------------------------------------------------------------
(* Properties *)

\* The chain, the slots and the nesting implement the lock service: a body runs
\* only while its call owns all it asked for, and not after a refusal.
Owner(k) ==
    IF chain[k] # <<>> /\ k \in held[Head(chain[k])] THEN Head(chain[k]) ELSE Nobody

PhaseOf(c) ==
    CASE pc[c] \in {"acquire", "wait"} -> "asking"
      [] pc[c] = "inside" -> "running"
      [] pc[c] = "unwind" -> "leaving"
      [] OTHER            -> pc[c]

Demand == [c \in Calls |->
              IF Kind[c] = "tick" THEN {{Ids[c][i]} : i \in DOMAIN Ids[c]}
                                  ELSE {Range(Ids[c])}]

Service == INSTANCE LockService WITH
              owner <- [k \in Keys |-> Owner(k)],
              phase <- [c \in Calls |-> PhaseOf(c)],
              Demand <- Demand

Implements == Service!Spec

\* Two calls are never inside the critical section of one key.
Exclusive ==
    \A c, d \in Calls : c # d => held[c] \cap held[d] = {}

\* A call's keys together cost it at most one allowance, and a whole tick at most
\* one, however many of its rows find their node locked.
BoundedWait == \A c \in Calls : Kind[c] # "edge" => waited[c] <= MaxWait

\* A call is refused only because of another call: never by a duplicate id of its
\* own, and never over ids nobody else uses.
RefusedByAnother ==
    \A c \in Calls : refused[c] =>
        \E d \in made \ {c} : Range(Ids[c]) \cap Range(Ids[d]) # {}

\* Every call returns, without a timer having to fire: no circle of calls waits
\* for each other, and an abandoned slot never blocks its chain.
EveryCallReturns == \A c \in Calls : <>Ended(c)

=============================================================================
