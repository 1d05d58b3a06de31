--------------------------- MODULE NodeLocksProofs ---------------------------
(***************************************************************************)
(* Theorems about NodeLocks, for every set of calls, every list of ids and *)
(* every wait allowance.                                                   *)
(***************************************************************************)
EXTENDS NodeLocks, TLAPS

-----------------------------------------------------------------------------
(* The inductive invariant *)

Queued(c, k) == \E i \in 1 .. Len(chain[k]) : chain[k][i] = c

\* A key inside whose section a call is has that call at the head of its chain.
HeldAtHead ==
    \A c \in Calls : \A k \in held[c] : chain[k] # <<>> /\ Head(chain[k]) = c

\* An abandoned slot is still queued, and its caller has no allowance left: it
\* cannot queue on that key a second time.
GaveUpQueued ==
    \A c \in Calls : \A k \in gaveUp[c] :
        /\ k \notin held[c] /\ Queued(c, k)
        /\ budget[c] = 0 /\ Kind[c] # "edge"

\* A waiting call has one live slot, on a key it needs and does not hold.
WaitingQueued ==
    \A c \in Calls : pc[c] = "wait" =>
        /\ at[c] \in Need(c) \ held[c]
        /\ at[c] \notin gaveUp[c]
        /\ Queued(c, at[c])
        /\ timed[c] => Kind[c] # "edge"

\* A call holds nothing beyond what its current body needs, nothing once it ended.
HeldNeeded ==
    \A c \in Calls : held[c] \subseteq IF Ended(c) THEN {} ELSE Need(c)

\* What was waited and what is left make up the allowance.
Charged == \A c \in Calls : waited[c] + budget[c] = MaxWait

IInv == TypeOK /\ HeldAtHead /\ GaveUpQueued /\ WaitingQueued /\ HeldNeeded /\ Charged

-----------------------------------------------------------------------------
(* Facts about chains *)

\* What a call needs are keys.
LEMMA NeedKeys ==
    ASSUME TypeOK, NEW c \in Calls PROVE Need(c) \subseteq Keys
BY LocksAssumption DEF Need, Range, TypeOK

\* Whoever is queued behind the head is still queued when the head settles.
LEMMA TailKeeps ==
    ASSUME NEW s \in Seq(Calls), s # <<>>, NEW c, c # Head(s),
           \E i \in 1 .. Len(s) : s[i] = c
    PROVE  \E i \in 1 .. Len(Tail(s)) : Tail(s)[i] = c
<1>1. PICK i \in 1 .. Len(s) : s[i] = c
  OBVIOUS
<1>2. i # 1 /\ Len(Tail(s)) = Len(s) - 1
  BY <1>1
<1>3. i - 1 \in 1 .. Len(Tail(s)) /\ Tail(s)[i - 1] = c
  BY <1>1, <1>2
<1> QED BY <1>3

\* Queueing removes nobody and queues the caller.
LEMMA AppendKeeps ==
    ASSUME NEW s \in Seq(Calls), NEW d \in Calls
    PROVE  /\ Append(s, d) \in Seq(Calls) /\ Append(s, d) # <<>>
           /\ s # <<>> => Head(Append(s, d)) = Head(s)
           /\ \E i \in 1 .. Len(Append(s, d)) : Append(s, d)[i] = d
           /\ \A c : (\E i \in 1 .. Len(s) : s[i] = c)
                     => \E i \in 1 .. Len(Append(s, d)) : Append(s, d)[i] = c
<1>1. Append(s, d) \in Seq(Calls) /\ Len(Append(s, d)) = Len(s) + 1
  OBVIOUS
<1>2. Append(s, d)[Len(s) + 1] = d /\ \A i \in 1 .. Len(s) : Append(s, d)[i] = s[i]
  OBVIOUS
<1>3. s # <<>> => Head(Append(s, d)) = Head(s)
  BY <1>1, <1>2
<1>4. Len(s) + 1 \in 1 .. Len(Append(s, d))
  BY <1>1
<1> QED BY <1>1, <1>2, <1>3, <1>4

\* Queueing on a key leaves the other chains alone.
LEMMA ChainKeeps ==
    ASSUME TypeOK, NEW c \in Calls, NEW k \in Keys, Chain(c, k)
    PROVE  /\ chain' \in [Keys -> Seq(Calls)] /\ lag' \in [Keys -> Calls \cup {Nobody}]
           /\ chain'[k] = Append(chain[k], c)
           /\ \A j \in Keys : j # k => chain'[j] = chain[j]
           /\ Queued(c, k)'
           /\ \A d \in Calls, j \in Keys : Queued(d, j) => Queued(d, j)'
<1>1. /\ chain' \in [Keys -> Seq(Calls)] /\ lag' \in [Keys -> Calls \cup {Nobody}]
      /\ chain'[k] = Append(chain[k], c)
      /\ \A j \in Keys : j # k => chain'[j] = chain[j]
  BY AppendKeeps DEF TypeOK, Chain
<1>2. chain[k] \in Seq(Calls)
  BY DEF TypeOK
<1>3. Queued(c, k)'
  <2>1. \E i \in 1 .. Len(Append(chain[k], c)) : Append(chain[k], c)[i] = c
    BY <1>2, AppendKeeps
  <2> QED BY <2>1, <1>1, Zenon DEF Queued
<1>4. ASSUME NEW d \in Calls, NEW j \in Keys, Queued(d, j) PROVE Queued(d, j)'
  <2>1. CASE j = k
    <3>1. \E i \in 1 .. Len(chain[k]) : chain[k][i] = d
      BY <2>1, <1>4, Zenon DEF Queued
    <3>2. \E i \in 1 .. Len(Append(chain[k], c)) : Append(chain[k], c)[i] = d
      BY <3>1, <1>2, AppendKeeps
    <3> QED BY <3>2, <2>1, <1>1, Zenon DEF Queued
  <2>2. CASE j # k
    BY <2>2, <1>1, <1>4 DEF Queued
  <2> QED BY <2>1, <2>2
<1> QED BY <1>1, <1>3, <1>4

\* A settled op leaves the other chains, and the rest of its own, alone.
LEMMA SettleKeeps ==
    ASSUME TypeOK, NEW k \in Keys, chain[k] # <<>>, Settle(k)
    PROVE  /\ chain' \in [Keys -> Seq(Calls)] /\ lag' \in [Keys -> Calls \cup {Nobody}]
           /\ chain'[k] = Tail(chain[k])
           /\ \A j \in Keys : j # k => chain'[j] = chain[j]
           /\ \A d \in Calls, j \in Keys :
                 Queued(d, j) /\ (d # Head(chain[k]) \/ j # k) => Queued(d, j)'
<1>1. chain[k] \in Seq(Calls) /\ Head(chain[k]) \in Calls /\ Tail(chain[k]) \in Seq(Calls)
  BY DEF TypeOK
<1>2. /\ chain' \in [Keys -> Seq(Calls)] /\ chain'[k] = Tail(chain[k])
      /\ \A j \in Keys : j # k => chain'[j] = chain[j]
  BY <1>1 DEF TypeOK, Settle
<1>3. lag' \in [Keys -> Calls \cup {Nobody}]
  BY <1>1 DEF TypeOK, Settle
<1>4. ASSUME NEW d \in Calls, NEW j \in Keys, Queued(d, j),
             d # Head(chain[k]) \/ j # k
      PROVE  Queued(d, j)'
  <2>1. CASE j = k
    <3>1. \E i \in 1 .. Len(chain[k]) : chain[k][i] = d
      BY <2>1, <1>4 DEF Queued
    <3>2. \E i \in 1 .. Len(Tail(chain[k])) : Tail(chain[k])[i] = d
      BY <2>1, <3>1, <1>1, <1>4, TailKeeps
    <3> QED BY <3>2, <2>1, <1>2, Zenon DEF Queued
  <2>2. CASE j # k
    BY <2>2, <1>2, <1>4 DEF Queued
  <2> QED BY <2>1, <2>2
<1> QED BY <1>2, <1>3, <1>4

-----------------------------------------------------------------------------
(* Every step keeps the invariant *)

\* The daemon starts in it.
LEMMA InitIInv == Init => IInv
<1> SUFFICES ASSUME Init PROVE IInv
  OBVIOUS
<1> USE LocksAssumption
<1>1. TypeOK
  BY DEF Init, TypeOK, PCs
<1>2. HeldAtHead /\ GaveUpQueued /\ HeldNeeded /\ Charged
  BY DEF Init, HeldAtHead, GaveUpQueued, HeldNeeded, Charged
<1>3. WaitingQueued
  BY DEF Init, WaitingQueued
<1> QED BY <1>1, <1>2, <1>3 DEF IInv

\* Queueing: the key is not one the call gave up on, for that one would still be
\* held and the allowance spent.
LEMMA EnqueueIInv ==
    ASSUME IInv, NEW c \in Calls, NEW k \in Keys, Enqueue(c, k) PROVE IInv'
<1> USE LocksAssumption DEF IInv
<1>1. Queued(c, k)' /\ \A d \in Calls, j \in Keys : Queued(d, j) => Queued(d, j)'
  BY ChainKeeps DEF Enqueue
<1>2. k \notin gaveUp[c]
  <2> SUFFICES ASSUME k \in gaveUp[c] PROVE FALSE
    OBVIOUS
  <2>1. chain[k] # <<>> /\ budget[c] = 0 /\ Kind[c] # "edge"
    BY DEF GaveUpQueued, Queued, TypeOK
  <2> QED BY <2>1 DEF Enqueue, IsHeld
<1>3. \A d \in Calls : Need(d)' = Need(d)
  BY DEF Enqueue, Need
<1>4. TypeOK'
  BY AppendKeeps DEF TypeOK, Enqueue, Chain, Goto, PCs
<1>5. HeldAtHead'
  <2>1. ASSUME NEW d \in Calls, NEW j \in held[d]
        PROVE  chain'[j] # <<>> /\ Head(chain'[j]) = d
    <3>1. j \in Keys /\ chain[j] \in Seq(Calls) /\ chain[j] # <<>> /\ Head(chain[j]) = d
      BY DEF TypeOK, HeldAtHead
    <3>2. CASE j = k
      <4>1. chain'[k] = Append(chain[k], c)
        BY ChainKeeps DEF Enqueue
      <4>2. Append(chain[k], c) # <<>> /\ Head(Append(chain[k], c)) = Head(chain[k])
        BY <3>1, <3>2, AppendKeeps
      <4> QED BY <4>1, <4>2, <3>1, <3>2
    <3>3. CASE j # k
      BY <3>1, <3>3, ChainKeeps DEF Enqueue
    <3> QED BY <3>2, <3>3
  <2> QED BY <2>1 DEF Enqueue, HeldAtHead
<1>6. GaveUpQueued'
  BY <1>1 DEF TypeOK, Enqueue, GaveUpQueued
<1>7. WaitingQueued'
  <2> SUFFICES ASSUME NEW d \in Calls, pc'[d] = "wait"
               PROVE  /\ at'[d] \in Need(d) \ held[d] /\ at'[d] \notin gaveUp[d]
                      /\ Queued(d, at[d])' /\ (timed'[d] => Kind[d] # "edge")
    BY <1>3 DEF WaitingQueued, Enqueue
  <2>1. CASE d = c
    BY <2>1, <1>1, <1>2 DEF TypeOK, Enqueue, IsNext, Missing
  <2>2. CASE d # c
    BY <2>2, <1>1, NeedKeys DEF TypeOK, Enqueue, Goto, WaitingQueued
  <2> QED BY <2>1, <2>2
<1>8. HeldNeeded'
  BY <1>3 DEF TypeOK, Enqueue, Goto, HeldNeeded, Ended
<1>9. Charged'
  BY DEF Enqueue, Charged
<1> QED BY <1>4, <1>5, <1>6, <1>7, <1>8, <1>9

\* Coming to the head of the chain: the key was nobody's.
LEMMA StartIInv ==
    ASSUME IInv, NEW c \in Calls, NEW d \in 0 .. MaxWait, Start(c, d) PROVE IInv'
<1> USE LocksAssumption DEF IInv
<1> DEFINE k == at[c]
<1>1. k \in Need(c) \ held[c] /\ k \in Keys /\ k \notin gaveUp[c]
  BY NeedKeys DEF Start, WaitingQueued
<1>2. \A e \in Calls, j \in Keys : Queued(e, j)' = Queued(e, j)
  BY DEF Start, Queued
<1>3. \A e \in Calls : Need(e)' = Need(e)
  BY DEF Start, Need
<1>4. d <= budget[c] /\ budget[c] \in Nat
  BY DEF Start, TypeOK
<1>5. TypeOK'
  BY <1>1, <1>4 DEF TypeOK, Start, Goto, PCs
<1>6. HeldAtHead'
  BY <1>1 DEF TypeOK, Start, HeldAtHead
<1>7. GaveUpQueued'
  <2> SUFFICES ASSUME NEW e \in Calls, NEW j \in gaveUp[e]
               PROVE  /\ j \notin held'[e] /\ Queued(e, j)
                      /\ budget'[e] = 0 /\ Kind[e] # "edge"
    BY <1>2 DEF GaveUpQueued, Start, TypeOK
  <2>1. j \notin held[e] /\ Queued(e, j) /\ budget[e] = 0 /\ Kind[e] # "edge"
    BY DEF GaveUpQueued
  <2>2. budget'[e] = 0
    BY <2>1, <1>4 DEF TypeOK, Start
  <2> QED BY <2>1, <2>2, <1>1 DEF TypeOK, Start
<1>8. WaitingQueued'
  BY <1>2, <1>3, NeedKeys DEF TypeOK, Start, Goto, WaitingQueued
<1>9. HeldNeeded'
  BY <1>1, <1>3 DEF TypeOK, Start, Goto, HeldNeeded, Ended
<1>10. Charged'
  BY <1>4 DEF TypeOK, Start, Charged
<1> QED BY <1>5, <1>6, <1>7, <1>8, <1>9, <1>10

\* Giving up: the slot stays queued and the allowance is spent.
LEMMA TimeoutIInv ==
    ASSUME IInv, NEW c \in Calls, Timeout(c) PROVE IInv'
<1> USE LocksAssumption DEF IInv
<1>1. /\ at[c] \in Keys /\ at[c] \notin held[c]
      /\ Queued(c, at[c]) /\ Kind[c] # "edge"
  BY NeedKeys DEF Timeout, WaitingQueued
<1>2. \A e \in Calls, j \in Keys : Queued(e, j)' = Queued(e, j)
  BY DEF Timeout, Queued
<1>3. \A e \in Calls : Need(e)' = Need(e)
  BY DEF Timeout, Need
<1>4. TypeOK'
  BY <1>1 DEF TypeOK, Timeout, Goto, PCs
<1>5. HeldAtHead'
  BY DEF Timeout, HeldAtHead
<1>6. GaveUpQueued'
  BY <1>1, <1>2 DEF TypeOK, Timeout, GaveUpQueued
<1>7. WaitingQueued'
  BY <1>2, <1>3, NeedKeys DEF TypeOK, Timeout, Goto, WaitingQueued
<1>8. HeldNeeded'
  BY <1>3 DEF TypeOK, Timeout, Goto, HeldNeeded, Ended
<1>9. Charged'
  BY DEF TypeOK, Timeout, Charged
<1> QED BY <1>4, <1>5, <1>6, <1>7, <1>8, <1>9

\* An abandoned slot passes through: nobody was inside that key's section.
LEMMA PassThroughIInv ==
    ASSUME IInv, NEW k \in Keys, PassThrough(k) PROVE IInv'
<1> USE LocksAssumption DEF IInv
<1> DEFINE c == Head(chain[k])
<1>1. chain[k] \in Seq(Calls) /\ chain[k] # <<>> /\ c \in Calls
  BY DEF TypeOK, PassThrough
<1>2. k \in gaveUp[c] /\ \A d \in Calls : k \notin held[d]
  BY <1>1 DEF PassThrough, GaveUpQueued, HeldAtHead
<1>3. \A e \in Calls, j \in Keys :
         Queued(e, j) /\ (e # c \/ j # k) => Queued(e, j)'
  BY <1>1, SettleKeeps DEF PassThrough
<1>4. \A e \in Calls : Need(e)' = Need(e)
  BY DEF PassThrough, Need
<1>5. TypeOK'
  BY <1>1, SettleKeeps DEF TypeOK, PassThrough
<1>6. HeldAtHead'
  BY <1>2 DEF TypeOK, PassThrough, Settle, HeldAtHead
<1>7. GaveUpQueued'
  <2> HIDE DEF c
  <2>1. gaveUp' = [gaveUp EXCEPT ![c] = @ \ {k}] /\ UNCHANGED <<held, budget>>
    BY DEF PassThrough, c
  <2> QED BY <1>1, <1>3, <2>1 DEF TypeOK, GaveUpQueued
<1>8. WaitingQueued'
  <2> HIDE DEF c
  <2>1. gaveUp' = [gaveUp EXCEPT ![c] = @ \ {k}] /\ UNCHANGED <<held, pc, at, timed>>
    BY DEF PassThrough, c
  <2>2. ASSUME NEW d \in Calls, pc[d] = "wait"
        PROVE  at[d] \notin gaveUp'[d] /\ Queued(d, at[d])'
    <3>1. at[d] \in Keys /\ at[d] \notin gaveUp[d] /\ Queued(d, at[d])
      BY <2>2, NeedKeys DEF WaitingQueued
    <3>2. at[d] \notin gaveUp'[d]
      BY <3>1, <2>1, <1>1 DEF TypeOK
    <3>3. (d # c \/ at[d] # k) /\ at' = at
      BY <3>1, <1>2, <2>1
    <3>4. Queued(d, at[d])'
      BY <3>1, <3>3, <1>3 DEF Queued
    <3> QED BY <3>2, <3>4
  <2> QED BY <1>4, <2>1, <2>2 DEF WaitingQueued
<1>9. HeldNeeded' /\ Charged'
  BY <1>4 DEF PassThrough, HeldNeeded, Ended, Charged
<1> QED BY <1>5, <1>6, <1>7, <1>8, <1>9

\* Leaving a section: the next op of that chain belongs to nobody inside it.
LEMMA UnwindIInv ==
    ASSUME IInv, NEW c \in Calls, NEW k \in Keys, Unwind(c, k) PROVE IInv'
<1> USE LocksAssumption DEF IInv
<1>1. chain[k] \in Seq(Calls) /\ chain[k] # <<>> /\ c = Head(chain[k])
  BY DEF TypeOK, Unwind, HeldAtHead
<1>2. \A d \in Calls : d # c => k \notin held[d]
  BY <1>1 DEF HeldAtHead
<1>3. \A e \in Calls, j \in Keys :
         Queued(e, j) /\ (e # c \/ j # k) => Queued(e, j)'
  BY <1>1, SettleKeeps DEF Unwind
<1>4. \A e \in Calls : Need(e)' = Need(e)
  BY DEF Unwind, Need
<1>5. k \notin gaveUp[c] /\ pc[c] # "wait"
  BY DEF Unwind, GaveUpQueued
<1>6. TypeOK'
  BY <1>1, SettleKeeps DEF TypeOK, Unwind
<1>7. HeldAtHead'
  BY <1>2 DEF TypeOK, Unwind, Settle, HeldAtHead
<1>8. GaveUpQueued'
  BY <1>3, <1>5 DEF TypeOK, Unwind, GaveUpQueued
<1>9. WaitingQueued'
  BY <1>3, <1>4, <1>5, NeedKeys DEF TypeOK, Unwind, WaitingQueued
<1>10. HeldNeeded' /\ Charged'
  BY <1>4 DEF TypeOK, Unwind, HeldNeeded, Ended, Charged
<1> QED BY <1>6, <1>7, <1>8, <1>9, <1>10

\* Returning, or going on with the next row, with nothing held.
LEMMA ReturnIInv ==
    ASSUME IInv, NEW c \in Calls, Return(c) PROVE IInv'
<1> USE LocksAssumption DEF IInv
<1>1. \A e \in Calls, j \in Keys : Queued(e, j)' = Queued(e, j)
  BY DEF Return, Queued
<1>2. /\ held[c] = {} /\ UNCHANGED <<made, chain, lag, held, at, timed, gaveUp, budget, waited>>
      /\ \E p \in {"acquire", "done", "refused"} : pc' = [pc EXCEPT ![c] = p]
      /\ \/ UNCHANGED <<pos, refused>>
         \/ /\ pos[c] + 1 < Len(Ids[c])
            /\ pos' = [pos EXCEPT ![c] = @ + 1]
            /\ refused' = [refused EXCEPT ![c] = FALSE]
  BY DEF Return, Goto
<1>a. pos' \in [Calls -> Nat] /\ \A e \in Calls : e # c => pos'[e] = pos[e]
  <2>1. CASE UNCHANGED <<pos, refused>>
    BY <2>1 DEF TypeOK
  <2>2. CASE pos' = [pos EXCEPT ![c] = @ + 1]
    BY <2>2 DEF TypeOK
  <2> QED BY <1>2, <2>1, <2>2
<1>b. refused' \in [Calls -> BOOLEAN]
  <2>1. CASE UNCHANGED <<pos, refused>>
    BY <2>1 DEF TypeOK
  <2>2. CASE refused' = [refused EXCEPT ![c] = FALSE]
    BY <2>2 DEF TypeOK
  <2> QED BY <1>2, <2>1, <2>2
<1>3. \A e \in Calls : e # c => Need(e)' = Need(e)
  BY <1>a DEF Need
<1>4. TypeOK'
  <2>1. pc' \in [Calls -> PCs]
    BY <1>2 DEF TypeOK, PCs
  <2>3. \A e \in Calls : pos'[e] = 0 \/ pos'[e] < Len(Ids[e])
    BY <1>2 DEF TypeOK
  <2> QED BY <1>2, <1>a, <1>b, <2>1, <2>3 DEF TypeOK
<1>5. HeldAtHead' /\ Charged'
  BY <1>2 DEF HeldAtHead, Charged
<1>6. GaveUpQueued'
  BY <1>1, <1>2 DEF TypeOK, GaveUpQueued
<1>7. WaitingQueued'
  <2>1. ASSUME NEW d \in Calls, pc'[d] = "wait" PROVE d # c /\ pc[d] = "wait"
    BY <2>1, <1>2 DEF TypeOK
  <2>2. ASSUME NEW d \in Calls, pc'[d] = "wait" PROVE Queued(d, at[d])'
    <3>1. at[d] \in Keys /\ Queued(d, at[d]) /\ at' = at /\ chain' = chain
      BY <2>1, <2>2, <1>2, NeedKeys DEF WaitingQueued
    <3> QED BY <3>1 DEF Queued
  <2> QED BY <1>2, <1>3, <2>1, <2>2 DEF WaitingQueued
<1>8. HeldNeeded'
  BY <1>2, <1>3 DEF TypeOK, HeldNeeded, Ended
<1> QED BY <1>4, <1>5, <1>6, <1>7, <1>8

\* The steps that take and leave no key.
LEMMA QuietIInv ==
    ASSUME IInv,
           \/ \E c \in Calls : \/ \E k \in Keys : RefuseAtOnce(c, k)
                               \/ Enter(c) \/ Leave(c) \/ Finally(c)
           \/ \E k \in Keys : Forget(k)
    PROVE  IInv'
<1> USE LocksAssumption DEF IInv
<1>1. /\ UNCHANGED <<made, chain, held, gaveUp, budget, pos, waited>>
      /\ lag' \in [Keys -> Calls \cup {Nobody}]
      /\ pc' \in [Calls -> PCs] /\ refused' \in [Calls -> BOOLEAN]
      /\ at' \in [Calls -> Keys \cup {0}] /\ timed' = timed
      /\ \A d \in Calls : pc'[d] = "wait" => pc[d] = "wait" /\ at'[d] = at[d]
      /\ \A d \in Calls : Ended(d)' => Ended(d)
  <2>1. ASSUME NEW c \in Calls, NEW k \in Keys, RefuseAtOnce(c, k) PROVE <1>1!:
    BY <2>1 DEF TypeOK, RefuseAtOnce, Goto, PCs, Ended
  <2>2. ASSUME NEW c \in Calls, Enter(c) PROVE <1>1!:
    BY <2>2 DEF TypeOK, Enter, Goto, PCs, Ended
  <2>5. ASSUME NEW c \in Calls, Leave(c) PROVE <1>1!:
    BY <2>5 DEF TypeOK, Leave, Goto, PCs, Ended
  <2>3. ASSUME NEW c \in Calls, Finally(c) PROVE <1>1!:
    BY <2>3 DEF TypeOK, Finally, Delete, Ended
  <2>4. ASSUME NEW k \in Keys, Forget(k) PROVE <1>1!:
    BY <2>4 DEF TypeOK, Forget, Delete, Ended
  <2> QED BY <2>1, <2>2, <2>3, <2>4, <2>5
<1>2. \A e \in Calls, j \in Keys : Queued(e, j)' = Queued(e, j)
  BY <1>1 DEF Queued
<1>3. \A e \in Calls : Need(e)' = Need(e)
  BY <1>1 DEF Need
<1>4. TypeOK'
  BY <1>1 DEF TypeOK
<1>5. HeldAtHead' /\ GaveUpQueued' /\ Charged'
  BY <1>1, <1>2 DEF TypeOK, HeldAtHead, GaveUpQueued, Charged
<1>6. WaitingQueued'
  BY <1>1, <1>2, <1>3, NeedKeys DEF WaitingQueued
<1>7. HeldNeeded'
  BY <1>1, <1>3 DEF HeldNeeded
<1> QED BY <1>4, <1>5, <1>6, <1>7

\* One case per action.
LEMMA NextIInv == IInv /\ [Next]_vars => IInv'
<1> SUFFICES ASSUME IInv, [Next]_vars PROVE IInv'
  OBVIOUS
<1>1. CASE UNCHANGED vars
  BY <1>1 DEF vars, IInv, TypeOK, HeldAtHead, GaveUpQueued, WaitingQueued,
              HeldNeeded, Charged, Queued, Need, Ended
<1>2. CASE AllDone
  BY <1>1, <1>2 DEF AllDone
<1>3. ASSUME NEW c \in Calls, CallStep(c) PROVE IInv'
  BY <1>3, EnqueueIInv, UnwindIInv, StartIInv, ReturnIInv, QuietIInv DEF CallStep
<1>4. ASSUME NEW c \in Calls, Timeout(c) PROVE IInv'
  BY <1>4, TimeoutIInv
<1>5. ASSUME NEW k \in Keys, PassThrough(k) PROVE IInv'
  BY <1>5, PassThroughIInv
<1>6. ASSUME NEW k \in Keys, Forget(k) PROVE IInv'
  BY <1>6, QuietIInv
<1> QED BY <1>1, <1>2, <1>3, <1>4, <1>5, <1>6 DEF Next

-----------------------------------------------------------------------------
(* The theorems *)

\* The invariant holds throughout.
LEMMA Invariance == Spec => []IInv
<1>1. Init => IInv
  BY InitIInv
<1>2. IInv /\ [Next]_vars => IInv'
  BY NextIInv
<1> QED BY <1>1, <1>2, PTL DEF Spec

\* The variables keep their types, the position of a tick within its rows.
THEOREM LocksTypeCorrect == Spec => []TypeOK
<1>1. IInv => TypeOK
  BY DEF IInv
<1> QED BY <1>1, Invariance, PTL

\* Whatever calls are made on whatever ids, no two are ever inside the critical
\* section of the same key: not when waits are abandoned, nor when several keys
\* are taken together.
THEOREM MutualExclusion == Spec => []Exclusive
<1>1. IInv => Exclusive
  BY DEF IInv, HeldAtHead, Exclusive, TypeOK
<1> QED BY <1>1, Invariance, PTL

\* withNodeLocks waits at most one allowance for all its keys, and a replicator
\* tick at most one for all its rows.
THEOREM WaitsBounded == Spec => []BoundedWait
<1>1. IInv => BoundedWait
  BY LocksAssumption DEF IInv, TypeOK, Charged, BoundedWait
<1> QED BY <1>1, Invariance, PTL

-----------------------------------------------------------------------------
(* The chains implement the lock service *)

OwnerMap == [k \in Keys |-> Owner(k)]
PhaseMap == [c \in Calls |-> PhaseOf(c)]

\* The service's owner of a key is the call inside its critical section, if any.
OwnerIsInside ==
    \A k \in Keys :
        /\ OwnerMap[k] \in Calls \cup {Nobody}
        /\ \A c \in Calls : (OwnerMap[k] = c) <=> (k \in held[c])

\* It follows from the invariant.
LEMMA OwnersInside == IInv => OwnerIsInside
<1> SUFFICES ASSUME IInv, NEW k \in Keys
             PROVE  /\ Owner(k) \in Calls \cup {Nobody}
                    /\ \A c \in Calls : (Owner(k) = c) <=> (k \in held[c])
  BY DEF OwnerIsInside, OwnerMap
<1>1. chain[k] \in Seq(Calls)
  BY DEF IInv, TypeOK
<1>2. CASE chain[k] # <<>> /\ k \in held[Head(chain[k])]
  BY <1>1, <1>2, LocksAssumption DEF Owner, IInv, HeldAtHead
<1>3. CASE ~(chain[k] # <<>> /\ k \in held[Head(chain[k])])
  BY <1>1, <1>3, LocksAssumption DEF Owner, IInv, HeldAtHead
<1> QED BY <1>2, <1>3

\* What a step does to the owners, from what it does to the sections.
LEMMA OwnerSteps ==
    ASSUME OwnerIsInside, OwnerIsInside', held \in [Calls -> SUBSET Keys]
    PROVE  /\ held' = held => OwnerMap' = OwnerMap
           /\ \A c \in Calls, k \in Keys :
                 held' = [held EXCEPT ![c] = @ \cup {k}] /\ OwnerMap[k] \in {c, Nobody}
                    => OwnerMap' = [OwnerMap EXCEPT ![k] = c]
           /\ \A c \in Calls, k \in Keys :
                 held' = [held EXCEPT ![c] = @ \ {k}] /\ k \in held[c]
                    => OwnerMap' = [OwnerMap EXCEPT ![k] = Nobody]
<1> USE LocksAssumption
<1>1. DOMAIN OwnerMap = Keys /\ DOMAIN OwnerMap' = Keys /\ OwnerMap = [k \in Keys |-> OwnerMap[k]]
      /\ OwnerMap' = [k \in Keys |-> OwnerMap'[k]]
  BY DEF OwnerMap
<1>2. held' = held => \A j \in Keys : OwnerMap'[j] = OwnerMap[j]
  BY DEF OwnerIsInside
<1>3. ASSUME NEW c \in Calls, NEW k \in Keys, held' = [held EXCEPT ![c] = @ \cup {k}],
             OwnerMap[k] \in {c, Nobody}
      PROVE  OwnerMap' = [OwnerMap EXCEPT ![k] = c]
  <2>1. OwnerMap'[k] = c
    BY <1>3 DEF OwnerIsInside
  <2>2. ASSUME NEW j \in Keys, j # k PROVE OwnerMap'[j] = OwnerMap[j]
    <3>1. \A d \in Calls : (j \in held'[d]) <=> (j \in held[d])
      BY <1>3, <2>2
    <3> QED BY <3>1 DEF OwnerIsInside
  <2> HIDE DEF OwnerMap
  <2> QED BY <2>1, <2>2, <1>1
<1>4. ASSUME NEW c \in Calls, NEW k \in Keys, held' = [held EXCEPT ![c] = @ \ {k}], k \in held[c]
      PROVE  OwnerMap' = [OwnerMap EXCEPT ![k] = Nobody]
  <2>1. OwnerMap[k] = c /\ \A d \in Calls : d # c => k \notin held[d]
    BY <1>4 DEF OwnerIsInside
  <2>2. \A d \in Calls : k \notin held'[d]
    BY <1>4, <2>1
  <2>3. OwnerMap'[k] = Nobody
    BY <2>2 DEF OwnerIsInside
  <2>4. ASSUME NEW j \in Keys, j # k PROVE OwnerMap'[j] = OwnerMap[j]
    <3>1. \A d \in Calls : (j \in held'[d]) <=> (j \in held[d])
      BY <1>4, <2>4
    <3> QED BY <3>1 DEF OwnerIsInside
  <2> HIDE DEF OwnerMap
  <2> QED BY <2>3, <2>4, <1>1
<1> QED BY <1>1, <1>2, <1>3, <1>4

\* The keys the service says a call owns are those inside whose section it is.
LEMMA OwnedHeld ==
    ASSUME IInv, NEW c \in Calls
    PROVE  Service!Owned(c) = held[c]
BY OwnersInside DEF Service!Owned, OwnerIsInside, OwnerMap, IInv, TypeOK

\* Every step of the chains is a step of the service, or invisible to it.
LEMMA StepImplements ==
    IInv /\ IInv' /\ [Next]_vars => [Service!Next]_(Service!vars)
<1> SUFFICES ASSUME IInv, IInv', [Next]_vars
             PROVE  Service!Next \/ UNCHANGED <<OwnerMap, PhaseMap>>
  BY DEF Service!vars, OwnerMap, PhaseMap
<1> USE LocksAssumption
<1>0. OwnerIsInside /\ OwnerIsInside'
  BY OwnersInside, PTL
<1>t. /\ pc \in [Calls -> PCs] /\ held \in [Calls -> SUBSET Keys]
  BY DEF IInv, TypeOK
<1>h. held' = held => OwnerMap' = OwnerMap
  BY <1>0, <1>t, OwnerSteps
<1>q. /\ UNCHANGED <<held, pc>> => UNCHANGED <<OwnerMap, PhaseMap>>
  BY <1>h DEF PhaseMap, PhaseOf
<1> DEFINE Ph(c, from, to) == PhaseMap[c] = from /\ PhaseMap' = [PhaseMap EXCEPT ![c] = to]
<1>1. CASE UNCHANGED vars
  BY <1>1, <1>q DEF vars
<1>2. CASE AllDone
  BY <1>2, <1>q DEF AllDone, vars
<1>3. ASSUME NEW c \in Calls, NEW k \in Keys, Enqueue(c, k)
      PROVE  UNCHANGED <<OwnerMap, PhaseMap>>
  <2>1. held' = held /\ pc[c] = "acquire" /\ pc' = [pc EXCEPT ![c] = "wait"]
    BY <1>3 DEF Enqueue, Goto
  <2>2. PhaseMap' = PhaseMap
    BY <2>1, <1>t DEF PhaseMap, PhaseOf
  <2> QED BY <2>1, <2>2, <1>h
<1>4. ASSUME NEW c \in Calls, held' = held, pc[c] \in {"acquire", "wait"},
             pc' = [pc EXCEPT ![c] = "unwind"]
      PROVE  Service!GiveUp(c)
  <2>1. Ph(c, "asking", "leaving")
    BY <1>4, <1>t DEF PhaseMap, PhaseOf
  <2> QED BY <2>1, <1>4, <1>h DEF Service!GiveUp, Service!To, OwnerMap, PhaseMap
<1>5. ASSUME NEW c \in Calls, NEW d \in 0 .. MaxWait, Start(c, d)
      PROVE  Service!Grant(c, at[c]) /\ at[c] \in Keys
  <2>1. at[c] \in Keys /\ at[c] \notin held[c]
    BY <1>5, NeedKeys DEF Start, IInv, WaitingQueued
  <2>2. \A e \in Calls : at[c] \notin held[e]
    BY <2>1, <1>5 DEF Start, IInv, HeldAtHead
  <2>3. OwnerMap[at[c]] = Nobody
    BY <2>1, <2>2, <1>0 DEF OwnerIsInside
  <2>4. OwnerMap' = [OwnerMap EXCEPT ![at[c]] = c]
    BY <2>1, <2>3, <1>0, <1>t, <1>5, OwnerSteps DEF Start
  <2>5. PhaseMap[c] = "asking" /\ PhaseMap' = PhaseMap
    BY <1>5, <1>t DEF PhaseMap, PhaseOf, Start, Goto
  <2> QED BY <2>1, <2>3, <2>4, <2>5 DEF Service!Grant, OwnerMap, PhaseMap
<1>6. ASSUME NEW c \in Calls, Enter(c) PROVE Service!Run(c)
  <2>1. OwnerMap' = OwnerMap
    BY <1>6, <1>h DEF Enter
  <2>2. Ph(c, "asking", "running")
    BY <1>6, <1>t DEF PhaseMap, PhaseOf, Enter, Goto
  <2>3. held[c] = Need(c)
    BY <1>6 DEF Enter, Missing, IInv, HeldNeeded, Ended
  <2>4. Need(c) \in Demand[c]
    <3>1. CASE Kind[c] = "tick"
      <4>1. pos[c] < Len(Ids[c]) /\ pos[c] \in Nat /\ Ids[c] \in Seq(Keys)
        BY <3>1, <1>6 DEF Enter, IInv, TypeOK
      <4>2. pos[c] + 1 \in DOMAIN Ids[c] /\ Need(c) = {Ids[c][pos[c] + 1]}
        BY <3>1, <4>1 DEF Need
      <4> QED BY <3>1, <4>2 DEF Demand
    <3>2. CASE Kind[c] # "tick"
      BY <3>2 DEF Need, Demand
    <3> QED BY <3>1, <3>2
  <2>5. Service!Owned(c) = held[c]
    BY OwnedHeld
  <2> QED BY <2>1, <2>2, <2>3, <2>4, <2>5
          DEF Service!Run, Service!To, OwnerMap, PhaseMap
<1>7. ASSUME NEW c \in Calls, Leave(c) PROVE Service!Leave(c)
  <2>1. OwnerMap' = OwnerMap
    BY <1>7, <1>h DEF Leave
  <2>2. Ph(c, "running", "leaving")
    BY <1>7, <1>t DEF PhaseMap, PhaseOf, Leave, Goto
  <2> QED BY <2>1, <2>2 DEF Service!Leave, Service!To, OwnerMap, PhaseMap
<1>8. ASSUME NEW c \in Calls, NEW k \in Keys, Unwind(c, k) PROVE Service!Release(c, k)
  <2>1. OwnerMap[k] = c
    BY <1>8, <1>0 DEF Unwind, OwnerIsInside
  <2>2. OwnerMap' = [OwnerMap EXCEPT ![k] = Nobody]
    BY <1>8, <1>0, <1>t, OwnerSteps DEF Unwind
  <2>3. PhaseMap[c] = "leaving" /\ PhaseMap' = PhaseMap
    BY <1>8, <1>t DEF PhaseMap, PhaseOf, Unwind
  <2> QED BY <2>1, <2>2, <2>3 DEF Service!Release, OwnerMap, PhaseMap
<1>9. ASSUME NEW c \in Calls, Return(c)
      PROVE  \E to \in {"asking", "done", "refused"} : Service!Return(c, to)
  <2>1. OwnerMap' = OwnerMap /\ Service!Owned(c) = {}
    BY <1>9, <1>h, OwnedHeld DEF Return
  <2>2. PICK p \in {"acquire", "done", "refused"} : pc' = [pc EXCEPT ![c] = p]
    BY <1>9 DEF Return, Goto
  <2>3. \E to \in {"asking", "done", "refused"} : Ph(c, "leaving", to)
    <3>1. PhaseMap[c] = "leaving"
      BY <1>9 DEF Return, PhaseMap, PhaseOf
    <3>2. CASE p = "acquire"
      BY <3>1, <3>2, <2>2, <1>t DEF PhaseMap, PhaseOf
    <3>3. CASE p # "acquire"
      BY <3>1, <3>3, <2>2, <1>t DEF PhaseMap, PhaseOf
    <3> QED BY <3>2, <3>3
  <2> QED BY <2>1, <2>3 DEF Service!Return, Service!To, OwnerMap, PhaseMap
<1>10. ASSUME NEW c \in Calls, CallStep(c) \/ Timeout(c)
       PROVE  Service!Next \/ UNCHANGED <<OwnerMap, PhaseMap>>
  <2>1. CASE \E k \in Keys : Enqueue(c, k)
    BY <2>1, <1>3
  <2>2. CASE \E k \in Keys : RefuseAtOnce(c, k)
    BY <2>2, <1>4 DEF RefuseAtOnce, Goto, Service!Next
  <2>3. CASE Timeout(c)
    BY <2>3, <1>4 DEF Timeout, Goto, Service!Next
  <2>4. CASE \E d \in 0 .. MaxWait : Start(c, d)
    BY <2>4, <1>5 DEF Service!Next
  <2>5. CASE \E k \in Keys : Unwind(c, k)
    BY <2>5, <1>8 DEF Service!Next
  <2>6. CASE Enter(c)
    BY <2>6, <1>6 DEF Service!Next
  <2>7. CASE Leave(c)
    BY <2>7, <1>7 DEF Service!Next
  <2>8. CASE Finally(c)
    BY <2>8, <1>q DEF Finally
  <2>9. CASE Return(c)
    BY <2>9, <1>9 DEF Service!Next
  <2> QED BY <1>10, <2>1, <2>2, <2>3, <2>4, <2>5, <2>6, <2>7, <2>8, <2>9 DEF CallStep
<1>11. ASSUME NEW k \in Keys, PassThrough(k) \/ Forget(k)
       PROVE  UNCHANGED <<OwnerMap, PhaseMap>>
  BY <1>11, <1>q DEF PassThrough, Forget
<1> QED BY <1>1, <1>2, <1>10, <1>11 DEF Next

\* The chains, the abandoned slots and the nesting implement the lock service.
THEOREM LocksImplementService == Spec => Implements
<1>1. Init => Service!Init
  <2> SUFFICES ASSUME Init PROVE Service!Init
    OBVIOUS
  <2>1. \A k \in Keys : Owner(k) = Nobody
    BY DEF Init, Owner
  <2>2. \A c \in Calls : PhaseOf(c) \in {"asking", "done"}
    BY DEF Init, PhaseOf
  <2> QED BY <2>1, <2>2 DEF Service!Init
<1>2. IInv /\ IInv' /\ [Next]_vars => [Service!Next]_(Service!vars)
  BY StepImplements
<1> QED BY <1>1, <1>2, Invariance, PTL DEF Implements, Service!Spec, Spec

-----------------------------------------------------------------------------
(* Nobody is refused by himself *)

Asked(c) == Range(Ids[c])

\* Another call was made that asks for one of the keys of c.
Shares(c) == \E d \in made \ {c} : Asked(c) \cap Asked(d) # {}

\* Whoever is in a chain, or was there last, was made and asked for its key.
ChainUsers ==
    \A k \in Keys, c \in Calls :
        Queued(c, k) \/ lag[k] = c => c \in made /\ k \in Asked(c)

\* A call nobody makes does nothing.
OnlyMade == \A c \in Calls \ made : Ended(c) /\ ~refused[c]

\* A call that shares no key finds its chains empty, but for its own op, and its
\* entries deleted, but for the one whose finally block is due.
FindsFree(c) ==
    /\ ~refused[c] /\ ~timed[c] /\ gaveUp[c] = {}
    /\ \A k \in Asked(c) :
          /\ \/ chain[k] = <<>>
             \/ /\ chain[k] = <<c>>
                /\ k \in held[c] \/ (pc[c] = "wait" /\ at[c] = k)
          /\ lag[k] = Nobody \/ (lag[k] = c /\ pc[c] = "unwind" /\ at[c] = k)

Alone == \A c \in Calls : c \in made /\ ~Shares(c) => FindsFree(c)

RInv == ChainUsers /\ OnlyMade /\ Alone

\* What a call asks for are keys, and its body needs nothing else.
LEMMA AskedKeys ==
    ASSUME TypeOK, NEW c \in Calls PROVE Asked(c) \subseteq Keys /\ Need(c) \subseteq Asked(c)
<1>1. Ids[c] \in Seq(Keys) /\ pos[c] \in Nat
  BY LocksAssumption DEF TypeOK
<1>2. Asked(c) \subseteq Keys
  BY <1>1 DEF Asked, Range
<1>3. Need(c) \subseteq Asked(c)
  BY <1>1 DEF Need, Asked, Range
<1> QED BY <1>2, <1>3

\* Queueing queues nobody else.
LEMMA ChainAdds ==
    ASSUME TypeOK, NEW c \in Calls, NEW k \in Keys, Chain(c, k),
           NEW d \in Calls, NEW j \in Keys, Queued(d, j)'
    PROVE  Queued(d, j) \/ (d = c /\ j = k)
<1>1. chain[k] \in Seq(Calls) /\ chain'[k] = Append(chain[k], c)
  BY DEF TypeOK, Chain
<1>2. CASE j = k
  <2>1. PICK i \in 1 .. Len(Append(chain[k], c)) : Append(chain[k], c)[i] = d
    BY <1>1, <1>2, Zenon DEF Queued
  <2>2. i \in 1 .. Len(chain[k]) \/ i = Len(chain[k]) + 1
    BY <1>1, <2>1
  <2>3. i \in 1 .. Len(chain[k]) => chain[k][i] = d
    BY <1>1, <2>1
  <2>4. i = Len(chain[k]) + 1 => d = c
    BY <1>1, <2>1
  <2> QED BY <1>2, <2>2, <2>3, <2>4 DEF Queued
<1>3. CASE j # k
  BY <1>3 DEF Queued, Chain, TypeOK
<1> QED BY <1>2, <1>3

\* A settled op was queued, and nobody joins the chain.
LEMMA SettleAdds ==
    ASSUME TypeOK, NEW k \in Keys, chain[k] # <<>>, Settle(k)
    PROVE  /\ Head(chain[k]) \in Calls /\ Queued(Head(chain[k]), k)
           /\ \A d \in Calls, j \in Keys : Queued(d, j)' => Queued(d, j)
           /\ lag'[k] \in {Head(chain[k]), Nobody}
           /\ \A j \in Keys : j # k => lag'[j] = lag[j] /\ chain'[j] = chain[j]
<1>1. chain[k] \in Seq(Calls) /\ chain'[k] = Tail(chain[k]) /\ Len(chain[k]) >= 1
  BY DEF TypeOK, Settle
<1>2. Head(chain[k]) \in Calls /\ Head(chain[k]) = chain[k][1] /\ 1 \in 1 .. Len(chain[k])
  BY <1>1
<1>3. Queued(Head(chain[k]), k)
  BY <1>2 DEF Queued
<1>4. ASSUME NEW d \in Calls, NEW j \in Keys, Queued(d, j)' PROVE Queued(d, j)
  <2>1. CASE j = k
    <3>1. PICK i \in 1 .. Len(Tail(chain[k])) : Tail(chain[k])[i] = d
      BY <1>1, <1>4, <2>1, Zenon DEF Queued
    <3>2. i + 1 \in 1 .. Len(chain[k]) /\ chain[k][i + 1] = d
      BY <1>1, <3>1
    <3> QED BY <2>1, <3>2 DEF Queued
  <2>2. CASE j # k
    BY <1>4, <2>2 DEF Queued, Settle, TypeOK
  <2> QED BY <2>1, <2>2
<1>5. lag'[k] \in {Head(chain[k]), Nobody}
  BY DEF TypeOK, Settle
<1>6. \A j \in Keys : j # k => lag'[j] = lag[j] /\ chain'[j] = chain[j]
  BY DEF TypeOK, Settle
<1> QED BY <1>2, <1>3, <1>4, <1>5, <1>6

\* A key that a call without company asked for is nobody else's.
LEMMA AloneOwns ==
    ASSUME ChainUsers, NEW e \in Calls, e \in made, ~Shares(e), NEW k \in Asked(e),
           k \in Keys, NEW c \in Calls, c \in made, k \in Asked(c)
    PROVE  c = e
BY DEF Shares

\* Nothing is queued and no entry is left at the start.
LEMMA InitRInv == Init => RInv
<1> SUFFICES ASSUME Init PROVE RInv
  OBVIOUS
<1>1. TypeOK
  BY InitIInv DEF IInv
<1>2. \A k \in Keys : chain[k] = <<>> /\ lag[k] = Nobody
  BY DEF Init
<1>3. ChainUsers
  BY <1>2, LocksAssumption DEF ChainUsers, Queued
<1>4. OnlyMade
  BY DEF Init, OnlyMade, Ended
<1>5. \A c \in Calls : ~refused[c] /\ ~timed[c] /\ gaveUp[c] = {} /\ Asked(c) \subseteq Keys
  BY <1>1, AskedKeys DEF Init
<1>6. ASSUME NEW c \in Calls PROVE FindsFree(c)
  <2>1. \A k \in Asked(c) : chain[k] = <<>> /\ lag[k] = Nobody
    BY <1>2, <1>5
  <2> QED BY <1>5, <2>1, Zenon DEF FindsFree
<1>7. Alone
  BY <1>6, Zenon DEF Alone
<1> QED BY <1>3, <1>4, <1>7 DEF RInv

\* Queueing: a call without company finds the key free, so that no timer is set.
LEMMA EnqueueRInv ==
    ASSUME IInv, RInv, NEW c \in Calls, NEW k \in Keys, Enqueue(c, k) PROVE RInv'
<1> USE DEF IInv, RInv
<1>1. c \in made /\ k \in Asked(c) /\ k \notin held[c] /\ pc[c] = "acquire"
  BY AskedKeys DEF Enqueue, OnlyMade, Ended, IsNext, Missing
<1>2. \A e \in Calls : Shares(e)' = Shares(e)
  BY DEF Shares, Enqueue
<1>3. /\ \A j \in Keys : j # k => chain'[j] = chain[j] /\ lag'[j] = lag[j]
      /\ chain'[k] = Append(chain[k], c) /\ lag'[k] = Nobody
  BY DEF Enqueue, Chain, TypeOK
<1>4. ChainUsers'
  BY <1>1, <1>3, ChainAdds, LocksAssumption DEF ChainUsers, Enqueue
<1>5. OnlyMade'
  BY <1>1 DEF OnlyMade, Enqueue, Goto, Ended, TypeOK
<1>6. ASSUME NEW e \in Calls, e \in made, ~Shares(e) PROVE FindsFree(e)'
  <2>1. FindsFree(e) /\ Asked(e) \subseteq Keys
    BY <1>6, AskedKeys DEF Alone
  <2>2. CASE e = c
    <3>1. chain[k] = <<>> /\ lag[k] = Nobody
      BY <1>1, <2>1, <2>2 DEF FindsFree
    <3>2. chain'[k] = <<c>>
      BY <1>3, <3>1
    <3>3. ~timed'[c] /\ pc'[c] = "wait" /\ at'[c] = k
      BY <3>1 DEF Enqueue, Goto, IsHeld, TypeOK
    <3> QED BY <1>1, <1>3, <2>1, <2>2, <3>2, <3>3 DEF FindsFree, Enqueue
  <2>3. CASE e # c
    <3>1. k \notin Asked(e)
      BY <1>1, <1>6, <2>3, AloneOwns
    <3> QED BY <1>3, <2>1, <2>3, <3>1 DEF FindsFree, Enqueue, Goto, TypeOK
  <2> QED BY <2>2, <2>3
<1>7. Alone'
  BY <1>2, <1>6 DEF Alone, Enqueue
<1> QED BY <1>4, <1>5, <1>7

\* A call that is refused, or gives up, has company.
LEMMA RefusalRInv ==
    ASSUME IInv, RInv, NEW c \in Calls,
           Timeout(c) \/ \E k \in Keys : RefuseAtOnce(c, k)
    PROVE  RInv'
<1> USE DEF IInv, RInv
<1>1. c \in made /\ Shares(c)
  <2>1. CASE Timeout(c)
    BY <2>1 DEF Timeout, OnlyMade, Ended, Alone, FindsFree
  <2>2. ASSUME NEW k \in Keys, RefuseAtOnce(c, k) PROVE <1>1!:
    BY <2>2, AskedKeys
       DEF RefuseAtOnce, OnlyMade, Ended, Alone, FindsFree, IsNext, Missing, IsHeld
  <2> QED BY <2>1, <2>2
<1>2. /\ UNCHANGED <<made, chain, lag, held>>
      /\ \A e \in Calls \ {c} : /\ pc'[e] = pc[e] /\ at'[e] = at[e] /\ timed'[e] = timed[e]
                                /\ gaveUp'[e] = gaveUp[e] /\ refused'[e] = refused[e]
  BY DEF Timeout, RefuseAtOnce, Goto, TypeOK
<1>3. \A e \in Calls : Shares(e)' = Shares(e)
  BY <1>2 DEF Shares
<1>4. ChainUsers'
  BY <1>2 DEF ChainUsers, Queued
<1>5. OnlyMade'
  BY <1>1, <1>2 DEF OnlyMade, Ended
<1>6. \A e \in Calls \ {c} : FindsFree(e) => FindsFree(e)'
  BY <1>2 DEF FindsFree
<1>7. Alone'
  BY <1>1, <1>2, <1>3, <1>6 DEF Alone
<1> QED BY <1>4, <1>5, <1>7

\* The op at the head of k settles and is not the live op of a call that goes on.
LEMMA PassThroughRInv ==
    ASSUME IInv, RInv, NEW k \in Keys, PassThrough(k) PROVE RInv'
<1> USE DEF IInv, RInv
<1> DEFINE c == Head(chain[k])
<1>1. /\ c \in Calls /\ Queued(c, k) /\ k \in gaveUp[c]
      /\ \A d \in Calls, j \in Keys : Queued(d, j)' => Queued(d, j)
      /\ lag'[k] \in {c, Nobody}
      /\ \A j \in Keys : j # k => lag'[j] = lag[j] /\ chain'[j] = chain[j]
  BY SettleAdds DEF PassThrough
<1>2. c \in made /\ k \in Asked(c) /\ Shares(c)
  BY <1>1 DEF ChainUsers, Alone, FindsFree
<1> HIDE DEF c
<1>3. \A e \in Calls : Shares(e)' = Shares(e)
  BY DEF Shares, PassThrough
<1>4. ChainUsers'
  BY <1>1, <1>2, LocksAssumption DEF ChainUsers, PassThrough
<1>5. OnlyMade'
  BY DEF OnlyMade, PassThrough, Ended
<1>6. ASSUME NEW e \in Calls, e \in made, ~Shares(e) PROVE FindsFree(e)'
  <2>1. FindsFree(e) /\ Asked(e) \subseteq Keys /\ e # c
    BY <1>2, <1>6, AskedKeys DEF Alone
  <2>2. k \notin Asked(e)
    BY <1>1, <1>2, <1>6, <2>1, AloneOwns
  <2>3. gaveUp'[e] = gaveUp[e]
    BY <2>1 DEF PassThrough, TypeOK, c
  <2> QED BY <1>1, <2>1, <2>2, <2>3 DEF FindsFree, PassThrough
<1>7. Alone'
  BY <1>3, <1>6 DEF Alone, PassThrough
<1> QED BY <1>4, <1>5, <1>7

\* Leaving a section: the chain of a call without company is empty again, and its
\* finally block is due.
LEMMA UnwindRInv ==
    ASSUME IInv, RInv, NEW c \in Calls, NEW k \in Keys, Unwind(c, k) PROVE RInv'
<1> USE DEF IInv, RInv
<1>1. chain[k] # <<>> /\ Head(chain[k]) = c /\ pc[c] = "unwind" /\ at[c] = 0
  BY DEF Unwind, HeldAtHead
<1>2. /\ Queued(c, k)
      /\ \A d \in Calls, j \in Keys : Queued(d, j)' => Queued(d, j)
      /\ lag'[k] \in {c, Nobody}
      /\ \A j \in Keys : j # k => lag'[j] = lag[j] /\ chain'[j] = chain[j]
  BY <1>1, SettleAdds DEF Unwind
<1>3. c \in made /\ k \in Asked(c)
  BY <1>2 DEF ChainUsers
<1>4. \A e \in Calls : Shares(e)' = Shares(e)
  BY DEF Shares, Unwind
<1>5. ChainUsers'
  BY <1>2, <1>3, LocksAssumption DEF ChainUsers, Unwind
<1>6. OnlyMade'
  BY DEF OnlyMade, Unwind, Ended
<1>7. ASSUME NEW e \in Calls, e \in made, ~Shares(e) PROVE FindsFree(e)'
  <2>1. FindsFree(e) /\ Asked(e) \subseteq Keys
    BY <1>7, AskedKeys DEF Alone
  <2>2. CASE e = c
    <3>1. chain[k] = <<c>>
      BY <1>1, <1>3, <2>1, <2>2 DEF FindsFree
    <3>2. chain'[k] = <<>>
      BY <3>1 DEF Unwind, Settle, TypeOK
    <3>3. \A j \in Asked(c) : lag[j] = Nobody
      BY <1>1, <2>1, <2>2, LocksAssumption DEF FindsFree
    <3>4. at'[c] = k /\ \A j \in Keys : j # k => (j \in held'[c] <=> j \in held[c])
      BY DEF Unwind, TypeOK
    <3> QED BY <1>1, <1>2, <1>3, <2>1, <2>2, <3>2, <3>3, <3>4 DEF FindsFree, Unwind
  <2>3. CASE e # c
    <3>1. k \notin Asked(e)
      BY <1>3, <1>7, <2>3, AloneOwns
    <3>2. held'[e] = held[e] /\ at'[e] = at[e]
      BY <2>3 DEF Unwind, TypeOK
    <3> QED BY <1>2, <2>1, <2>3, <3>1, <3>2 DEF FindsFree, Unwind
  <2> QED BY <2>2, <2>3
<1>8. Alone'
  BY <1>4, <1>7 DEF Alone, Unwind
<1> QED BY <1>5, <1>6, <1>8

\* Steps that leave the chains alone.
LEMMA InnerRInv ==
    ASSUME IInv, RInv, NEW c \in Calls,
           (\E d \in 0 .. MaxWait : Start(c, d)) \/ Enter(c) \/ Leave(c) \/ Return(c)
    PROVE  RInv'
<1> USE DEF IInv, RInv
<1>1. /\ UNCHANGED <<made, chain, lag, gaveUp>> /\ ~Ended(c)
      /\ \A e \in Calls \ {c} : /\ pc'[e] = pc[e] /\ at'[e] = at[e] /\ timed'[e] = timed[e]
                                /\ held'[e] = held[e] /\ refused'[e] = refused[e]
  <2>1. ASSUME NEW d \in 0 .. MaxWait, Start(c, d) PROVE <1>1!:
    BY <2>1 DEF Start, Goto, Ended, TypeOK
  <2>2. CASE Enter(c)
    BY <2>2 DEF Enter, Goto, Ended, TypeOK
  <2>3. CASE Leave(c)
    BY <2>3 DEF Leave, Goto, Ended, TypeOK
  <2>4. CASE Return(c)
    BY <2>4 DEF Return, Goto, Ended, TypeOK
  <2> QED BY <2>1, <2>2, <2>3, <2>4
<1>2. c \in made
  BY <1>1 DEF OnlyMade
<1>3. \A e \in Calls : Shares(e)' = Shares(e)
  BY <1>1 DEF Shares
<1>4. ChainUsers'
  BY <1>1 DEF ChainUsers, Queued
<1>5. OnlyMade'
  BY <1>1, <1>2 DEF OnlyMade, Ended
<1>6. \A e \in Calls \ {c} : FindsFree(e) => FindsFree(e)'
  BY <1>1 DEF FindsFree
<1>7. ASSUME FindsFree(c) PROVE FindsFree(c)'
  <2>0. Asked(c) \subseteq Keys
    BY AskedKeys
  <2>1. ASSUME NEW d \in 0 .. MaxWait, Start(c, d) PROVE FindsFree(c)'
    <3>1. pc[c] = "wait" /\ held'[c] = held[c] \cup {at[c]} /\ ~timed'[c]
      BY <2>1 DEF Start, TypeOK
    <3> QED BY <1>7, <2>1, <3>1 DEF FindsFree, Start
  <2>2. CASE Enter(c)
    BY <1>7, <2>2 DEF FindsFree, Enter
  <2>3. CASE Leave(c)
    BY <1>7, <2>3 DEF FindsFree, Leave
  <2>4. CASE Return(c)
    <3>1. \A k \in Asked(c) : chain[k] = <<>> /\ lag[k] = Nobody
      BY <1>7, <2>0, <2>4, LocksAssumption DEF FindsFree, Return
    <3>2. ~refused'[c] /\ ~timed[c] /\ gaveUp[c] = {}
      BY <1>7, <2>4 DEF FindsFree, Return, TypeOK
    <3>3. ~timed'[c] /\ gaveUp'[c] = {} /\ chain' = chain /\ lag' = lag
      BY <3>2, <1>1, <2>4 DEF Return
    <3>4. \A k \in Asked(c) : chain'[k] = <<>> /\ lag'[k] = Nobody
      BY <3>1, <3>3
    <3> QED BY <3>2, <3>3, <3>4, Zenon DEF FindsFree, Asked
  <2> QED BY <2>1, <2>2, <2>3, <2>4
<1>8. Alone'
  BY <1>1, <1>3, <1>6, <1>7 DEF Alone
<1> QED BY <1>4, <1>5, <1>8

\* A finally block deletes an entry, or finds a newer op's.
LEMMA DeleteRInv ==
    ASSUME IInv, RInv,
           (\E c \in Calls : Finally(c)) \/ (\E k \in Keys : Forget(k))
    PROVE  RInv'
<1> USE DEF IInv, RInv
<1>1. /\ UNCHANGED <<made, chain, pc, held, timed, gaveUp, refused>>
      /\ \A k \in Keys : lag'[k] \in {lag[k], Nobody}
  BY DEF Finally, Forget, Delete, TypeOK
<1>2. \A e \in Calls : Shares(e)' = Shares(e)
  BY <1>1 DEF Shares
<1>3. ChainUsers'
  BY <1>1, LocksAssumption DEF ChainUsers, Queued
<1>4. OnlyMade'
  BY <1>1 DEF OnlyMade, Ended
<1>5. ASSUME NEW e \in Calls, FindsFree(e) PROVE FindsFree(e)'
  <2>0. Asked(e) \subseteq Keys
    BY AskedKeys
  <2>1. ASSUME NEW c \in Calls, Finally(c), c = e PROVE FindsFree(e)'
    <3>1. pc[e] = "unwind" /\ at[e] \in Keys
      BY <2>1 DEF Finally, TypeOK
    <3>2. \A k \in Asked(e) : lag'[k] = Nobody
      BY <1>5, <2>0, <2>1, <3>1 DEF FindsFree, Finally, Delete, TypeOK
    <3>3. \A k \in Asked(e) : chain'[k] = <<>> \/ (chain'[k] = <<e>> /\ k \in held'[e])
      BY <1>1, <1>5, <3>1 DEF FindsFree
    <3>4. ~refused'[e] /\ ~timed'[e] /\ gaveUp'[e] = {}
      BY <1>1, <1>5 DEF FindsFree
    <3> QED BY <3>2, <3>3, <3>4, Zenon DEF FindsFree, Asked
  <2>2. ASSUME at'[e] = at[e] PROVE FindsFree(e)'
    BY <1>1, <1>5, <2>0, <2>2 DEF FindsFree
  <2>3. ASSUME NEW c \in Calls, Finally(c), c # e PROVE at'[e] = at[e]
    BY <2>3 DEF Finally, TypeOK
  <2>4. ASSUME NEW k \in Keys, Forget(k) PROVE at'[e] = at[e]
    BY <2>4 DEF Forget
  <2> QED BY <2>1, <2>2, <2>3, <2>4
<1>6. Alone'
  BY <1>1, <1>2, <1>5 DEF Alone
<1> QED BY <1>3, <1>4, <1>6

\* One case per action.
LEMMA NextRInv == IInv /\ RInv /\ [Next]_vars => RInv'
<1> SUFFICES ASSUME IInv, RInv, [Next]_vars PROVE RInv'
  OBVIOUS
<1>1. CASE UNCHANGED vars
  BY <1>1 DEF vars, RInv, ChainUsers, OnlyMade, Alone, FindsFree, Queued, Shares, Ended
<1>2. CASE AllDone
  BY <1>1, <1>2 DEF AllDone
<1>3. ASSUME NEW c \in Calls, CallStep(c) PROVE RInv'
  BY <1>3, EnqueueRInv, RefusalRInv, UnwindRInv, InnerRInv, DeleteRInv DEF CallStep
<1>4. ASSUME NEW c \in Calls, Timeout(c) PROVE RInv'
  BY <1>4, RefusalRInv
<1>5. ASSUME NEW k \in Keys, PassThrough(k) \/ Forget(k) PROVE RInv'
  BY <1>5, PassThroughRInv, DeleteRInv
<1> QED BY <1>1, <1>2, <1>3, <1>4, <1>5 DEF Next

\* No call is ever refused on its own account: not by an id it was given twice, nor
\* by a slot it abandoned, nor by an entry of its own that was not deleted yet.
THEOREM RefusalsHaveCause == Spec => []RefusedByAnother
<1>1. Init => RInv
  BY InitRInv
<1>2. IInv /\ RInv /\ [Next]_vars => RInv'
  BY NextRInv
<1>3. RInv => RefusedByAnother
  BY DEF RInv, OnlyMade, Alone, FindsFree, Shares, Asked, RefusedByAnother
<1> QED BY <1>1, <1>2, <1>3, Invariance, PTL DEF Spec

=============================================================================
