--------------------------- MODULE BotProofs ---------------------------
(***************************************************************************)
(* Theorems about Delivery, for every set of destinations, keys and drain  *)
(* calls.  Their reach: drain() builds its batch by popping queued[key]    *)
(* for each key of the order, so an order that named a missing key, or one *)
(* key twice, would end it with a KeyError and lose the keys popped so far.*)
(* Then theorems about BotProcess, the process that delivers: its boot and *)
(* the menu that it keeps in the language of the operator; and about the   *)
(* panels people act through: the views of a profile, the forms on the     *)
(* pools and the posts they refresh.                                       *)
(***************************************************************************)
EXTENDS Delivery, BotProcess, ProfilePanel, PoolPanels, TLAPS

\* A sequence of distinct keys, each with a payload in f.
Backs(f, s) ==
  /\ \A i \in 1..Len(s) : f[s[i]] # 0
  /\ \A i, j \in 1..Len(s) : s[i] = s[j] => i = j

\* The strengthening: besides the queues, the batches in flight, which a
\* failed send makes the queue again, are consistent too.
QueuesBacked == \A d \in Destinations : Backs(queued[d], order[d])
BatchesBacked == \A p \in Drains : Backs(drain[p].load, drain[p].keys)
IInv == DeliveryTypeOK /\ QueuesBacked /\ BatchesBacked

\* A key that is appended where it is missing keeps a sequence backed.
LEMMA AppendBacked ==
  ASSUME NEW f \in Payloads, NEW s \in Seq(Keys), NEW k \in Keys, NEW n \in 0..MaxEnqueues,
         Backs(f, s), n # 0, f[k] = 0
  PROVE  Backs([f EXCEPT ![k] = n], Append(s, k))
<1>1. /\ Len(Append(s, k)) = Len(s) + 1
      /\ \A i \in 1..Len(s) : Append(s, k)[i] = s[i] /\ s[i] \in Keys
      /\ Append(s, k)[Len(s) + 1] = k
  OBVIOUS
<1>2. \A i \in 1..Len(s) : s[i] # k
  BY DEF Backs
<1>3. Len(s) \in Nat
  OBVIOUS
<1>4. \A i \in 1..(Len(s) + 1) : [f EXCEPT ![k] = n][Append(s, k)[i]] # 0
  BY <1>1, <1>2, <1>3 DEF Backs, Payloads
<1>5. \A i, j \in 1..(Len(s) + 1) : Append(s, k)[i] = Append(s, k)[j] => i = j
  BY <1>1, <1>2, <1>3 DEF Backs
<1>6. QED
  BY <1>1, <1>4, <1>5 DEF Backs

\* Overwriting a payload by another keeps a sequence backed.
LEMMA OverwriteBacked ==
  ASSUME NEW f \in Payloads, NEW s \in Seq(Keys), NEW k \in Keys, NEW n \in 0..MaxEnqueues,
         Backs(f, s), n # 0
  PROVE  Backs([f EXCEPT ![k] = n], s)
<1>1. \A i \in 1..Len(s) : s[i] \in Keys
  OBVIOUS
<1>2. QED
  BY <1>1 DEF Backs, Payloads

LEMMA InitInv == DeliveryInit => IInv
<1>1. ASSUME DeliveryInit PROVE DeliveryTypeOK
  <2>1. Nothing \in Payloads /\ <<>> \in Seq(Keys)
    BY DeliveryAssumption DEF Nothing, Payloads
  <2>2. Asleep \in DrainStates
    BY <2>1 DEF Asleep, DrainStates
  <2>3. QED
    BY <1>1, <2>1, <2>2, DeliveryAssumption DEF DeliveryInit, DeliveryTypeOK
<1>2. DeliveryInit => QueuesBacked /\ BatchesBacked
  BY DEF DeliveryInit, QueuesBacked, BatchesBacked, Backs, Asleep
<1>3. QED
  BY <1>1, <1>2 DEF IInv

\* A drain() that has no batch in flight is backed.
LEMMA DoneState ==
  ASSUME DeliveryTypeOK, NEW p \in Drains
  PROVE  Done(p) \in DrainStates /\ Backs(Done(p).load, Done(p).keys)
<1>1. Nothing \in Payloads /\ <<>> \in Seq(Keys)
  BY DeliveryAssumption DEF Nothing, Payloads
<1>2. drain[p] \in DrainStates
  BY DEF DeliveryTypeOK
<1>3. drain[p].todo \in SUBSET Destinations
  BY <1>2 DEF DrainStates
<1>4. Done(p) = [todo |-> drain[p].todo, at |-> NoDestination, keys |-> <<>>, load |-> Nothing]
  BY DEF Done, Asleep
<1>5. Done(p) \in DrainStates
  BY <1>1, <1>3, <1>4 DEF DrainStates
<1>6. Backs(Nothing, <<>>)
  BY DEF Backs
<1>7. QED
  BY <1>4, <1>5, <1>6

LEMMA EnqueueInv ==
  ASSUME IInv, NEW d \in Destinations, NEW k \in Keys, Enqueue(d, k)
  PROVE  IInv'
<1> USE DEF IInv
<1>1. /\ clock + 1 \in 0..MaxEnqueues /\ clock + 1 # 0
      /\ queued[d] \in Payloads /\ order[d] \in Seq(Keys)
  BY DeliveryAssumption DEF Enqueue, DeliveryTypeOK
<1>2. Overwritten(d, k) \in Payloads /\ Queued(d, k) \in Seq(Keys)
  BY <1>1 DEF Overwritten, Queued, Payloads
<1>3. Backs(Overwritten(d, k), Queued(d, k))
  <2>1. Backs(queued[d], order[d])
    BY DEF QueuesBacked
  <2>2. CASE queued[d][k] = 0
    BY <1>1, <2>1, <2>2, AppendBacked DEF Overwritten, Queued
  <2>3. CASE queued[d][k] # 0
    BY <1>1, <2>1, <2>3, OverwriteBacked DEF Overwritten, Queued
  <2>4. QED
    BY <2>2, <2>3
<1>4. DeliveryTypeOK'
  <2>1. /\ queued' \in [Destinations -> Payloads] /\ order' \in [Destinations -> Seq(Keys)]
        /\ clock' \in 0..MaxEnqueues
    BY <1>1, <1>2 DEF Enqueue, DeliveryTypeOK
  <2>2. latest' \in [Destinations -> Payloads] /\ joined' \in [Destinations -> Payloads]
    BY <1>1 DEF Enqueue, DeliveryTypeOK, Payloads
  <2>3. QED
    BY <2>1, <2>2 DEF Enqueue, DeliveryTypeOK
<1>5. QueuesBacked'
  BY <1>3 DEF Enqueue, QueuesBacked, DeliveryTypeOK
<1>6. BatchesBacked'
  BY DEF Enqueue, BatchesBacked
<1>7. QED
  BY <1>4, <1>5, <1>6

LEMMA TakeInv ==
  ASSUME IInv, NEW p \in Drains, NEW d \in Destinations, Take(p, d)
  PROVE  IInv'
<1> USE DEF IInv
<1> DEFINE b == [todo |-> drain[p].todo \ {d}, at |-> d, keys |-> order[d], load |-> Popped(d)]
<1>0. queued[d] \in Payloads /\ order[d] \in Seq(Keys)
  BY DEF DeliveryTypeOK
<1>9. Popped(d) \in Payloads /\ Stuck(d) \in Payloads
  BY <1>0, DeliveryAssumption DEF Popped, Stuck, Payloads
<1>1. b \in DrainStates
  BY <1>0, <1>9 DEF DeliveryTypeOK, DrainStates
<1>2. <<>> \in Seq(Keys) /\ Backs(Stuck(d), <<>>)
  BY DEF Backs
<1>3. drain' = [drain EXCEPT ![p] = b]
  BY DEF Take
<1>4. Backs(b.load, b.keys)
  <2>1. Backs(queued[d], order[d])
    BY DEF QueuesBacked
  <2>2. \A i \in 1..Len(order[d]) : order[d][i] \in Keys /\ InOrder(d, order[d][i])
    BY <1>0 DEF InOrder
  <2>3. QED
    BY <2>1, <2>2 DEF Backs, Popped
<1>5. DeliveryTypeOK'
  <2>1. drain' \in [Drains -> DrainStates]
    BY <1>1, <1>3 DEF DeliveryTypeOK
  <2>2. tangled' \subseteq Destinations
    BY DEF Take, DeliveryTypeOK
  <2>3. QED
    BY <2>1, <2>2, <1>2, <1>9 DEF Take, DeliveryTypeOK
<1>6. QueuesBacked'
  BY <1>2 DEF Take, QueuesBacked, DeliveryTypeOK
<1>7. BatchesBacked'
  <2>1. \A q \in Drains : drain'[q] = IF q = p THEN b ELSE drain[q]
    BY <1>3 DEF DeliveryTypeOK
  <2>2. QED
    BY <2>1, <1>4 DEF BatchesBacked
<1>8. QED
  BY <1>5, <1>6, <1>7

LEMMA FailedInv ==
  ASSUME IInv, NEW p \in Drains, NEW d \in Destinations, Failed(p, d)
  PROVE  IInv'
<1> USE DEF IInv
<1>1. drain[p] \in DrainStates /\ drain[p].keys \in Seq(Keys) /\ drain[p].load \in Payloads
  BY DEF DeliveryTypeOK, DrainStates
<1>2. Restored(p, d) \in Payloads
  BY <1>1 DEF Restored, DeliveryTypeOK, Payloads
<1>3. Backs(Restored(p, d), Requeued(p))
  <2>1. Backs(drain[p].load, drain[p].keys)
    BY DEF BatchesBacked
  <2>2. \A i \in 1..Len(drain[p].keys) : drain[p].keys[i] \in Keys
    BY <1>1
  <2>3. \A k \in Keys : drain[p].load[k] # 0 => Restored(p, d)[k] # 0
    BY DEF Restored
  <2>4. QED
    BY <2>1, <2>2, <2>3 DEF Backs, Requeued
<1>4. DeliveryTypeOK'
  <2>1. drain' \in [Drains -> DrainStates]
    BY DoneState DEF Failed, DeliveryTypeOK
  <2>2. limited' \subseteq Destinations /\ tangled' \subseteq Destinations
    BY DEF Failed, DeliveryTypeOK
  <2>3. queued' \in [Destinations -> Payloads] /\ order' \in [Destinations -> Seq(Keys)]
    BY <1>1, <1>2 DEF Failed, Requeued, DeliveryTypeOK
  <2>4. QED
    BY <2>1, <2>2, <2>3 DEF Failed, DeliveryTypeOK
<1>5. QueuesBacked'
  BY <1>3 DEF Failed, QueuesBacked, DeliveryTypeOK
<1>6. BatchesBacked'
  <2>1. \A q \in Drains : drain'[q] = IF q = p THEN Done(p) ELSE drain[q]
    BY DEF Failed, DeliveryTypeOK
  <2>2. QED
    BY <2>1, DoneState DEF BatchesBacked
<1>7. QED
  BY <1>4, <1>5, <1>6

LEMMA RestInv ==
  ASSUME IInv, NEW p \in Drains, NEW d \in Destinations,
         Drain(p) \/ Skip(p, d) \/ Sent(p, d) \/ BackoffElapses(d)
  PROVE  IInv'
<1> USE DEF IInv
<1>0. drain[p] \in DrainStates
  BY DEF DeliveryTypeOK
<1>1. CASE Drain(p) \/ Skip(p, d)
  <2>1. PICK S \in SUBSET Destinations : drain' = [drain EXCEPT ![p].todo = S]
    BY <1>1, <1>0 DEF Drain, Skip, DrainStates, Seen
  <2>2. drain' \in [Drains -> DrainStates]
    BY <2>1 DEF DeliveryTypeOK, DrainStates
  <2>3. \A q \in Drains : drain'[q].load = drain[q].load /\ drain'[q].keys = drain[q].keys
    BY <2>1 DEF DeliveryTypeOK, DrainStates
  <2>4. BatchesBacked'
    BY <2>3 DEF BatchesBacked
  <2>5. QED
    BY <1>1, <2>2, <2>4 DEF Drain, Skip, DeliveryTypeOK, QueuesBacked
<1>2. CASE Sent(p, d)
  <2>1. drain' \in [Drains -> DrainStates]
    BY <1>2, DoneState DEF Sent, DeliveryTypeOK
  <2>2. delivered' \in [Destinations -> Payloads]
    BY <1>2, <1>0 DEF Sent, DeliveryTypeOK, Payloads, DrainStates
  <2>3. \A q \in Drains : drain'[q] = IF q = p THEN Done(p) ELSE drain[q]
    BY <1>2 DEF Sent, DeliveryTypeOK
  <2>4. BatchesBacked'
    BY <2>3, DoneState DEF BatchesBacked
  <2>5. QED
    BY <1>2, <2>1, <2>2, <2>4 DEF Sent, DeliveryTypeOK, QueuesBacked
<1>3. CASE BackoffElapses(d)
  BY <1>3 DEF BackoffElapses, Rearmed, DeliveryTypeOK, QueuesBacked, BatchesBacked
<1>4. QED
  BY <1>1, <1>2, <1>3

\* A step keeps the inductive invariant.
LEMMA InvStep == IInv /\ [DeliveryNext]_deliveryVars => IInv'
<1>1. ASSUME IInv, DeliveryNext PROVE IInv'
  <2>1. ASSUME NEW d \in Destinations, NEW k \in Keys, Enqueue(d, k) PROVE IInv'
    BY <1>1, <2>1, EnqueueInv
  <2>2. ASSUME NEW p \in Drains, Drain(p) PROVE IInv'
    <3>1. drain[p] \in DrainStates /\ drain' = [drain EXCEPT ![p].todo = Seen]
      BY <1>1, <2>2 DEF IInv, DeliveryTypeOK, Drain
    <3>2. drain' \in [Drains -> DrainStates]
      BY <1>1, <3>1 DEF IInv, DeliveryTypeOK, DrainStates, Seen
    <3>3. \A q \in Drains : drain'[q].load = drain[q].load /\ drain'[q].keys = drain[q].keys
      BY <1>1, <3>1 DEF IInv, DeliveryTypeOK, DrainStates
    <3>4. BatchesBacked'
      BY <1>1, <3>3 DEF IInv, BatchesBacked
    <3>5. QED
      BY <1>1, <2>2, <3>2, <3>4 DEF IInv, Drain, DeliveryTypeOK, QueuesBacked
  <2>3. ASSUME NEW p \in Drains, NEW d \in Destinations,
               Skip(p, d) \/ Take(p, d) \/ Sent(p, d) \/ Failed(p, d)
        PROVE  IInv'
    BY <1>1, <2>3, RestInv, TakeInv, FailedInv
  <2>4. ASSUME NEW d \in Destinations, BackoffElapses(d) PROVE IInv'
    BY <1>1, <2>4 DEF IInv, BackoffElapses, Rearmed, DeliveryTypeOK, QueuesBacked, BatchesBacked
  <2>5. QED
    BY <1>1, <2>1, <2>2, <2>3, <2>4 DEF DeliveryNext
<1>2. ASSUME IInv, UNCHANGED deliveryVars PROVE IInv'
  BY <1>2 DEF IInv, DeliveryTypeOK, QueuesBacked, BatchesBacked, deliveryVars
<1>3. QED
  BY <1>1, <1>2

\* The queues and the batches in flight keep their types, however enqueues,
\* drains and failures overlap.
THEOREM TypeCorrect == DeliverySpec => []DeliveryTypeOK
<1>1. IInv => DeliveryTypeOK
  BY DEF IInv
<1> QED BY <1>1, InitInv, InvStep, PTL DEF DeliverySpec

\* The order of a destination never names a key that is not queued, nor one
\* twice, however enqueues, drains and failures overlap.
THEOREM OrderStaysConsistent == DeliverySpec => []OrderConsistent
<1>1. IInv => OrderConsistent
  BY DEF IInv, QueuesBacked, Backs, OrderConsistent
<1> QED BY <1>1, InitInv, InvStep, PTL DEF DeliverySpec

-----------------------------------------------------------------------------
(* Nothing is lost.  Of a destination that is not tangled: one send at most *)
(* is in flight; what is queued is the latest payload and in the order; a   *)
(* batch in flight holds latest payloads but for the keys queued anew; and  *)
(* as long as nothing was queued anew, the batch could go back as it is.    *)

\* The keys of s joined in the order in which they stand.
Rising(f, s) == \A i, j \in 1..Len(s) : i < j => f[s[i]] < f[s[j]]

Alone(d) == \A p, q \in Drains : drain[p].at = d /\ drain[q].at = d => p = q
Current(d) == \A k \in Keys : queued[d][k] # 0 => queued[d][k] = latest[d][k] /\ InOrder(d, k)
Kept(d) ==
  \A k \in Keys : latest[d][k] # 0 =>
    delivered[d][k] = latest[d][k] \/ InFlight(d, k) \/ InOrder(d, k)
Batch(d, p) ==
  /\ \A k \in Keys : drain[p].load[k] # 0 =>
       /\ \E i \in 1..Len(drain[p].keys) : drain[p].keys[i] = k
       /\ drain[p].load[k] = latest[d][k] \/ queued[d][k] # 0
  /\ order[d] = <<>> => Rising(joined[d], drain[p].keys)
Sound(d) ==
  /\ Alone(d) /\ Current(d) /\ Kept(d) /\ Rising(joined[d], order[d])
  /\ \A p \in Drains : drain[p].at = d => Batch(d, p)

\* A key joined at an enqueue that has been.
JoinedThen == \A d \in Destinations, k \in Keys : joined[d][k] <= clock
LInv == IInv /\ JoinedThen /\ \A d \in Destinations \ tangled : Sound(d)

\* What does not touch a destination leaves it sound.
LEMMA Untouched ==
  ASSUME NEW d \in Destinations, Sound(d),
         queued'[d] = queued[d], order'[d] = order[d], latest'[d] = latest[d],
         delivered'[d] = delivered[d], joined'[d] = joined[d],
         \A p \in Drains : drain'[p].at = d <=> drain[p].at = d,
         \A p \in Drains : drain[p].at = d =>
           drain'[p].load = drain[p].load /\ drain'[p].keys = drain[p].keys
  PROVE  Sound(d)'
<1>1. Alone(d)'
  BY DEF Sound, Alone
<1>2. Current(d)'
  BY DEF Sound, Current, InOrder
<1>3. ASSUME NEW k \in Keys, InFlight(d, k) PROVE InFlight(d, k)'
  BY <1>3 DEF InFlight
<1>4. Kept(d)'
  BY <1>3 DEF Sound, Kept, InOrder
<1>5. Rising(joined[d], order[d])'
  BY DEF Sound, Rising
<1>6. ASSUME NEW p \in Drains, drain'[p].at = d PROVE Batch(d, p)'
  BY <1>6, SMTT(30) DEF Sound, Batch, Rising
<1>7. QED
  BY <1>1, <1>2, <1>4, <1>5, <1>6 DEF Sound

LEMMA EnqueueSound ==
  ASSUME LInv, NEW d \in Destinations, NEW k \in Keys, Enqueue(d, k)
  PROVE  JoinedThen' /\ \A e \in Destinations \ tangled' : Sound(e)'
<1> USE DEF LInv
<1>0. IInv /\ DeliveryTypeOK /\ IInv' /\ DeliveryTypeOK'
  BY EnqueueInv DEF IInv
<1>1. /\ clock \in Nat /\ clock' = clock + 1 /\ drain' = drain /\ tangled' = tangled
      /\ delivered' = delivered
      /\ queued[d] \in Payloads /\ order[d] \in Seq(Keys)
      /\ latest[d] \in [Keys -> Nat] /\ joined[d] \in [Keys -> Nat]
  BY <1>0, DeliveryAssumption DEF Enqueue, DeliveryTypeOK, Payloads
<1>2. /\ queued'[d] = [queued[d] EXCEPT ![k] = clock + 1]
      /\ latest'[d] = [latest[d] EXCEPT ![k] = clock + 1]
      /\ order'[d] = Queued(d, k)
      /\ joined'[d] = IF queued[d][k] = 0 THEN [joined[d] EXCEPT ![k] = clock + 1] ELSE joined[d]
  BY <1>0 DEF Enqueue, DeliveryTypeOK, Overwritten, Payloads
<1>3. JoinedThen'
  <2> SUFFICES ASSUME NEW e \in Destinations, NEW l \in Keys PROVE joined'[e][l] <= clock'
    BY DEF JoinedThen
  <2>1. joined[e][l] \in Nat /\ joined[e][l] <= clock
    BY <1>0, DeliveryAssumption DEF JoinedThen, DeliveryTypeOK, Payloads
  <2>2. joined'[e][l] = joined[e][l] \/ joined'[e][l] = clock + 1
    BY <1>0, <1>1 DEF Enqueue, DeliveryTypeOK, Payloads
  <2>3. QED
    BY <1>1, <2>1, <2>2
<1>4. ASSUME NEW e \in Destinations \ tangled, e # d PROVE Sound(e)'
  <2>1. /\ queued'[e] = queued[e] /\ order'[e] = order[e] /\ latest'[e] = latest[e]
        /\ joined'[e] = joined[e]
    BY <1>0, <1>4 DEF Enqueue, DeliveryTypeOK
  <2>2. QED
    BY <1>1, <2>1, Untouched
<1>5. ASSUME d \notin tangled PROVE Sound(d)'
  <2>0. Sound(d) /\ Current(d) /\ Kept(d) /\ Rising(joined[d], order[d])
    BY <1>5 DEF Sound
  <2>1. /\ Len(Queued(d, k)) \in Nat /\ Queued(d, k) # <<>>
        /\ \A l \in Keys : InOrder(d, l) => InOrder(d, l)'
        /\ InOrder(d, k)'
    <3>1. CASE queued[d][k] = 0
      <4>1. /\ Queued(d, k) = Append(order[d], k) /\ Len(Queued(d, k)) = Len(order[d]) + 1
            /\ Queued(d, k)[Len(order[d]) + 1] = k
            /\ \A i \in 1..Len(order[d]) : Queued(d, k)[i] = order[d][i]
        BY <1>1, <3>1 DEF Queued
      <4>2. Len(order[d]) \in Nat
        BY <1>1
      <4>3. 1..Len(order[d]) \subseteq 1..Len(order'[d]) /\ Len(order[d]) + 1 \in 1..Len(order'[d])
        BY <4>1, <4>2, <1>2
      <4>4. Queued(d, k) # <<>>
        BY <4>1, <4>2
      <4>5. QED
        BY <4>1, <4>2, <4>3, <4>4, <1>2 DEF InOrder
    <3>2. CASE queued[d][k] # 0
      <4>1. InOrder(d, k) /\ Queued(d, k) = order[d]
        BY <2>0, <3>2 DEF Current, Queued
      <4>2. QED
        BY <4>1, <1>1, <1>2 DEF InOrder
    <3>3. QED
      BY <3>1, <3>2
  <2>2. Alone(d)'
    BY <1>1, <2>0 DEF Sound, Alone
  <2>3. Current(d)'
    <3> SUFFICES ASSUME NEW l \in Keys, queued'[d][l] # 0
                 PROVE  queued'[d][l] = latest'[d][l] /\ InOrder(d, l)'
      BY DEF Current
    <3>1. CASE l = k
      BY <3>1, <1>1, <1>2, <2>1 DEF Payloads
    <3>2. CASE l # k
      <4>1. queued'[d][l] = queued[d][l] /\ latest'[d][l] = latest[d][l]
        BY <3>2, <1>1, <1>2 DEF Payloads
      <4>2. QED
        BY <4>1, <2>0, <2>1 DEF Current
    <3>3. QED
      BY <3>1, <3>2
  <2>4. Kept(d)'
    <3> SUFFICES ASSUME NEW l \in Keys, latest'[d][l] # 0
                 PROVE  delivered'[d][l] = latest'[d][l] \/ InFlight(d, l)' \/ InOrder(d, l)'
      BY DEF Kept
    <3>1. CASE l = k
      BY <3>1, <2>1
    <3>2. CASE l # k
      <4>1. latest'[d][l] = latest[d][l]
        BY <3>2, <1>1, <1>2
      <4>2. delivered[d][l] = latest[d][l] \/ InFlight(d, l) \/ InOrder(d, l)
        BY <4>1, <2>0 DEF Kept
      <4>3. InFlight(d, l) => InFlight(d, l)'
        BY <4>1, <1>1 DEF InFlight
      <4>4. QED
        BY <4>1, <4>2, <4>3, <1>1, <2>1
    <3>3. QED
      BY <3>1, <3>2
  <2>5. Rising(joined'[d], order'[d])
    <3>1. CASE queued[d][k] = 0
      <4>1. /\ order'[d] = Append(order[d], k) /\ Len(order'[d]) = Len(order[d]) + 1
            /\ order'[d][Len(order[d]) + 1] = k
            /\ \A i \in 1..Len(order[d]) : order'[d][i] = order[d][i] /\ order[d][i] \in Keys
        BY <1>1, <1>2, <3>1 DEF Queued
      <4>2. \A i \in 1..Len(order[d]) : order[d][i] # k
        BY <1>0, <3>1 DEF IInv, QueuesBacked, Backs
      <4>3. \A i \in 1..Len(order[d]) :
              joined'[d][order'[d][i]] = joined[d][order[d][i]] /\ joined'[d][order'[d][i]] < clock + 1
        BY <1>1, <1>2, <3>1, <4>1, <4>2 DEF JoinedThen
      <4>4. joined'[d][order'[d][Len(order[d]) + 1]] = clock + 1
        BY <1>1, <1>2, <3>1, <4>1
      <4>5. Len(order[d]) \in Nat
        BY <1>1
      <4>6. QED
        BY <2>0, <4>1, <4>3, <4>4, <4>5 DEF Rising
    <3>2. CASE queued[d][k] # 0
      BY <3>2, <2>0, <1>2 DEF Queued
    <3>3. QED
      BY <3>1, <3>2
  <2>6. ASSUME NEW p \in Drains, drain'[p].at = d PROVE Batch(d, p)'
    <3>1. drain[p].at = d /\ Batch(d, p)
      BY <2>6, <1>1, <1>5 DEF Sound
    <3>2. order'[d] # <<>>
      BY <2>1, <1>2
    <3>3. ASSUME NEW l \in Keys, drain[p].load[l] # 0
          PROVE  drain[p].load[l] = latest'[d][l] \/ queued'[d][l] # 0
      BY <3>1, <3>3, <1>1, <1>2 DEF Batch, Payloads
    <3>4. QED
      BY <3>1, <3>2, <3>3, <1>1 DEF Batch
  <2>7. QED
    BY <2>2, <2>3, <2>4, <2>5, <2>6 DEF Sound
<1>6. QED
  BY <1>1, <1>3, <1>4, <1>5

\* The batch takes the queue over as it stands.
LEMMA TakeSound ==
  ASSUME LInv, NEW p \in Drains, NEW d \in Destinations, Take(p, d)
  PROVE  JoinedThen' /\ \A e \in Destinations \ tangled' : Sound(e)'
<1> USE DEF LInv
<1>0. DeliveryTypeOK /\ drain[p] \in DrainStates /\ NoDestination \notin Destinations
  BY DeliveryAssumption DEF IInv, DeliveryTypeOK
<1>1. /\ drain'[p].at = d /\ drain'[p].keys = order[d] /\ drain'[p].load = Popped(d)
      /\ \A q \in Drains : q # p => drain'[q] = drain[q]
      /\ drain[p].at = NoDestination
      /\ latest' = latest /\ delivered' = delivered /\ joined' = joined /\ clock' = clock
  BY <1>0 DEF Take, DeliveryTypeOK
<1>2. /\ order'[d] = <<>> /\ queued'[d] = Stuck(d)
      /\ \A e \in Destinations : e # d => order'[e] = order[e] /\ queued'[e] = queued[e]
  BY <1>0 DEF Take, DeliveryTypeOK
<1>3. JoinedThen'
  BY <1>1 DEF JoinedThen
<1>4. ASSUME NEW e \in Destinations \ tangled', e # d PROVE Sound(e)'
  <2>1. e \notin tangled
    BY <1>4 DEF Take
  <2>2. QED
    BY <1>0, <1>1, <1>2, <1>4, <2>1, Untouched
<1>5. ASSUME d \notin tangled' PROVE Sound(d)'
  <2>1. d \notin tangled /\ \A q \in Drains : drain[q].at # d
    BY <1>5 DEF Take
  <2>2. Current(d) /\ Kept(d) /\ Rising(joined[d], order[d])
    BY <2>1 DEF Sound
  <2>3. Alone(d)'
    BY <1>1, <2>1 DEF Alone
  <2>9. Popped(d) = queued[d] /\ Stuck(d) = Nothing
    <3>1. \A k \in Keys : queued[d][k] # 0 => InOrder(d, k)
      BY <2>2 DEF Current
    <3>2. queued[d] \in Payloads
      BY <1>0 DEF DeliveryTypeOK
    <3>3. Popped(d) = [k \in Keys |-> queued[d][k]] /\ Stuck(d) = [k \in Keys |-> 0]
      BY <3>1 DEF Popped, Stuck
    <3>4. QED
      BY <3>2, <3>3 DEF Payloads, Nothing
  <2>4. Current(d)'
    BY <1>2, <2>9 DEF Current, Nothing
  <2>5. Kept(d)'
    <3> SUFFICES ASSUME NEW k \in Keys, latest[d][k] # 0, delivered[d][k] # latest[d][k]
                 PROVE  InFlight(d, k)'
      BY <1>1 DEF Kept
    <3>1. InOrder(d, k)
      BY <2>1, <2>2 DEF Kept, InFlight
    <3>2. queued[d][k] # 0
      BY <3>1 DEF IInv, QueuesBacked, Backs, InOrder
    <3>3. queued[d][k] = latest[d][k]
      BY <2>2, <3>2 DEF Current
    <3>4. QED
      BY <1>1, <2>9, <3>3 DEF InFlight
  <2>6. Rising(joined[d], order[d])'
    BY <1>2 DEF Rising
  <2>7. ASSUME NEW q \in Drains, drain'[q].at = d PROVE Batch(d, q)'
    <3>1. q = p
      BY <1>1, <2>1, <2>7
    <3>2. \A k \in Keys : queued[d][k] # 0 =>
            queued[d][k] = latest[d][k] /\ \E i \in 1..Len(order[d]) : order[d][i] = k
      BY <2>2 DEF Current, InOrder
    <3>3. QED
      BY <3>1, <3>2, <1>1, <2>2, <2>9 DEF Batch
  <2>8. QED
    BY <2>3, <2>4, <2>5, <2>6, <2>7 DEF Sound
<1>6. QED
  BY <1>3, <1>4, <1>5

\* What was sent and is not queued anew was the latest.
LEMMA SentSound ==
  ASSUME LInv, NEW p \in Drains, NEW d \in Destinations, Sent(p, d)
  PROVE  JoinedThen' /\ \A e \in Destinations \ tangled' : Sound(e)'
<1> USE DEF LInv
<1>0. DeliveryTypeOK /\ NoDestination \notin Destinations
  BY DeliveryAssumption DEF IInv
<1>1. /\ drain'[p].at = NoDestination /\ drain[p].at = d
      /\ \A q \in Drains : q # p => drain'[q] = drain[q]
      /\ latest' = latest /\ joined' = joined /\ clock' = clock /\ tangled' = tangled
      /\ queued' = queued /\ order' = order
  BY <1>0 DEF Sent, DeliveryTypeOK, Done, Asleep
<1>2. /\ \A k \in Keys : delivered'[d][k] = IF drain[p].load[k] # 0 THEN drain[p].load[k]
                                            ELSE delivered[d][k]
      /\ \A e \in Destinations : e # d => delivered'[e] = delivered[e]
  BY <1>0 DEF Sent, DeliveryTypeOK
<1>3. JoinedThen'
  BY <1>1 DEF JoinedThen
<1>4. ASSUME NEW e \in Destinations \ tangled, e # d PROVE Sound(e)'
  BY <1>0, <1>1, <1>2, <1>4, Untouched
<1>5. ASSUME d \notin tangled PROVE Sound(d)'
  <2>1. Alone(d) /\ Current(d) /\ Kept(d) /\ Rising(joined[d], order[d]) /\ Batch(d, p)
    BY <1>1, <1>5 DEF Sound
  <2>2. \A q \in Drains : drain'[q].at # d
    BY <1>0, <1>1, <2>1 DEF Alone
  <2>3. Alone(d)' /\ Current(d)' /\ Rising(joined[d], order[d])'
    BY <1>1, <2>1, <2>2 DEF Alone, Current, InOrder, Rising
  <2>4. Kept(d)'
    <3> SUFFICES ASSUME NEW k \in Keys, latest[d][k] # 0
                 PROVE  delivered'[d][k] = latest[d][k] \/ InOrder(d, k)
      BY <1>1 DEF Kept, InOrder
    <3>1. CASE drain[p].load[k] # 0
      BY <3>1, <1>2, <2>1 DEF Batch, Current
    <3>2. CASE drain[p].load[k] = 0
      <4>1. ~InFlight(d, k)
        BY <3>2, <1>1, <2>1 DEF InFlight, Alone
      <4>2. QED
        BY <3>2, <4>1, <1>2, <2>1 DEF Kept
    <3>3. QED
      BY <3>1, <3>2
  <2>5. QED
    BY <2>2, <2>3, <2>4 DEF Sound
<1>6. QED
  BY <1>1, <1>3, <1>4, <1>5

\* A failed batch goes back as it left: nothing was queued anew meanwhile.
LEMMA FailedSound ==
  ASSUME LInv, NEW p \in Drains, NEW d \in Destinations, Failed(p, d)
  PROVE  JoinedThen' /\ \A e \in Destinations \ tangled' : Sound(e)'
<1> USE DEF LInv
<1>0. DeliveryTypeOK /\ NoDestination \notin Destinations
  BY DeliveryAssumption DEF IInv
<1>1. /\ drain'[p].at = NoDestination /\ drain[p].at = d
      /\ \A q \in Drains : q # p => drain'[q] = drain[q]
      /\ latest' = latest /\ joined' = joined /\ clock' = clock /\ delivered' = delivered
  BY <1>0 DEF Failed, DeliveryTypeOK, Done, Asleep
<1>2. /\ order'[d] = drain[p].keys /\ queued'[d] = Restored(p, d)
      /\ \A e \in Destinations : e # d => order'[e] = order[e] /\ queued'[e] = queued[e]
  BY <1>0 DEF Failed, DeliveryTypeOK, Requeued
<1>3. JoinedThen'
  BY <1>1 DEF JoinedThen
<1>4. ASSUME NEW e \in Destinations \ tangled', e # d PROVE Sound(e)'
  <2>1. e \notin tangled
    BY <1>4 DEF Failed
  <2>2. QED
    BY <1>0, <1>1, <1>2, <1>4, <2>1, Untouched
<1>5. ASSUME d \notin tangled' PROVE Sound(d)'
  <2>1. d \notin tangled /\ order[d] = <<>>
    BY <1>5 DEF Failed
  <2>2. Alone(d) /\ Current(d) /\ Kept(d) /\ Batch(d, p)
    BY <1>1, <2>1 DEF Sound
  <2>3. \A k \in Keys : ~InOrder(d, k) /\ queued[d][k] = 0
    BY <2>1, <2>2 DEF InOrder, Current
  <2>4. \A k \in Keys : queued'[d][k] = drain[p].load[k]
    BY <1>2, <2>3 DEF Restored
  <2>5. \A k \in Keys : drain[p].load[k] # 0 => InOrder(d, k)' /\ drain[p].load[k] = latest[d][k]
    BY <1>2, <2>2, <2>3 DEF Batch, InOrder
  <2>6. \A q \in Drains : drain'[q].at # d
    BY <1>0, <1>1, <2>2 DEF Alone
  <2>7. Alone(d)' /\ Current(d)' /\ Rising(joined[d], order[d])'
    BY <1>1, <1>2, <2>1, <2>2, <2>4, <2>5, <2>6 DEF Alone, Current, Batch, Rising
  <2>8. Kept(d)'
    <3> SUFFICES ASSUME NEW k \in Keys, latest[d][k] # 0, delivered[d][k] # latest[d][k]
                 PROVE  InOrder(d, k)'
      BY <1>1 DEF Kept
    <3>1. PICK q \in Drains : drain[q].at = d /\ drain[q].load[k] = latest[d][k]
      BY <2>2, <2>3 DEF Kept, InFlight
    <3>2. q = p
      BY <3>1, <1>1, <2>2 DEF Alone
    <3>3. QED
      BY <3>1, <3>2, <2>5
  <2>9. QED
    BY <2>6, <2>7, <2>8 DEF Sound
<1>6. QED
  BY <1>3, <1>4, <1>5

\* The other steps touch neither queues nor batches.
LEMMA RestSound ==
  ASSUME LInv,
         \/ \E p \in Drains : Drain(p) \/ \E d \in Destinations : Skip(p, d)
         \/ \E d \in Destinations : BackoffElapses(d)
         \/ UNCHANGED deliveryVars
  PROVE  JoinedThen' /\ \A e \in Destinations \ tangled' : Sound(e)'
<1> USE DEF LInv
<1>1. DeliveryTypeOK
  BY DEF IInv
<1>2. /\ UNCHANGED <<queued, order, latest, delivered, joined, tangled, clock>>
      /\ \A q \in Drains : /\ drain'[q].at = drain[q].at /\ drain'[q].load = drain[q].load
                           /\ drain'[q].keys = drain[q].keys
  <2>1. ASSUME NEW p \in Drains, NEW S, drain' = [drain EXCEPT ![p].todo = S], NEW q \in Drains
        PROVE  /\ drain'[q].at = drain[q].at /\ drain'[q].load = drain[q].load
               /\ drain'[q].keys = drain[q].keys
    <3>1. drain[q] \in DrainStates
      BY <1>1 DEF DeliveryTypeOK
    <3>2. QED
      BY <2>1, <3>1, <1>1 DEF DeliveryTypeOK, DrainStates
  <2>2. ASSUME NEW p \in Drains, Drain(p) \/ \E d \in Destinations : Skip(p, d)
        PROVE  \E S : drain' = [drain EXCEPT ![p].todo = S]
    BY <2>2 DEF Drain, Skip
  <2>3. QED
    BY <2>1, <2>2 DEF Drain, Skip, BackoffElapses, deliveryVars
<1>3. JoinedThen'
  BY <1>2 DEF JoinedThen
<1>4. QED
  BY <1>2, <1>3, Untouched

\* A step keeps what is said of the destinations that are not tangled.
LEMMA LInvStep == LInv /\ [DeliveryNext]_deliveryVars => LInv'
<1> SUFFICES ASSUME LInv, [DeliveryNext]_deliveryVars PROVE LInv'
  OBVIOUS
<1>1. IInv'
  BY InvStep DEF LInv
<1>2. JoinedThen' /\ \A e \in Destinations \ tangled' : Sound(e)'
  <2>1. ASSUME NEW d \in Destinations, NEW k \in Keys, Enqueue(d, k)
        PROVE  JoinedThen' /\ \A e \in Destinations \ tangled' : Sound(e)'
    BY <2>1, EnqueueSound
  <2>2. ASSUME NEW p \in Drains, NEW d \in Destinations, Take(p, d)
        PROVE  JoinedThen' /\ \A e \in Destinations \ tangled' : Sound(e)'
    BY <2>2, TakeSound
  <2>3. ASSUME NEW p \in Drains, NEW d \in Destinations, Sent(p, d)
        PROVE  JoinedThen' /\ \A e \in Destinations \ tangled' : Sound(e)'
    BY <2>3, SentSound
  <2>4. ASSUME NEW p \in Drains, NEW d \in Destinations, Failed(p, d)
        PROVE  JoinedThen' /\ \A e \in Destinations \ tangled' : Sound(e)'
    BY <2>4, FailedSound
  <2>5. QED
    BY <2>1, <2>2, <2>3, <2>4, RestSound DEF DeliveryNext
<1>3. QED
  BY <1>1, <1>2 DEF LInv

LEMMA LInvInit == DeliveryInit => LInv
<1> SUFFICES ASSUME DeliveryInit PROVE LInv
  OBVIOUS
<1>1. ASSUME NEW d \in Destinations PROVE Sound(d)
  <2>1. /\ queued[d] = Nothing /\ latest[d] = Nothing /\ order[d] = <<>>
        /\ \A p \in Drains : drain[p].at = NoDestination
    BY DEF DeliveryInit, Asleep
  <2>2. Alone(d) /\ \A p \in Drains : drain[p].at # d
    BY <2>1, DeliveryAssumption DEF Alone
  <2>3. Current(d) /\ Kept(d) /\ Rising(joined[d], order[d])
    BY <2>1 DEF Current, Kept, Rising, Nothing
  <2>4. QED
    BY <2>2, <2>3 DEF Sound
<1>2. JoinedThen
  BY DEF DeliveryInit, JoinedThen, Nothing
<1>3. QED
  BY <1>1, <1>2, InitInv DEF LInv

\* On a destination that no overlap has tangled nothing that was enqueued is
\* lost, the latest payload of a key wins, also after its send failed, and the
\* keys wait in the order in which they joined ("an intent is either delivered,
\* or queued for the next drain").
THEOREM NothingIsLost == DeliverySpec => []NoIntentLost
<1>1. LInv => NoIntentLost
  BY DEF LInv, Sound, Kept, Current, Rising, NoIntentLost
<1> QED BY <1>1, LInvInit, LInvStep, PTL DEF DeliverySpec

-----------------------------------------------------------------------------
(* THE PROCESS OF THE BOT.                                                  *)

\* Once a ready event has begun, a guild the bot is in is known, was missed, has
\* its join event on its way, or is still to be ensured by that ready event.
GuildsKept ==
  \A h \in Handlers :
    /\ ready[h].at # "idle" => inside \subseteq docs \cup missed \cup arrivals \cup ready[h].todo
    /\ ready[h].at \notin {"idle", "known"} => ready[h].todo = {}
BootKept ==
  /\ pass.of \subseteq pass.todo \cup routed \cup pass.failed
  /\ ~pass.on => pass.todo = {}
  /\ ~provisioned => pass = NoPass
  /\ synced => commands \/ \E h \in Handlers : ready[h].at = "sync"
  /\ passes = IF provisioned THEN 1 ELSE 0

\* What is about to be sent, tracked or edited is in the operator's language, and
\* a pick under way met no delivery and edits the menu the process knows.
MenuKept ==
  ~drift =>
    /\ \A h \in Handlers :
         /\ ready[h].at = "send" => ready[h].loc = lang
         /\ ready[h].at = "track" => menus[h] = lang
    /\ IF pick.at = "idle" THEN tracked # None => menus[tracked] = lang
       ELSE ~Delivering /\ tracked # None /\ pick.on = tracked
    /\ pick.at = "edit" => pick.loc = lang

LEMMA BotTypedStep ==
  ASSUME BotProcessAssumption, BotTypeOK, [BotNext]_botVars
  PROVE  BotTypeOK'
<1> USE DEF guildVars, bootVars, menuVars, BotTypeOK, Go, Mishap, Steps
<1> DEFINE Rows == [at : Steps, todo : SUBSET Guilds, loc : Locales \cup {None}]
<1>r. ASSUME NEW h \in Handlers, NEW at \in Steps, NEW S \in SUBSET Guilds
      PROVE  /\ [ready EXCEPT ![h].at = at] \in [Handlers -> Rows]
             /\ [ready EXCEPT ![h].at = at, ![h].todo = S] \in [Handlers -> Rows]
  <2> DEFINE row == ready[h]
  <2>0. ready \in [Handlers -> Rows] /\ row \in Rows
    OBVIOUS
  <2>1. [row EXCEPT !.at = at] \in Rows /\ [row EXCEPT !.at = at, !.todo = S] \in Rows
    BY <2>0
  <2>2. /\ [ready EXCEPT ![h].at = at] = [ready EXCEPT ![h] = [ready[h] EXCEPT !.at = at]]
        /\ [ready EXCEPT ![h].at = at, ![h].todo = S]
             = [ready EXCEPT ![h] = [ready[h] EXCEPT !.at = at, !.todo = S]]
    OBVIOUS
  <2> QED BY <2>0, <2>1, <2>2
<1>1. ASSUME NEW g \in Guilds, GuildJoins(g) \/ GuildLeaves(g) \/ OnGuildJoin(g) \/ RouteGuild(g)
      PROVE  BotTypeOK'
  <2>1. CASE GuildJoins(g) BY <2>1 DEF GuildJoins
  <2>2. CASE GuildLeaves(g) BY <2>2 DEF GuildLeaves
  <2>3. CASE OnGuildJoin(g) BY <2>3 DEF OnGuildJoin, Ensured
  <2>4. CASE RouteGuild(g)
    <3> DEFINE P == [on : BOOLEAN, of : SUBSET Guilds, todo : SUBSET Guilds, failed : SUBSET Guilds]
               T == pass.todo \ {g}
               F == pass.failed \cup {g}
    <3>1. pass \in P /\ T \in SUBSET Guilds /\ F \in SUBSET Guilds
      OBVIOUS
    <3>2. [pass EXCEPT !.todo = T] \in P /\ [pass EXCEPT !.todo = T, !.failed = F] \in P
      BY ONLY <3>1
    <3>3. pass' = [pass EXCEPT !.todo = T] \/ pass' = [pass EXCEPT !.todo = T, !.failed = F]
      BY ONLY <2>4 DEF RouteGuild, LeftAfter
    <3>4. pass' \in P
      BY ONLY <3>2, <3>3
    <3>5. routed' = routed \/ routed' = routed \cup {g}
      BY ONLY <2>4 DEF RouteGuild
    <3>6. mishaps' = mishaps \/ mishaps' = mishaps + 1
      BY ONLY <2>4 DEF RouteGuild, Mishap
    <3>7. mishaps' \in Nat /\ routed' \subseteq Guilds
      BY <3>5, <3>6
    <3>8. UNCHANGED <<guildVars, provisioned, synced, commands, passes, menuVars, ready, pick, missed>>
      BY ONLY <2>4 DEF RouteGuild
    <3> QED BY <3>4, <3>7, <3>8
  <2> QED BY <1>1, <2>1, <2>2, <2>3, <2>4
<1>2. ASSUME NEW h \in Handlers, OnReady(h) PROVE BotTypeOK'
  BY <1>2, <1>r DEF OnReady
<1>3. ASSUME NEW h \in Handlers, NEW g \in Guilds, EnsureKnown(h, g) PROVE BotTypeOK'
  BY <1>3 DEF EnsureKnown, Ensured
<1>4. ASSUME NEW h \in Handlers, Announce(h) PROVE BotTypeOK'
  BY <1>4 DEF Announce
<1>5. ASSUME NEW h \in Handlers, SendMenu(h) PROVE BotTypeOK'
  <2>1. ready' \in [Handlers -> Rows]
    <3>1. /\ ready' = [ready EXCEPT ![h].at = "track"] \/ ready' = [ready EXCEPT ![h].at = "start"]
          /\ "track" \in Steps /\ "start" \in Steps
      BY ONLY <1>5 DEF SendMenu, Go, Steps
    <3>2. [ready EXCEPT ![h].at = "track"] \in [Handlers -> Rows]
      BY <1>r, <3>1
    <3>3. [ready EXCEPT ![h].at = "start"] \in [Handlers -> Rows]
      BY <1>r, <3>1
    <3> QED BY ONLY <3>1, <3>2, <3>3
  <2>2. mishaps' \in Nat
    BY <1>5 DEF SendMenu
  <2>3. menus' \in [Handlers -> Locales \cup {None}]
    <3>1. ready[h].loc \in Locales \cup {None}
      OBVIOUS
    <3> QED BY <1>5, <3>1 DEF SendMenu
  <2> QED BY <1>5, <2>1, <2>2, <2>3 DEF SendMenu
<1>6. ASSUME NEW h \in Handlers, TrackMenu(h) PROVE BotTypeOK'
  BY <1>6 DEF TrackMenu
<1>7. ASSUME NEW h \in Handlers, Start(h) PROVE BotTypeOK'
  <2>1. ready' \in [Handlers -> Rows]
    BY <1>7, <1>r DEF Start
  <2>2. CASE Begins
    <3>1. /\ pass' = [on |-> TRUE, of |-> inside, todo |-> inside, failed |-> {}]
          /\ passes' = passes + 1 /\ provisioned' = TRUE
      BY <1>7, <2>2 DEF Start, NoPass
    <3>2. /\ pass' \in [on : BOOLEAN, of : SUBSET Guilds, todo : SUBSET Guilds, failed : SUBSET Guilds]
          /\ passes' \in Nat
      BY <3>1
    <3> QED BY <1>7, <2>1, <3>1, <3>2 DEF Start
  <2>3. CASE ~ Begins
    BY <1>7, <2>1, <2>3 DEF Start
  <2> QED BY <2>2, <2>3
<1>8. ASSUME NEW h \in Handlers, SyncCommands(h) PROVE BotTypeOK'
  <2>1. ready' \in [Handlers -> Rows]
    BY <1>8, <1>r DEF SyncCommands
  <2>2. mishaps' \in Nat
    BY <1>8 DEF SyncCommands
  <2>3. synced' \in BOOLEAN /\ commands' \in BOOLEAN
    BY <1>8 DEF SyncCommands, AfterFailure
  <2> QED BY <1>8, <2>1, <2>2, <2>3 DEF SyncCommands
<1>9. CASE PassEnds
  BY <1>9 DEF PassEnds
<1>10. ASSUME NEW l \in Locales, ObserveLocale(l) \/ PickLanguage(l) PROVE BotTypeOK'
  <2>1. CASE ObserveLocale(l) BY <2>1 DEF ObserveLocale
  <2>2. CASE PickLanguage(l) BY <2>2 DEF PickLanguage, NoPick, Delivering
  <2> QED BY <1>10, <2>1, <2>2
<1>11. CASE PickBuilds
  BY <1>11 DEF PickBuilds, Rendered
<1>12. CASE PickEdits
  <2>1. pick.on \in Handlers \cup {None} /\ pick.loc \in Locales \cup {None}
    OBVIOUS
  <2>2. menus' \in [Handlers -> Locales \cup {None}]
    BY <1>12, <2>1 DEF PickEdits
  <2>3. pick' \in [at : {"idle", "build", "edit"}, on : Handlers \cup {None},
                   loc : Locales \cup {None}]
    BY <1>12 DEF PickEdits, NoPick
  <2>4. mishaps' \in Nat
    BY <1>12 DEF PickEdits
  <2>5. drift' \in BOOLEAN
    BY <1>12 DEF PickEdits
  <2> QED BY <1>12, <2>2, <2>3, <2>4, <2>5 DEF PickEdits
<1>13. CASE UNCHANGED botVars
  BY <1>13 DEF botVars
<1> QED
  BY <1>1, <1>2, <1>3, <1>4, <1>5, <1>6, <1>7, <1>8, <1>9, <1>10, <1>11, <1>12, <1>13 DEF BotNext

LEMMA GuildsKeptStep ==
  ASSUME BotTypeOK, GuildsKept, [BotNext]_botVars
  PROVE  GuildsKept'
<1> USE DEF guildVars, bootVars, menuVars, Go, GuildsKept
<1>t. \A h \in Handlers : ready[h] \in [at : Steps, todo : SUBSET Guilds, loc : Locales \cup {None}]
  BY DEF BotTypeOK
<1>r. DOMAIN ready = Handlers
  BY DEF BotTypeOK
<1>1. ASSUME NEW g \in Guilds, GuildJoins(g) \/ GuildLeaves(g) \/ OnGuildJoin(g) \/ RouteGuild(g)
      PROVE  GuildsKept'
  <2>1. CASE GuildJoins(g) BY <2>1 DEF GuildJoins
  <2>2. CASE GuildLeaves(g) BY <2>2 DEF GuildLeaves
  <2>3. CASE OnGuildJoin(g) BY <2>3 DEF OnGuildJoin, Ensured
  <2>4. CASE RouteGuild(g) BY <2>4 DEF RouteGuild
  <2> QED BY <1>1, <2>1, <2>2, <2>3, <2>4
<1>2. ASSUME NEW h \in Handlers, OnReady(h) PROVE GuildsKept'
  BY <1>2, <1>r, <1>t DEF OnReady
<1>3. ASSUME NEW h \in Handlers, NEW g \in Guilds, EnsureKnown(h, g) PROVE GuildsKept'
  BY <1>3, <1>r, <1>t DEF EnsureKnown, Ensured
<1>4. ASSUME NEW h \in Handlers, ready[h].at # "idle", ready[h].todo = {},
             \E at : Go(h, at) \/ \E l : ready' = [ready EXCEPT ![h].at = at, ![h].loc = l],
             UNCHANGED <<guildVars, missed>>
      PROVE  GuildsKept'
  BY <1>4, <1>r, <1>t
<1>5. ASSUME NEW h \in Handlers,
             Announce(h) \/ SendMenu(h) \/ TrackMenu(h) \/ Start(h) \/ SyncCommands(h)
      PROVE  GuildsKept'
  <2>1. ready[h].at # "idle" /\ ready[h].todo = {} /\ UNCHANGED <<guildVars, missed>>
    BY <1>5 DEF Announce, SendMenu, TrackMenu, Start, SyncCommands
  <2>2. \E at : Go(h, at) \/ \E l : ready' = [ready EXCEPT ![h].at = at, ![h].loc = l]
    BY <1>5 DEF Announce, SendMenu, TrackMenu, Start, SyncCommands
  <2> QED BY <1>4, <2>1, <2>2
<1>6. CASE PassEnds \/ PickBuilds \/ PickEdits \/ UNCHANGED botVars
  BY <1>6 DEF PassEnds, PickBuilds, PickEdits, botVars
<1>7. ASSUME NEW l \in Locales, ObserveLocale(l) \/ PickLanguage(l) PROVE GuildsKept'
  BY <1>7 DEF ObserveLocale, PickLanguage
<1> QED
  BY <1>1, <1>2, <1>3, <1>5, <1>6, <1>7 DEF BotNext

LEMMA BootKeptStep ==
  ASSUME BotTypeOK, BootKept, [BotNext]_botVars
  PROVE  BootKept'
<1> USE DEF guildVars, bootVars, menuVars, Go, BootKept
<1>r. DOMAIN ready = Handlers /\ \A h \in Handlers : "at" \in DOMAIN ready[h]
  BY DEF BotTypeOK
\* A step of a ready event that is not at its sync leaves the others where they are.
<1>1. ASSUME NEW h \in Handlers, ready[h].at # "sync", UNCHANGED bootVars,
             \A k \in Handlers \ {h} : ready'[k] = ready[k]
      PROVE  BootKept'
  BY <1>1
<1>2. ASSUME NEW h \in Handlers,
             OnReady(h) \/ (\E g \in Guilds : EnsureKnown(h, g)) \/ Announce(h) \/ SendMenu(h)
               \/ TrackMenu(h)
      PROVE  BootKept'
  <2>1. ready[h].at # "sync" /\ UNCHANGED bootVars
    BY <1>2 DEF OnReady, EnsureKnown, Announce, SendMenu, TrackMenu
  <2>2. \A k \in Handlers \ {h} : ready'[k] = ready[k]
    BY <1>2, <1>r DEF OnReady, EnsureKnown, Announce, SendMenu, TrackMenu
  <2> QED BY <1>1, <2>1, <2>2
<1>3. ASSUME NEW h \in Handlers, Start(h) PROVE BootKept'
  <2>0. IF provisioned THEN UNCHANGED <<provisioned, pass, passes>>
        ELSE /\ provisioned' = TRUE /\ passes' = passes + 1
             /\ pass'.on = TRUE /\ pass'.of = inside /\ pass'.todo = inside
    BY <1>3 DEF Start, Begins, NoPass
  <2>1. /\ passes' = IF provisioned' THEN 1 ELSE 0
        /\ pass'.of \subseteq pass'.todo \cup routed' \cup pass'.failed
        /\ ~pass'.on => pass'.todo = {}
        /\ ~provisioned' => pass' = NoPass
    BY <1>3, <2>0 DEF Start
  <2>2. CASE synced
    BY <1>3, <1>r, <2>1, <2>2 DEF Start
  <2>3. CASE ~ synced
    <3>1. ready'[h].at = "sync"
      BY <1>3, <1>r, <2>3 DEF Start
    <3> QED BY <2>1, <3>1
  <2> QED BY <2>2, <2>3
<1>4. ASSUME NEW h \in Handlers, SyncCommands(h) PROVE BootKept'
  BY <1>4, <1>r DEF SyncCommands, AfterFailure
<1>5. CASE PickBuilds \/ PickEdits \/ UNCHANGED botVars
           \/ (\E g \in Guilds : GuildJoins(g) \/ GuildLeaves(g) \/ OnGuildJoin(g))
           \/ (\E l \in Locales : ObserveLocale(l) \/ PickLanguage(l))
  <2>1. UNCHANGED <<synced, commands, ready, passes, provisioned, pass, routed>>
    BY <1>5 DEF PickBuilds, PickEdits, GuildJoins, GuildLeaves, OnGuildJoin,
                ObserveLocale, PickLanguage, botVars
  <2> QED BY <2>1
\* The pass: a guild leaves those still to do for those routed or failed for.
<1>p. pass \in [on : BOOLEAN, of : SUBSET Guilds, todo : SUBSET Guilds, failed : SUBSET Guilds]
  BY DEF BotTypeOK
<1>6. ASSUME NEW g \in Guilds, RouteGuild(g) PROVE BootKept'
  <2>1. /\ pass.on /\ pass'.on = pass.on /\ pass'.of = pass.of /\ pass'.todo = pass.todo \ {g}
        /\ UNCHANGED <<synced, commands, ready, passes, provisioned>>
    BY <1>6, <1>p DEF RouteGuild, LeftAfter
  <2>2. \/ pass'.failed = pass.failed /\ routed' = routed \cup {g}
        \/ pass'.failed = pass.failed \cup {g} /\ routed' = routed
    BY <1>6, <1>p DEF RouteGuild
  <2>3. provisioned
    BY <2>1 DEF NoPass
  <2> QED BY <2>1, <2>2, <2>3
<1>7. CASE PassEnds
  <2>1. /\ pass.on /\ pass.todo = {} /\ pass'.of = pass.of /\ pass'.todo = pass.todo
        /\ pass'.failed = pass.failed
        /\ UNCHANGED <<synced, commands, ready, passes, provisioned, routed>>
    BY <1>7, <1>p DEF PassEnds
  <2>2. provisioned
    BY <2>1 DEF NoPass
  <2> QED BY <2>1, <2>2
<1> QED
  BY <1>2, <1>3, <1>4, <1>5, <1>6, <1>7 DEF BotNext

LEMMA MenuKeptStep ==
  ASSUME BotTypeOK, MenuKept, [BotNext]_botVars
  PROVE  MenuKept'
<1> USE DEF guildVars, bootVars, menuVars, Go, Delivering
<1>r. /\ DOMAIN ready = Handlers /\ DOMAIN menus = Handlers
      /\ \A h \in Handlers : {"at", "loc"} \subseteq DOMAIN ready[h]
  BY DEF BotTypeOK
\* A ready event that neither begins nor ends a delivery.
<1>1. ASSUME NEW h \in Handlers, UNCHANGED <<menuVars, pick>>,
             \A k \in Handlers \ {h} : ready'[k] = ready[k], ready'[h].at \notin {"send", "track"}
      PROVE  MenuKept'
  BY <1>1 DEF MenuKept
<1>2. ASSUME NEW h \in Handlers,
             OnReady(h) \/ (\E g \in Guilds : EnsureKnown(h, g)) \/ Start(h) \/ SyncCommands(h)
      PROVE  MenuKept'
  <2>1. UNCHANGED <<menuVars, pick>> /\ \A k \in Handlers \ {h} : ready'[k] = ready[k]
    BY <1>2, <1>r DEF OnReady, EnsureKnown, Start, SyncCommands
  <2>2. ready'[h].at \notin {"send", "track"}
    BY <1>2, <1>r DEF OnReady, EnsureKnown, Start, SyncCommands
  <2> QED BY <1>1, <2>1, <2>2
<1>3. ASSUME NEW h \in Handlers, Announce(h) PROVE MenuKept'
  <2>1. /\ drift' <=> drift \/ pick.at # "idle"
        /\ UNCHANGED <<lang, menus, tracked, pick>>
        /\ \A k \in Handlers \ {h} : ready'[k] = ready[k]
        /\ ready'[h].at = "start" \/ (ready'[h].at = "send" /\ ready'[h].loc = lang)
    BY <1>3, <1>r DEF Announce
  <2> QED BY <2>1 DEF MenuKept
<1>4. ASSUME NEW h \in Handlers, SendMenu(h) PROVE MenuKept'
  <2>1. /\ ready[h].at = "send" /\ UNCHANGED <<lang, tracked, drift, pick>>
        /\ \A k \in Handlers \ {h} : ready'[k] = ready[k] /\ menus'[k] = menus[k]
        /\ \/ ready'[h].at = "track" /\ menus'[h] = ready[h].loc
           \/ ready'[h].at = "start" /\ menus'[h] = menus[h]
    BY <1>4, <1>r DEF SendMenu
  <2> QED BY <2>1 DEF MenuKept, BotTypeOK
<1>5. ASSUME NEW h \in Handlers, TrackMenu(h) PROVE MenuKept'
  <2>1. /\ ready[h].at = "track" /\ UNCHANGED <<lang, menus, drift, pick>> /\ tracked' = h
        /\ \A k \in Handlers \ {h} : ready'[k] = ready[k]
        /\ ready'[h].at = "start"
    BY <1>5, <1>r DEF TrackMenu
  <2> QED BY <2>1 DEF MenuKept
<1>6. ASSUME NEW l \in Locales, ObserveLocale(l) PROVE MenuKept'
  BY <1>6 DEF MenuKept, ObserveLocale
<1>7. ASSUME NEW l \in Locales, PickLanguage(l) PROVE MenuKept'
  <2>1. pick' = IF tracked = None THEN NoPick ELSE [NoPick EXCEPT !.at = "build", !.on = tracked]
    BY <1>7 DEF PickLanguage
  <2>2. IF tracked = None THEN pick'.at = "idle" ELSE pick'.at = "build" /\ pick'.on = tracked
    BY <2>1 DEF NoPick
  <2>3. (drift' <=> Delivering) /\ UNCHANGED <<menus, tracked, ready>>
    BY <1>7 DEF PickLanguage
  <2> QED BY <2>2, <2>3 DEF MenuKept
<1>8. CASE PickBuilds
  <2>1. pick'.at = "edit" /\ pick'.on = pick.on /\ pick'.loc = lang /\ pick.at # "idle"
    BY <1>8 DEF PickBuilds, Rendered, BotTypeOK
  <2> QED BY <1>8, <2>1 DEF PickBuilds, MenuKept
<1>9. CASE PickEdits
  <2>1. pick.at = "edit" /\ pick'.at = "idle" /\ UNCHANGED <<lang, tracked, ready>>
    BY <1>9 DEF PickEdits, NoPick
  <2>2. drift' \/ (drift' = drift /\ menus' = [menus EXCEPT ![pick.on] = pick.loc])
    BY <1>9 DEF PickEdits
  <2> QED BY <1>r, <2>1, <2>2 DEF MenuKept, BotTypeOK
<1>10. CASE PassEnds \/ (\E g \in Guilds : RouteGuild(g)) \/ UNCHANGED botVars
            \/ (\E g \in Guilds : GuildJoins(g) \/ GuildLeaves(g) \/ OnGuildJoin(g))
  <2>1. UNCHANGED <<menuVars, ready, pick>>
    BY <1>10 DEF PassEnds, RouteGuild, GuildJoins, GuildLeaves, OnGuildJoin, botVars
  <2> QED BY <2>1 DEF MenuKept
<1> QED
  BY <1>2, <1>3, <1>4, <1>5, <1>6, <1>7, <1>8, <1>9, <1>10 DEF BotNext

BotInv == BotTypeOK /\ GuildsKept /\ BootKept /\ MenuKept

LEMMA BotInvHolds == BotSpec => []BotInv
<1>1. BotInit => BotInv
  <2> SUFFICES ASSUME BotInit PROVE BotInv
    OBVIOUS
  <2>1. BotTypeOK
    <3>1. /\ inside \subseteq Guilds /\ arrivals \subseteq Guilds /\ docs \subseteq Guilds
          /\ ready \in [Handlers -> [at : Steps, todo : SUBSET Guilds, loc : Locales \cup {None}]]
          /\ pass \in [on : BOOLEAN, of : SUBSET Guilds, todo : SUBSET Guilds, failed : SUBSET Guilds]
          /\ routed \subseteq Guilds
      BY DEF BotInit, Unread, Steps, NoPass
    <3>2. /\ provisioned \in BOOLEAN /\ synced \in BOOLEAN /\ commands \in BOOLEAN
          /\ drift \in BOOLEAN
      BY DEF BotInit
    <3>3. /\ passes \in Nat /\ missed \subseteq Guilds /\ mishaps \in Nat /\ lang \in Locales
          /\ menus \in [Handlers -> Locales \cup {None}] /\ tracked \in Handlers \cup {None}
          /\ pick \in [at : {"idle", "build", "edit"}, on : Handlers \cup {None},
                       loc : Locales \cup {None}]
      BY DEF BotInit, NoPick
    <3> QED BY <3>1, <3>2, <3>3 DEF BotTypeOK
  <2>2. GuildsKept /\ BootKept
    BY DEF BotInit, GuildsKept, BootKept, Unread, NoPass
  <2>3. MenuKept
    BY DEF BotInit, MenuKept, Unread, NoPick
  <2> QED BY <2>1, <2>2, <2>3 DEF BotInv
<1>2. BotInv /\ [BotNext]_botVars => BotInv'
  BY BotProcessAssumption, BotTypedStep, GuildsKeptStep, BootKeptStep, MenuKeptStep DEF BotInv
<1> QED BY <1>1, <1>2, PTL DEF BotSpec

\* The guilds, the flags, the menus and what each ready event holds stay well typed.
THEOREM BotTypeCorrect == BotSpec => []BotTypeOK
<1>1. BotInv => BotTypeOK
  BY DEF BotInv
<1> QED BY <1>1, BotInvHolds, PTL

\* However many ready events there are and however they overlap, at any number of
\* failed calls: one provisioning pass at most, that leaves no guild of its start but one
\* it failed for, commands that Discord holds or that are being synced, no guild without
\* a document but for a failure; and the menu known is in the language that was picked.
THEOREM BotAlwaysSettles == BotSpec => []BotSettles
<1>1. BotInv => BotSettles
  <2> SUFFICES ASSUME BotInv PROVE BotSettles
    OBVIOUS
  <2>1. /\ passes < 2 /\ (synced => commands \/ \E h \in Handlers : ready[h].at = "sync")
        /\ pass.of \subseteq pass.todo \cup routed \cup pass.failed
        /\ ~pass.on => pass.todo = {}
    BY DEF BotInv, BootKept
  <2>2. (\E h \in Handlers : ready[h].at \notin {"idle", "known"}) /\ arrivals = {}
          => inside \subseteq docs \cup missed
    BY DEF BotInv, GuildsKept
  <2>3. MenuFollows
    BY DEF BotInv, MenuKept, MenuFollows
  <2> QED BY <2>1, <2>2, <2>3 DEF BotSettles, Booted
<1> QED BY <1>1, BotInvHolds, PTL


-----------------------------------------------------------------------------
(* The profile panel.                                                      *)

ProfileSteps == {"rest", "form", "owner", "link", "unlink", "user", "resolve", "create", "bind", "rename",
          "accounts", "header", "show"}
TaskRecord ==
  [at : ProfileSteps, kind : {"none", "open", "add", "remove", "rename"}, on : Views \cup {NoView},
   pick : SUBSET (Typed \cup Names \cup {Blank}), seen : SUBSET KnownIds,
   name : Names \cup {Given, NoName}, met : BOOLEAN, wrote : BOOLEAN]
ProfileTypeOK ==
  /\ bound \subseteq KnownIds /\ user \in Names \cup {Given, NoName} /\ known \in BOOLEAN
  /\ views \in [Views -> [accounts : SUBSET KnownIds, name : Names \cup {Given, NoName}] \cup {NoView, Gone}]
  /\ task \in [Tasks -> TaskRecord] /\ outdated \subseteq Views
  /\ saved \in Names \cup {NoName} /\ lapped \in BOOLEAN /\ entered \in Nat /\ failures \in Nat

\* What an interaction holds at each of its steps.
PickOK(r) ==
  /\ r.at \in {"owner", "link", "unlink"} => r.pick \subseteq KnownIds
  /\ r.kind = "remove" => r.pick \subseteq KnownIds
  /\ r.at \in {"user", "resolve", "create", "bind", "rename"} => \E n \in Names \cup {Blank} : r.pick = {n}
  /\ r.kind = "open" => r.on \in Views
  /\ r.wrote => r.at \in {"bind", "rename", "accounts", "header", "show"}
Picks == \A t \in Tasks : PickOK(task[t])
Meetings == \A s, t \in Busy : s # t => task[s].met
\* What one that met no other has read is still stored.
ReadOK(r) ==
  ~r.met => /\ r.at \in {"resolve", "create"} => user = NoName
            /\ r.at \in {"header", "show"} => r.seen = bound
            /\ r.at = "show" => r.name = user
UpToDate ==
  /\ saved # NoName => user # NoName
  /\ \A t \in Busy : ReadOK(task[t])
Redrawn(m) == \E t \in Busy : task[t].on = m /\ (task[t].wrote \/ task[t].at = "unlink")
Following == \A m \in Visible \ outdated : views[m] = [accounts |-> bound, name |-> user] \/ Redrawn(m)
ProfileInv == Picks /\ Meetings /\ UpToDate /\ Following /\ NameKept

LEMMA RecordEdits ==
  ASSUME NEW r \in TaskRecord
  PROVE  /\ \A at \in ProfileSteps : [r EXCEPT !.at = at] \in TaskRecord
         /\ \A at \in ProfileSteps, wrote \in BOOLEAN : [r EXCEPT !.at = at, !.wrote = wrote] \in TaskRecord
         /\ \A at \in ProfileSteps, some \in SUBSET (Typed \cup Names \cup {Blank}) :
              /\ [r EXCEPT !.pick = some] \in TaskRecord
              /\ [r EXCEPT !.at = at, !.pick = some] \in TaskRecord
              /\ [r EXCEPT !.at = at, !.wrote = TRUE, !.pick = some] \in TaskRecord
         /\ \A at \in ProfileSteps, seen \in SUBSET KnownIds : [r EXCEPT !.at = at, !.seen = seen] \in TaskRecord
         /\ \A at \in ProfileSteps, name \in Names \cup {Given, NoName}, met \in BOOLEAN :
              /\ [r EXCEPT !.at = at, !.name = name] \in TaskRecord
              /\ [r EXCEPT !.at = at, !.name = name, !.met = met] \in TaskRecord
         /\ \A on \in Views \cup {NoView} : [r EXCEPT !.on = on] \in TaskRecord
BY DEF TaskRecord

LEMMA TaskEdited ==
  ASSUME task \in [Tasks -> TaskRecord], NEW t \in Tasks, NEW w \in TaskRecord, task' = [task EXCEPT ![t] = w]
  PROVE  task' \in [Tasks -> TaskRecord] /\ task'[t] = w /\ \A s \in Tasks \ {t} : task'[s] = task[s]
OBVIOUS

LEMMA TaskEntered ==
  ASSUME task \in [Tasks -> TaskRecord], NEW t \in Tasks, NEW w \in TaskRecord, Enter(t, w)
  PROVE  /\ task' \in [Tasks -> TaskRecord] /\ task'[t] = [w EXCEPT !.met = (Busy # {})]
         /\ \A s \in Busy \ {t} : task'[s] = [task[s] EXCEPT !.met = TRUE]
         /\ \A s \in Tasks \ (Busy \cup {t}) : task'[s] = task[s]
BY DEF Enter, TaskRecord, Busy

LEMMA RestTyped == Rest \in TaskRecord
BY DEF Rest, TaskRecord, ProfileSteps

\* What each step makes of the interaction that takes it.
Turned(t, w) == w \in TaskRecord /\ task' = [task EXCEPT ![t] = w]

LEMMA TaskTurns ==
  ASSUME ProfileTypeOK, Picks, NEW t \in Tasks
  PROVE  /\ FindOwner(t) => Turned(t, Rest) \/ Turned(t, [task[t] EXCEPT !.at = "link"])
         /\ Link(t) => Turned(t, [task[t] EXCEPT !.at = "accounts", !.wrote = TRUE, !.pick = {}])
         /\ GetUser(t) => Turned(t, [task[t] EXCEPT !.at = IF FoundUser THEN "rename" ELSE "resolve"])
         /\ Resolve(t) => Turned(t, [task[t] EXCEPT !.at = IF known /\ FoundUser THEN "rename" ELSE "create"])
         /\ Create(t) => Turned(t, [task[t] EXCEPT !.at = "bind", !.wrote = TRUE])
         /\ BindIdentity(t) => Turned(t, [task[t] EXCEPT !.at = "rename"])
         /\ SetName(t) => Turned(t, [task[t] EXCEPT !.at = "accounts", !.wrote = TRUE, !.pick = {}])
         /\ RefuseName(t) \/ Fail(t) \/ Show(t) => Turned(t, Rest)
         /\ Expire(t) => Turned(t, [task[t] EXCEPT !.on = NoView])
         /\ ReadAccounts(t) => Turned(t, [task[t] EXCEPT !.at = "header", !.seen = bound])
         /\ ReadHeader(t) => Turned(t, [task[t] EXCEPT !.at = "show", !.name = user])
         /\ HeaderFails(t) => Turned(t, [task[t] EXCEPT !.at = "show", !.name = NoName, !.met = TRUE])
         /\ \A x \in Typed : Unlink(t, x) \/ UnlinkFails(t, x) =>
              \/ Turned(t, [task[t] EXCEPT !.at = "accounts", !.wrote = TRUE, !.pick = {}])
              \/ Turned(t, [task[t] EXCEPT !.pick = @ \ {x}])
         /\ \A m \in Views, kind \in {"add", "remove", "rename"} : OpenForm(t, m, kind) =>
              Turned(t, [Rest EXCEPT !.at = "form", !.kind = kind, !.on = m,
                                     !.pick = IF kind = "remove" THEN bound ELSE {}])
<1>0. task \in [Tasks -> TaskRecord] /\ task[t] \in TaskRecord
  BY DEF ProfileTypeOK
<1>1. FindOwner(t) => Turned(t, Rest) \/ Turned(t, [task[t] EXCEPT !.at = "link"])
  BY <1>0, RecordEdits, RestTyped DEF FindOwner, End, Advance, Turned, ProfileSteps
<1>2. Link(t) \/ SetName(t) => Turned(t, [task[t] EXCEPT !.at = "accounts", !.wrote = TRUE, !.pick = {}])
  BY <1>0, RecordEdits DEF Link, SetName, Wrote, Turned, ProfileSteps
<1>3. GetUser(t) => Turned(t, [task[t] EXCEPT !.at = IF FoundUser THEN "rename" ELSE "resolve"])
  BY <1>0, RecordEdits DEF GetUser, Advance, Turned, ProfileSteps
<1>4. Resolve(t) => Turned(t, [task[t] EXCEPT !.at = IF known /\ FoundUser THEN "rename" ELSE "create"])
  BY <1>0, RecordEdits DEF Resolve, Advance, Turned, ProfileSteps
<1>5. Create(t) => Turned(t, [task[t] EXCEPT !.at = "bind", !.wrote = TRUE])
  BY <1>0, RecordEdits DEF Create, Turned, ProfileSteps
<1>6. BindIdentity(t) => Turned(t, [task[t] EXCEPT !.at = "rename"])
  BY <1>0, RecordEdits DEF BindIdentity, Advance, Turned, ProfileSteps
<1>7. RefuseName(t) \/ Fail(t) \/ Show(t) => Turned(t, Rest)
  BY <1>0, RestTyped DEF RefuseName, Fail, Refused, Show, End, Turned
<1>8. Expire(t) => Turned(t, [task[t] EXCEPT !.on = NoView])
  BY <1>0, RecordEdits DEF Expire, Turned
<1>9. ReadAccounts(t) => Turned(t, [task[t] EXCEPT !.at = "header", !.seen = bound])
  BY <1>0, RecordEdits DEF ReadAccounts, Turned, ProfileSteps, ProfileTypeOK
<1>10. ReadHeader(t) => Turned(t, [task[t] EXCEPT !.at = "show", !.name = user])
  BY <1>0, RecordEdits DEF ReadHeader, Turned, ProfileSteps, ProfileTypeOK
<1>11. HeaderFails(t) => Turned(t, [task[t] EXCEPT !.at = "show", !.name = NoName, !.met = TRUE])
  BY <1>0, RecordEdits DEF HeaderFails, Turned, ProfileSteps
<1>12. ASSUME NEW x \in Typed, Unlink(t, x) \/ UnlinkFails(t, x)
       PROVE  \/ Turned(t, [task[t] EXCEPT !.at = "accounts", !.wrote = TRUE, !.pick = {}])
              \/ Turned(t, [task[t] EXCEPT !.pick = @ \ {x}])
  <2>1. task[t].pick \ {x} \in SUBSET (Typed \cup Names \cup {Blank})
    BY <1>0 DEF TaskRecord
  <2>2. Ticked(t, x)
    BY <1>12 DEF Unlink, UnlinkFails
  <2>3. CASE task[t].pick \ {x} = {}
    BY <1>0, <2>2, <2>3, RecordEdits DEF Ticked, Wrote, Turned, ProfileSteps
  <2>4. CASE task[t].pick \ {x} # {}
    <3>1. [task[t] EXCEPT !.pick = task[t].pick \ {x}] \in TaskRecord
      BY <1>0, <2>1, RecordEdits DEF ProfileSteps
    <3>2. task' = [task EXCEPT ![t] = [task[t] EXCEPT !.pick = task[t].pick \ {x}]]
      BY <1>0, <2>2, <2>4 DEF Ticked
    <3> QED BY <3>1, <3>2 DEF Turned
  <2> QED BY <2>3, <2>4
<1>13. ASSUME NEW m \in Views, NEW kind \in {"add", "remove", "rename"}, OpenForm(t, m, kind)
       PROVE  Turned(t, [Rest EXCEPT !.at = "form", !.kind = kind, !.on = m,
                                     !.pick = IF kind = "remove" THEN bound ELSE {}])
  <2>1. bound \in SUBSET Typed
    BY ProfilePanelAssumption DEF ProfileTypeOK
  <2> QED BY <1>13, <2>1 DEF OpenForm, Turned, TaskRecord, Rest, ProfileSteps
<1> QED
  BY <1>1, <1>2, <1>3, <1>4, <1>5, <1>6, <1>7, <1>8, <1>9, <1>10, <1>11, <1>12, <1>13

\* An interaction that sets out: it and those under way have met.
LEMMA TaskEnters ==
  ASSUME ProfileTypeOK, Picks, NEW t \in Tasks
  PROVE  /\ \A m \in Views : OpenView(t, m) =>
              LET w == [Rest EXCEPT !.at = "accounts", !.kind = "open", !.on = m] IN
                w \in TaskRecord /\ Enter(t, w)
         /\ \A x \in Typed : SubmitAdd(t, x) =>
              \/ Turned(t, Rest)
              \/ LET w == [task[t] EXCEPT !.at = "owner", !.pick = {Canonical(x)}] IN
                   w \in TaskRecord /\ Enter(t, w) /\ Canonical(x) \in KnownIds
         /\ \A chosen \in SUBSET KnownIds : SubmitRemove(t, chosen) =>
              LET w == [task[t] EXCEPT !.at = "unlink", !.pick = chosen] IN
                w \in TaskRecord /\ Enter(t, w)
         /\ \A n \in Names \cup {Blank} : SubmitRename(t, n) =>
              LET w == [task[t] EXCEPT !.at = "user", !.pick = {n}] IN
                w \in TaskRecord /\ Enter(t, w)
<1>0. task \in [Tasks -> TaskRecord] /\ task[t] \in TaskRecord
  BY DEF ProfileTypeOK
<1>1. ASSUME NEW m \in Views PROVE [Rest EXCEPT !.at = "accounts", !.kind = "open", !.on = m] \in TaskRecord
  BY DEF Rest, TaskRecord, ProfileSteps
<1>2. ASSUME NEW x \in Typed, SubmitAdd(t, x), Canonical(x) \in KnownIds
      PROVE  LET w == [task[t] EXCEPT !.at = "owner", !.pick = {Canonical(x)}] IN
               w \in TaskRecord /\ Enter(t, w)
  <2>1. {Canonical(x)} \in SUBSET (Typed \cup Names \cup {Blank}) /\ "owner" \in ProfileSteps
    BY <1>2, ProfilePanelAssumption DEF ProfileSteps
  <2>2. [task[t] EXCEPT !.at = "owner", !.pick = {Canonical(x)}] \in TaskRecord
    BY <1>0, <2>1, RecordEdits
  <2> QED BY <1>2, <2>2 DEF SubmitAdd
<1>3. ASSUME NEW x \in Typed, SubmitAdd(t, x), Canonical(x) \notin KnownIds PROVE Turned(t, Rest)
  BY <1>0, <1>3, RestTyped DEF SubmitAdd, End, Turned
<1>4. ASSUME NEW chosen \in SUBSET KnownIds, SubmitRemove(t, chosen)
      PROVE  LET w == [task[t] EXCEPT !.at = "unlink", !.pick = chosen] IN w \in TaskRecord /\ Enter(t, w)
  <2>1. chosen \in SUBSET (Typed \cup Names \cup {Blank})
    BY ProfilePanelAssumption
  <2>2. [task[t] EXCEPT !.at = "unlink", !.pick = chosen] \in TaskRecord
    BY <1>0, <2>1, RecordEdits DEF ProfileSteps
  <2> QED BY <1>4, <2>2 DEF SubmitRemove
<1>5. ASSUME NEW n \in Names \cup {Blank}, SubmitRename(t, n)
      PROVE  LET w == [task[t] EXCEPT !.at = "user", !.pick = {n}] IN w \in TaskRecord /\ Enter(t, w)
  <2>1. {n} \in SUBSET (Typed \cup Names \cup {Blank}) /\ "user" \in ProfileSteps
    BY DEF ProfileSteps
  <2>2. [task[t] EXCEPT !.at = "user", !.pick = {n}] \in TaskRecord
    BY <1>0, <2>1, RecordEdits
  <2> QED BY <1>5, <2>2 DEF SubmitRename
<1> QED
  BY <1>1, <1>2, <1>3, <1>4, <1>5 DEF OpenView

LEMMA ProfileTypeInit == ProfileInit => ProfileTypeOK
<1> SUFFICES ASSUME ProfileInit PROVE ProfileTypeOK
  OBVIOUS
<1>1. task \in [Tasks -> TaskRecord]
  BY RestTyped DEF ProfileInit
<1>2. views \in [Views -> [accounts : SUBSET KnownIds, name : Names \cup {Given, NoName}] \cup {NoView, Gone}]
  BY DEF ProfileInit
<1> QED BY <1>1, <1>2 DEF ProfileInit, ProfileTypeOK

LEMMA TasksTyped ==
  ASSUME ProfileTypeOK, Picks, [ProfileNext]_profileVars
  PROVE  task' \in [Tasks -> TaskRecord]
<1>0. task \in [Tasks -> TaskRecord]
  BY DEF ProfileTypeOK
<1>1. ASSUME NEW t \in Tasks, \E w : Turned(t, w) PROVE task' \in [Tasks -> TaskRecord]
  BY <1>0, <1>1 DEF Turned
<1>2. ASSUME NEW t \in Tasks, \E w \in TaskRecord : Enter(t, w) PROVE task' \in [Tasks -> TaskRecord]
  BY <1>0, <1>2, TaskEntered
<1>3. ASSUME NEW t \in Tasks, \E m \in Views : OpenView(t, m) PROVE task' \in [Tasks -> TaskRecord]
  BY <1>2, <1>3, TaskEnters
<1>4. ASSUME NEW t \in Tasks, NEW m \in Views, NEW kind \in {"add", "remove", "rename"}, OpenForm(t, m, kind)
      PROVE  task' \in [Tasks -> TaskRecord]
  BY <1>1, <1>4, TaskTurns
<1>5. ASSUME NEW t \in Tasks, NEW x \in Typed, SubmitAdd(t, x) PROVE task' \in [Tasks -> TaskRecord]
  BY <1>1, <1>2, <1>5, TaskEnters
<1>6. ASSUME NEW t \in Tasks, NEW x \in Typed, Unlink(t, x) \/ UnlinkFails(t, x)
      PROVE  task' \in [Tasks -> TaskRecord]
  BY <1>1, <1>6, TaskTurns
<1>7. ASSUME NEW t \in Tasks, NEW chosen \in SUBSET KnownIds, SubmitRemove(t, chosen)
      PROVE  task' \in [Tasks -> TaskRecord]
  BY <1>2, <1>7, TaskEnters
<1>8. ASSUME NEW t \in Tasks, NEW n \in Names \cup {Blank}, SubmitRename(t, n)
      PROVE  task' \in [Tasks -> TaskRecord]
  BY <1>2, <1>8, TaskEnters
<1>9. ASSUME NEW t \in Tasks,
             \/ FindOwner(t) \/ Link(t) \/ GetUser(t) \/ Resolve(t) \/ Create(t) \/ BindIdentity(t)
             \/ SetName(t) \/ RefuseName(t) \/ Fail(t) \/ Expire(t)
             \/ ReadAccounts(t) \/ ReadHeader(t) \/ HeaderFails(t) \/ Show(t)
      PROVE  task' \in [Tasks -> TaskRecord]
  BY <1>1, <1>9, TaskTurns
<1>10. CASE UNCHANGED profileVars \/ \E m \in Views : Dismiss(m)
  BY <1>0, <1>10 DEF profileVars, Dismiss
<1> QED
  BY <1>3, <1>4, <1>5, <1>6, <1>7, <1>8, <1>9, <1>10 DEF ProfileNext

LEMMA ProfileTypeStep ==
  ASSUME ProfileTypeOK, Picks, [ProfileNext]_profileVars
  PROVE  ProfileTypeOK'
<1> USE DEF stored
<1>0. /\ task' \in [Tasks -> TaskRecord]
      /\ \A t \in Tasks : task[t].on \in Views \cup {NoView} /\ task[t].seen \subseteq KnownIds
                       /\ task[t].name \in Names \cup {Given, NoName}
  BY TasksTyped DEF ProfileTypeOK, TaskRecord
<1>1. ASSUME NEW t \in Tasks PROVE Edited(t) \subseteq Views /\ (Drawn(t) => task[t].on \in Views)
  BY <1>0 DEF Edited, Drawn, Picks, PickOK, Visible
<1>2. bound' \subseteq KnownIds
  <2>1. ASSUME NEW t \in Tasks, Link(t) PROVE bound' \subseteq KnownIds
    BY <2>1 DEF Link, Picks, PickOK, ProfileTypeOK
  <2>2. ASSUME NEW t \in Tasks, NEW x \in Typed, Unlink(t, x) PROVE bound' \subseteq KnownIds
    BY <2>2 DEF Unlink, ProfileTypeOK
  <2>3. (\E t \in Tasks : Link(t) \/ \E x \in Typed : Unlink(t, x)) \/ bound' = bound
    BY DEF ProfileNext, profileVars, Dismiss, OpenView, OpenForm, SubmitAdd, Submits, UnlinkFails, SubmitRemove,
           SubmitRename, FindOwner, GetUser, Resolve, Create, BindIdentity, SetName, RefuseName, Fail, Refused,
           Expire, ReadAccounts, ReadHeader, HeaderFails, Show
  <2> QED BY <2>1, <2>2, <2>3 DEF ProfileTypeOK
<1>3. user' \in Names \cup {Given, NoName} /\ saved' \in Names \cup {NoName} /\ known' \in BOOLEAN
      /\ lapped' \in BOOLEAN
  <2>1. ASSUME NEW t \in Tasks, SetName(t)
        PROVE  user' \in Names /\ saved' \in Names /\ UNCHANGED <<known, lapped>>
    BY <2>1 DEF SetName, Picks, PickOK
  <2>2. ASSUME NEW t \in Tasks, Create(t)
        PROVE  user' = Given /\ lapped' \in BOOLEAN /\ UNCHANGED <<known, saved>>
    BY <2>2 DEF Create, ProfileTypeOK, TaskRecord
  <2>3. ASSUME NEW t \in Tasks, BindIdentity(t) PROVE known' = TRUE /\ UNCHANGED <<user, saved, lapped>>
    BY <2>3 DEF BindIdentity
  <2>4. ASSUME NEW t \in Tasks,
               \/ FindOwner(t) \/ Link(t) \/ GetUser(t) \/ Resolve(t) \/ RefuseName(t) \/ Fail(t)
               \/ Expire(t) \/ ReadAccounts(t) \/ ReadHeader(t) \/ HeaderFails(t) \/ Show(t)
        PROVE  UNCHANGED <<user, saved, known, lapped>>
    BY <2>4 DEF FindOwner, Link, GetUser, Resolve, RefuseName, Fail, Refused, Expire, ReadAccounts, ReadHeader,
                HeaderFails, Show
  <2>5. (\E t \in Tasks : SetName(t) \/ Create(t) \/ BindIdentity(t)) \/ UNCHANGED <<user, saved, known, lapped>>
    <3>1. ASSUME NEW m \in Views, Dismiss(m) PROVE UNCHANGED <<user, saved, known, lapped>>
      BY <3>1 DEF Dismiss
    <3>2. CASE UNCHANGED profileVars
      BY <3>2 DEF profileVars
    <3>3. ASSUME NEW t \in Tasks, NEW m \in Views,
                 OpenView(t, m) \/ \E kind \in {"add", "remove", "rename"} : OpenForm(t, m, kind)
          PROVE  UNCHANGED <<user, saved, known, lapped>>
      BY <3>3 DEF OpenView, OpenForm
    <3>4. ASSUME NEW t \in Tasks,
                 \/ \E x \in Typed : SubmitAdd(t, x) \/ Unlink(t, x) \/ UnlinkFails(t, x)
                 \/ \E chosen \in SUBSET KnownIds : SubmitRemove(t, chosen)
                 \/ \E n \in Names \cup {Blank} : SubmitRename(t, n)
          PROVE  UNCHANGED <<user, saved, known, lapped>>
      BY <3>4 DEF SubmitAdd, Submits, Unlink, UnlinkFails, SubmitRemove, SubmitRename
    <3> QED BY <2>4, <3>1, <3>2, <3>3, <3>4 DEF ProfileNext
  <2> QED BY <2>1, <2>2, <2>3, <2>5 DEF ProfileTypeOK
<1>4. ASSUME NEW t \in Tasks, Show(t) PROVE ProfileTypeOK'
  <2>1. /\ views' \in [Views -> [accounts : SUBSET KnownIds, name : Names \cup {Given, NoName}]
                                 \cup {NoView, Gone}]
        /\ outdated' \subseteq Views
    BY <1>0, <1>1, <1>4 DEF Show, ProfileTypeOK
  <2> QED BY <1>0, <1>2, <1>3, <1>4, <2>1 DEF Show, ProfileTypeOK
<1>5. ASSUME views' \in {views} \cup {[views EXCEPT ![m] = Gone] : m \in Views},
             \/ \E t \in Tasks : \/ outdated' = outdated \cup (Visible \ Edited(t))
                                 \/ outdated' = outdated \cup {task[t].on} /\ task[t].on \in Views
                                 \/ outdated' = outdated \cup Edited(t)
             \/ outdated' = outdated,
             entered' \in {entered, entered + 1}, failures' \in {failures, failures + 1}
      PROVE  ProfileTypeOK'
  <2>1. views' \in [Views -> [accounts : SUBSET KnownIds, name : Names \cup {Given, NoName}] \cup {NoView, Gone}]
    BY <1>5 DEF ProfileTypeOK
  <2>2. outdated' \subseteq Views
    BY <1>1, <1>5 DEF Visible, ProfileTypeOK
  <2> QED BY <1>0, <1>2, <1>3, <1>5, <2>1, <2>2 DEF ProfileTypeOK
<1>6. ASSUME NEW t \in Tasks,
             \/ FindOwner(t) \/ GetUser(t) \/ Resolve(t) \/ BindIdentity(t) \/ ReadAccounts(t) \/ ReadHeader(t)
             \/ (\E m \in Views : OpenView(t, m) \/ \E kind \in {"add", "remove", "rename"} : OpenForm(t, m, kind))
      PROVE  ProfileTypeOK'
  <2>1. UNCHANGED <<views, outdated, entered, failures>>
    BY <1>6 DEF FindOwner, GetUser, Resolve, BindIdentity, ReadAccounts, ReadHeader, OpenView, OpenForm
  <2> QED BY <1>5, <2>1
<1>7. ASSUME NEW t \in Tasks,
             \/ (\E x \in Typed : SubmitAdd(t, x)) \/ (\E chosen \in SUBSET KnownIds : SubmitRemove(t, chosen))
             \/ (\E n \in Names \cup {Blank} : SubmitRename(t, n))
      PROVE  ProfileTypeOK'
  <2>1. UNCHANGED <<views, outdated, failures>> /\ entered' = entered + 1
    BY <1>7 DEF SubmitAdd, SubmitRemove, SubmitRename, Submits
  <2> QED BY <1>5, <2>1
<1>8. ASSUME NEW t \in Tasks, Link(t) \/ Create(t) \/ SetName(t) \/ \E x \in Typed : Unlink(t, x)
      PROVE  ProfileTypeOK'
  <2>1. UNCHANGED <<views, entered, failures>> /\ outdated' \in {outdated, outdated \cup (Visible \ Edited(t))}
    BY <1>8 DEF Link, Create, SetName, Unlink, Writes
  <2> QED BY <1>5, <2>1
<1>9. ASSUME NEW t \in Tasks, (\E x \in Typed : UnlinkFails(t, x)) \/ RefuseName(t) \/ Fail(t) \/ HeaderFails(t)
      PROVE  ProfileTypeOK'
  <2>1. UNCHANGED <<views, entered>> /\ failures' \in {failures, failures + 1}
    BY <1>9 DEF UnlinkFails, RefuseName, Fail, HeaderFails, Refused, Failure
  <2>2. outdated' = outdated \/ outdated' = outdated \cup Edited(t)
    BY <1>9 DEF UnlinkFails, RefuseName, Fail, HeaderFails, Refused
  <2> QED BY <1>5, <2>1, <2>2
<1>10. ASSUME NEW t \in Tasks, Expire(t) PROVE ProfileTypeOK'
  <2>1. UNCHANGED <<views, entered>> /\ failures' = failures + 1 /\ outdated' = outdated \cup {task[t].on}
    BY <1>10 DEF Expire, Failure
  <2>2. task[t].on \in Views
    BY <1>0, <1>10 DEF Expire
  <2> QED BY <1>5, <2>1, <2>2
<1>11. ASSUME NEW m \in Views, Dismiss(m) PROVE ProfileTypeOK'
  BY <1>5, <1>11 DEF Dismiss
<1>12. CASE UNCHANGED profileVars
  BY <1>5, <1>12 DEF profileVars
<1> QED
  BY <1>4, <1>6, <1>7, <1>8, <1>9, <1>10, <1>11, <1>12 DEF ProfileNext

Standing == {"rest", "form"}

LEMMA PicksStep ==
  ASSUME ProfileTypeOK, Picks, [ProfileNext]_profileVars
  PROVE  Picks'
<1>0. /\ \A t \in Tasks : task[t] \in TaskRecord /\ PickOK(task[t])
      /\ DOMAIN task = Tasks /\ bound \subseteq KnownIds
  BY DEF ProfileTypeOK, Picks
<1>1. ASSUME NEW t \in Tasks, NEW w, Turned(t, w), PickOK(w) PROVE Picks'
  BY <1>0, <1>1 DEF Turned, Picks, PickOK
<1>2. ASSUME NEW t \in Tasks, NEW w \in TaskRecord, Enter(t, w), PickOK(w) PROVE Picks'
  BY <1>0, <1>2 DEF Enter, Picks, PickOK, TaskRecord
<1>3. ASSUME NEW t \in Tasks, NEW m \in Views, OpenView(t, m) PROVE Picks'
  <2> DEFINE w == [Rest EXCEPT !.at = "accounts", !.kind = "open", !.on = m]
  <2>1. PickOK(w)
    BY DEF PickOK, Rest
  <2> QED BY <1>2, <1>3, <2>1, TaskEnters
<1>4. ASSUME NEW t \in Tasks, NEW m \in Views, NEW kind \in {"add", "remove", "rename"}, OpenForm(t, m, kind)
      PROVE  Picks'
  <2> DEFINE w == [Rest EXCEPT !.at = "form", !.kind = kind, !.on = m,
                               !.pick = IF kind = "remove" THEN bound ELSE {}]
  <2>1. PickOK(w)
    BY <1>0 DEF PickOK, Rest
  <2>2. Turned(t, w)
    BY <1>4, TaskTurns
  <2> HIDE DEF w
  <2> QED BY <1>1, <2>1, <2>2
<1>r. PickOK(Rest)
  BY DEF PickOK, Rest
<1>5. ASSUME NEW t \in Tasks, NEW x \in Typed, SubmitAdd(t, x) PROVE Picks'
  <2>1. task[t].at = "form" /\ task[t].kind = "add" /\ ~ task[t].wrote
    BY <1>0, <1>5 DEF SubmitAdd, Submits, PickOK, TaskRecord
  <2> DEFINE w == [task[t] EXCEPT !.at = "owner", !.pick = {Canonical(x)}]
  <2>2. Canonical(x) \in KnownIds => PickOK(w)
    BY <1>0, <2>1 DEF PickOK, TaskRecord
  <2> QED BY <1>1, <1>2, <1>5, <1>r, <2>2, TaskEnters
<1>6. ASSUME NEW t \in Tasks, NEW chosen \in SUBSET KnownIds, SubmitRemove(t, chosen) PROVE Picks'
  <2>1. task[t].at = "form" /\ task[t].kind = "remove" /\ ~ task[t].wrote
    BY <1>0, <1>6 DEF SubmitRemove, Submits, PickOK, TaskRecord
  <2> DEFINE w == [task[t] EXCEPT !.at = "unlink", !.pick = chosen]
  <2>2. PickOK(w)
    BY <1>0, <2>1 DEF PickOK, TaskRecord
  <2> QED BY <1>2, <1>6, <2>2, TaskEnters
<1>7. ASSUME NEW t \in Tasks, NEW n \in Names \cup {Blank}, SubmitRename(t, n) PROVE Picks'
  <2>1. task[t].at = "form" /\ task[t].kind = "rename" /\ ~ task[t].wrote
    BY <1>0, <1>7 DEF SubmitRename, Submits, PickOK, TaskRecord
  <2> DEFINE w == [task[t] EXCEPT !.at = "user", !.pick = {n}]
  <2>2. PickOK(w)
    BY <1>0, <2>1 DEF PickOK, TaskRecord
  <2> QED BY <1>2, <1>7, <2>2, TaskEnters
<1>8. ASSUME NEW t \in Tasks, NEW x \in Typed, Unlink(t, x) \/ UnlinkFails(t, x) PROVE Picks'
  <2>1. task[t].at = "unlink"
    BY <1>8 DEF Unlink, UnlinkFails
  <2>2. /\ PickOK([task[t] EXCEPT !.at = "accounts", !.wrote = TRUE, !.pick = {}])
        /\ PickOK([task[t] EXCEPT !.pick = task[t].pick \ {x}])
    BY <1>0, <2>1 DEF PickOK, TaskRecord
  <2> QED BY <1>1, <1>8, <2>2, TaskTurns
<1>9. ASSUME NEW t \in Tasks, Link(t) \/ SetName(t) \/ Create(t) \/ BindIdentity(t) PROVE Picks'
  <2>1. Link(t) \/ SetName(t) => PickOK([task[t] EXCEPT !.at = "accounts", !.wrote = TRUE, !.pick = {}])
    BY <1>0 DEF PickOK, TaskRecord
  <2>2. Create(t) => PickOK([task[t] EXCEPT !.at = "bind", !.wrote = TRUE])
    BY <1>0 DEF PickOK, TaskRecord, Create
  <2>3. BindIdentity(t) => PickOK([task[t] EXCEPT !.at = "rename"])
    BY <1>0 DEF PickOK, TaskRecord, BindIdentity
  <2> QED BY <1>1, <1>9, <2>1, <2>2, <2>3, TaskTurns
<1>10. ASSUME NEW t \in Tasks, FindOwner(t) \/ GetUser(t) \/ Resolve(t) PROVE Picks'
  <2>1. FindOwner(t) => PickOK([task[t] EXCEPT !.at = "link"])
    BY <1>0 DEF PickOK, TaskRecord, FindOwner
  <2>2. GetUser(t) => PickOK([task[t] EXCEPT !.at = IF FoundUser THEN "rename" ELSE "resolve"])
    BY <1>0 DEF PickOK, TaskRecord, GetUser
  <2>3. Resolve(t) => PickOK([task[t] EXCEPT !.at = IF known /\ FoundUser THEN "rename" ELSE "create"])
    BY <1>0 DEF PickOK, TaskRecord, Resolve
  <2> QED BY <1>1, <1>10, <1>r, <2>1, <2>2, <2>3, TaskTurns
<1>11. ASSUME NEW t \in Tasks, RefuseName(t) \/ Fail(t) \/ Show(t) PROVE Picks'
  BY <1>1, <1>11, <1>r, TaskTurns
<1>12. ASSUME NEW t \in Tasks, Expire(t) PROVE Picks'
  <2>1. PickOK([task[t] EXCEPT !.on = NoView])
    BY <1>0, <1>12 DEF PickOK, TaskRecord, Expire
  <2> QED BY <1>1, <1>12, <2>1, TaskTurns
<1>13. ASSUME NEW t \in Tasks, ReadAccounts(t) \/ ReadHeader(t) \/ HeaderFails(t) PROVE Picks'
  <2>1. /\ ReadAccounts(t) => PickOK([task[t] EXCEPT !.at = "header", !.seen = bound])
        /\ ReadHeader(t) => PickOK([task[t] EXCEPT !.at = "show", !.name = user])
        /\ HeaderFails(t) => PickOK([task[t] EXCEPT !.at = "show", !.name = NoName, !.met = TRUE])
    BY <1>0 DEF PickOK, TaskRecord, ReadAccounts, ReadHeader, HeaderFails
  <2> QED BY <1>1, <1>13, <2>1, TaskTurns
<1>14. CASE UNCHANGED profileVars \/ \E m \in Views : Dismiss(m)
  BY <1>14 DEF profileVars, Dismiss, Picks, PickOK
<1> QED
  BY <1>3, <1>4, <1>5, <1>6, <1>7, <1>8, <1>9, <1>10, <1>11, <1>12, <1>13, <1>14 DEF ProfileNext

\* Those under way after a step, and what they were.
LEMMA BusyTurned ==
  ASSUME ProfileTypeOK, NEW t \in Tasks, NEW w, Turned(t, w)
  PROVE  /\ task'[t] = w /\ w \in TaskRecord
         /\ \A s \in Tasks \ {t} : task'[s] = task[s] /\ (s \in Busy' <=> s \in Busy)
         /\ t \in Busy' <=> w.at \notin Standing
BY DEF Turned, ProfileTypeOK, Busy, Standing

LEMMA MetRecord ==
  ASSUME NEW r \in TaskRecord, NEW b \in BOOLEAN
  PROVE  LET w == [r EXCEPT !.met = b] IN
           w.met = b /\ w.at = r.at /\ w.on = r.on /\ w.wrote = r.wrote /\ w.seen = r.seen /\ w.name = r.name
BY DEF TaskRecord

LEMMA BusyEntered ==
  ASSUME ProfileTypeOK, NEW t \in Tasks, NEW w \in TaskRecord, Enter(t, w)
  PROVE  /\ \A s \in Busy' \ {t} : s \in Busy /\ task'[s].met
         /\ \A s \in Busy \ {t} : s \in Busy' /\ task'[s].on = task[s].on /\ task'[s].at = task[s].at
                              /\ task'[s].wrote = task[s].wrote
         /\ task'[t].met = (Busy # {}) /\ task'[t].at = w.at /\ task'[t].on = w.on /\ task'[t].wrote = w.wrote
<1>0. task \in [Tasks -> TaskRecord] /\ Busy \subseteq Tasks
  BY DEF ProfileTypeOK, Busy
<1>1. task'[t] = [w EXCEPT !.met = (Busy # {})]
  BY DEF Enter
<1>2. (Busy # {}) \in BOOLEAN
  OBVIOUS
<1>3. task'[t].met = (Busy # {}) /\ task'[t].at = w.at /\ task'[t].on = w.on /\ task'[t].wrote = w.wrote
  <2> DEFINE b == Busy # {}
  <2>1. b \in BOOLEAN /\ task'[t] = [w EXCEPT !.met = b]
    BY <1>1, <1>2
  <2> HIDE DEF b
  <2>2. task'[t].met = b /\ task'[t].at = w.at /\ task'[t].on = w.on /\ task'[t].wrote = w.wrote
    BY <2>1, MetRecord
  <2> QED BY <2>2 DEF b
<1>4. ASSUME NEW s \in Busy \ {t}
      PROVE  /\ task'[s].met /\ task'[s].on = task[s].on /\ task'[s].at = task[s].at
             /\ task'[s].wrote = task[s].wrote
  <2>1. task'[s] = [task[s] EXCEPT !.met = TRUE] /\ task[s] \in TaskRecord
    BY <1>0 DEF Enter
  <2> QED BY <2>1, MetRecord
<1>5. ASSUME NEW s \in Tasks \ {t}, s \notin Busy PROVE task'[s] = task[s]
  BY <1>5 DEF Enter
<1>6. ASSUME NEW s \in Tasks \ {t} PROVE s \in Busy' <=> s \in Busy
  BY <1>4, <1>5, <1>6 DEF Busy
<1> QED
  BY <1>3, <1>4, <1>6 DEF Busy

\* Each step ends an interaction, leaves it where it stands, or is the next one of
\* an interaction under way, or makes one set out.
LEMMA ProfileMoves ==
  ASSUME ProfileTypeOK, Picks, ProfileNext
  PROVE  \/ \E t \in Tasks : \E w : Turned(t, w) /\ w.at \in Standing
         \/ \E t \in Busy : \E w : Turned(t, w) /\ (task[t].met => w.met)
         \/ \E t \in Tasks \ Busy : \E w \in TaskRecord : Enter(t, w) /\ w.at \in {"accounts", "owner", "unlink", "user"}
         \/ UNCHANGED task
<1>0. ProfileTypeOK /\ Picks /\ \A t \in Tasks : task[t] \in TaskRecord
  BY DEF ProfileTypeOK
<1> DEFINE Goal == \/ \E t \in Tasks : \E w : Turned(t, w) /\ w.at \in Standing
                   \/ \E t \in Busy : \E w : Turned(t, w) /\ (task[t].met => w.met)
                   \/ \E t \in Tasks \ Busy : \E w \in TaskRecord : Enter(t, w) /\ w.at \in {"accounts", "owner", "unlink", "user"}
                   \/ UNCHANGED task
<1>r. Rest.at \in Standing
  BY DEF Rest, Standing
<1>1. ASSUME NEW t \in Tasks, NEW m \in Views, OpenView(t, m) PROVE Goal
  <2> DEFINE w == [Rest EXCEPT !.at = "accounts", !.kind = "open", !.on = m]
  <2>1. t \notin Busy /\ w.at = "accounts"
    BY <1>1 DEF OpenView, Busy, Rest
  <2>2. w \in TaskRecord /\ Enter(t, w)
    BY <1>0, <1>1, TaskEnters
  <2> HIDE DEF w
  <2> QED BY <2>1, <2>2
<1>2. ASSUME NEW t \in Tasks, NEW m \in Views, NEW kind \in {"add", "remove", "rename"}, OpenForm(t, m, kind)
      PROVE  Goal
  <2> DEFINE w == [Rest EXCEPT !.at = "form", !.kind = kind, !.on = m,
                               !.pick = IF kind = "remove" THEN bound ELSE {}]
  <2>1. w.at \in Standing
    BY DEF Rest, Standing
  <2>2. Turned(t, w)
    BY <1>0, <1>2, TaskTurns
  <2> HIDE DEF w
  <2> QED BY <2>1, <2>2
<1>3. ASSUME NEW t \in Tasks, NEW x \in Typed, SubmitAdd(t, x) PROVE Goal
  <2> DEFINE w == [task[t] EXCEPT !.at = "owner", !.pick = {Canonical(x)}]
  <2>1. t \notin Busy /\ w.at = "owner"
    BY <1>0, <1>3 DEF SubmitAdd, Submits, Busy, TaskRecord
  <2>2. Turned(t, Rest) \/ (w \in TaskRecord /\ Enter(t, w))
    BY <1>0, <1>3, TaskEnters
  <2> HIDE DEF w
  <2> QED BY <1>r, <2>1, <2>2
<1>4. ASSUME NEW t \in Tasks, NEW chosen \in SUBSET KnownIds, SubmitRemove(t, chosen) PROVE Goal
  <2> DEFINE w == [task[t] EXCEPT !.at = "unlink", !.pick = chosen]
  <2>1. t \notin Busy /\ w.at = "unlink"
    BY <1>0, <1>4 DEF SubmitRemove, Submits, Busy, TaskRecord
  <2>2. w \in TaskRecord /\ Enter(t, w)
    BY <1>0, <1>4, TaskEnters
  <2> HIDE DEF w
  <2> QED BY <2>1, <2>2
<1>5. ASSUME NEW t \in Tasks, NEW n \in Names \cup {Blank}, SubmitRename(t, n) PROVE Goal
  <2> DEFINE w == [task[t] EXCEPT !.at = "user", !.pick = {n}]
  <2>1. t \notin Busy /\ w.at = "user"
    BY <1>0, <1>5 DEF SubmitRename, Submits, Busy, TaskRecord
  <2>2. w \in TaskRecord /\ Enter(t, w)
    BY <1>0, <1>5, TaskEnters
  <2> HIDE DEF w
  <2> QED BY <2>1, <2>2
<1>6. ASSUME NEW t \in Busy, NEW w, Turned(t, w), w.met = task[t].met \/ w.met PROVE Goal
  BY <1>6
<1>7. ASSUME NEW t \in Tasks,
             \/ \E x \in Typed : Unlink(t, x) \/ UnlinkFails(t, x)
             \/ Link(t) \/ SetName(t) \/ Create(t) \/ BindIdentity(t) \/ GetUser(t) \/ Resolve(t)
             \/ ReadAccounts(t) \/ ReadHeader(t) \/ HeaderFails(t)
      PROVE  Goal
  <2>1. t \in Busy
    BY <1>7 DEF Busy, Unlink, UnlinkFails, Link, SetName, Create, BindIdentity, GetUser, Resolve, ReadAccounts,
                ReadHeader, HeaderFails
  <2>2. \E w : Turned(t, w) /\ (w.met = task[t].met \/ w.met)
    <3>1. /\ \A x \in Typed : [task[t] EXCEPT !.pick = @ \ {x}].met = task[t].met
          /\ [task[t] EXCEPT !.at = "accounts", !.wrote = TRUE, !.pick = {}].met = task[t].met
          /\ [task[t] EXCEPT !.at = "bind", !.wrote = TRUE].met = task[t].met
          /\ [task[t] EXCEPT !.at = "rename"].met = task[t].met
          /\ [task[t] EXCEPT !.at = IF FoundUser THEN "rename" ELSE "resolve"].met = task[t].met
          /\ [task[t] EXCEPT !.at = IF known /\ FoundUser THEN "rename" ELSE "create"].met = task[t].met
          /\ [task[t] EXCEPT !.at = "header", !.seen = bound].met = task[t].met
          /\ [task[t] EXCEPT !.at = "show", !.name = user].met = task[t].met
          /\ [task[t] EXCEPT !.at = "show", !.name = NoName, !.met = TRUE].met
      BY <1>0 DEF TaskRecord
    <3>2. CASE \E x \in Typed : Unlink(t, x) \/ UnlinkFails(t, x)
      BY <1>0, <3>1, <3>2, TaskTurns
    <3>3. CASE Link(t) \/ SetName(t) \/ Create(t) \/ BindIdentity(t)
      BY <1>0, <3>1, <3>3, TaskTurns
    <3>4. CASE GetUser(t) \/ Resolve(t)
      BY <1>0, <3>1, <3>4, TaskTurns
    <3>5. CASE ReadAccounts(t) \/ ReadHeader(t) \/ HeaderFails(t)
      BY <1>0, <3>1, <3>5, TaskTurns
    <3> QED BY <1>7, <3>2, <3>3, <3>4, <3>5
  <2> QED BY <1>6, <2>1, <2>2
<1>8. ASSUME NEW t \in Tasks, FindOwner(t) PROVE Goal
  <2>1. t \in Busy /\ [task[t] EXCEPT !.at = "link"].met = task[t].met
    BY <1>0, <1>8 DEF Busy, FindOwner, TaskRecord
  <2> QED BY <1>0, <1>6, <1>8, <1>r, <2>1, TaskTurns
<1>9. ASSUME NEW t \in Tasks, RefuseName(t) \/ Fail(t) \/ Show(t) PROVE Goal
  BY <1>0, <1>9, <1>r, TaskTurns
<1>10. ASSUME NEW t \in Tasks, Expire(t) PROVE Goal
  <2> DEFINE w == [task[t] EXCEPT !.on = NoView]
  <2>1. Turned(t, w) /\ w.met = task[t].met /\ w.at = task[t].at
    BY <1>0, <1>10, TaskTurns DEF TaskRecord
  <2> HIDE DEF w
  <2> QED BY <1>6, <2>1 DEF Busy, Standing
<1>11. ASSUME NEW m \in Views, Dismiss(m) PROVE Goal
  BY <1>11 DEF Dismiss
<1> QED
  BY <1>1, <1>2, <1>3, <1>4, <1>5, <1>7, <1>8, <1>9, <1>10, <1>11 DEF ProfileNext

LEMMA MeetingsStep ==
  ASSUME ProfileTypeOK, Picks, Meetings, [ProfileNext]_profileVars
  PROVE  Meetings'
<1>1. ASSUME NEW t \in Tasks, NEW w, Turned(t, w), w.at \in Standing PROVE Meetings'
  <2>1. t \notin Busy' /\ Busy \subseteq Tasks /\ Busy' \subseteq Tasks
    BY <1>1, BusyTurned DEF Busy
  <2> QED BY <1>1, <2>1, BusyTurned DEF Meetings
<1>2. ASSUME NEW t \in Busy, NEW w, Turned(t, w), task[t].met => w.met PROVE Meetings'
  <2>1. t \in Tasks
    BY DEF Busy
  <2>2. Busy \subseteq Tasks /\ Busy' \subseteq Busy
    BY <1>2, <2>1, BusyTurned DEF Busy
  <2> QED BY <1>2, <2>1, <2>2, BusyTurned DEF Meetings
<1>3. ASSUME NEW t \in Tasks \ Busy, NEW w \in TaskRecord, Enter(t, w) PROVE Meetings'
  <2>1. \A s \in Busy' \ {t} : s \in Busy /\ task'[s].met
    BY <1>3, BusyEntered
  <2>2. Busy # {} => task'[t].met
    BY <1>3, BusyEntered
  <2> QED BY <2>1, <2>2 DEF Meetings
<1>4. CASE UNCHANGED task
  BY <1>4 DEF Meetings, Busy
<1> QED
  BY <1>1, <1>2, <1>3, <1>4, ProfileMoves DEF profileVars

LEMMA CurrentStep ==
  ASSUME ProfileTypeOK, Picks, Meetings, UpToDate, [ProfileNext]_profileVars
  PROVE  UpToDate'
<1>0. /\ ProfileTypeOK /\ Picks /\ Busy \subseteq Tasks
      /\ \A t \in Tasks : task[t] \in TaskRecord
  BY DEF ProfileTypeOK, Busy
\* A step that writes nothing.
<1>1. ASSUME NEW t \in Tasks, NEW w, Turned(t, w), UNCHANGED <<bound, user, saved>>, w.at \in Standing \/ ReadOK(w),
             w.at \in Standing \/ t \in Busy
      PROVE  UpToDate'
  BY <1>0, <1>1, BusyTurned DEF UpToDate, ReadOK, Busy
\* A step that writes: the others under way have met this one.
<1>2. ASSUME NEW t \in Busy, NEW w, Turned(t, w), w.at \notin {"resolve", "create", "header", "show"},
             saved' # NoName => user' # NoName
      PROVE  UpToDate'
  <2>1. \A s \in Busy' \ {t} : task'[s].met
    BY <1>0, <1>2, BusyTurned DEF Meetings, Busy
  <2>2. ReadOK(w)'
    BY <1>2 DEF ReadOK
  <2> QED BY <1>0, <1>2, <2>1, <2>2, BusyTurned DEF UpToDate, ReadOK
<1>3. ASSUME NEW t \in Tasks \ Busy, NEW w \in TaskRecord, Enter(t, w), w.at \in {"accounts", "owner", "unlink", "user"},
             UNCHANGED <<bound, user, saved>>
      PROVE  UpToDate'
  <2>1. /\ \A s \in Busy' \ {t} : task'[s].met
        /\ task'[t].at = w.at
    BY <1>3, BusyEntered
  <2>3. \A s \in Busy' : ReadOK(task[s])'
    BY <1>3, <2>1 DEF ReadOK
  <2> QED BY <1>3, <2>3 DEF UpToDate
<1>r. Rest.at \in Standing
  BY DEF Rest, Standing
<1>4. ASSUME NEW t \in Tasks, NEW m \in Views, OpenView(t, m) PROVE UpToDate'
  <2> DEFINE w == [Rest EXCEPT !.at = "accounts", !.kind = "open", !.on = m]
  <2>1. t \notin Busy /\ w.at = "accounts" /\ UNCHANGED <<bound, user, saved>>
    BY <1>4 DEF OpenView, Busy, Rest, stored
  <2>2. w \in TaskRecord /\ Enter(t, w)
    BY <1>0, <1>4, TaskEnters
  <2> HIDE DEF w
  <2> QED BY <1>3, <2>1, <2>2
<1>5. ASSUME NEW t \in Tasks, NEW m \in Views, NEW kind \in {"add", "remove", "rename"}, OpenForm(t, m, kind)
      PROVE  UpToDate'
  <2> DEFINE w == [Rest EXCEPT !.at = "form", !.kind = kind, !.on = m,
                               !.pick = IF kind = "remove" THEN bound ELSE {}]
  <2>1. w.at \in Standing /\ UNCHANGED <<bound, user, saved>>
    BY <1>5 DEF Rest, Standing, OpenForm, stored
  <2>2. Turned(t, w)
    BY <1>0, <1>5, TaskTurns
  <2> HIDE DEF w
  <2> QED BY <1>1, <2>1, <2>2
<1>6. ASSUME NEW t \in Tasks, NEW x \in Typed, SubmitAdd(t, x) PROVE UpToDate'
  <2> DEFINE w == [task[t] EXCEPT !.at = "owner", !.pick = {Canonical(x)}]
  <2>1. t \notin Busy /\ w.at = "owner" /\ UNCHANGED <<bound, user, saved>>
    BY <1>0, <1>6 DEF SubmitAdd, Submits, Busy, TaskRecord, stored
  <2>2. Turned(t, Rest) \/ (w \in TaskRecord /\ Enter(t, w))
    BY <1>0, <1>6, TaskEnters
  <2> HIDE DEF w
  <2> QED BY <1>1, <1>3, <1>r, <2>1, <2>2
<1>7. ASSUME NEW t \in Tasks, NEW chosen \in SUBSET KnownIds, SubmitRemove(t, chosen) PROVE UpToDate'
  <2> DEFINE w == [task[t] EXCEPT !.at = "unlink", !.pick = chosen]
  <2>1. t \notin Busy /\ w.at = "unlink" /\ UNCHANGED <<bound, user, saved>>
    BY <1>0, <1>7 DEF SubmitRemove, Submits, Busy, TaskRecord, stored
  <2>2. w \in TaskRecord /\ Enter(t, w)
    BY <1>0, <1>7, TaskEnters
  <2> HIDE DEF w
  <2> QED BY <1>3, <2>1, <2>2
<1>8. ASSUME NEW t \in Tasks, NEW n \in Names \cup {Blank}, SubmitRename(t, n) PROVE UpToDate'
  <2> DEFINE w == [task[t] EXCEPT !.at = "user", !.pick = {n}]
  <2>1. t \notin Busy /\ w.at = "user" /\ UNCHANGED <<bound, user, saved>>
    BY <1>0, <1>8 DEF SubmitRename, Submits, Busy, TaskRecord, stored
  <2>2. w \in TaskRecord /\ Enter(t, w)
    BY <1>0, <1>8, TaskEnters
  <2> HIDE DEF w
  <2> QED BY <1>3, <2>1, <2>2
<1>w. \A t \in Tasks : [task[t] EXCEPT !.at = "accounts", !.wrote = TRUE, !.pick = {}].at = "accounts"
  BY <1>0 DEF TaskRecord
<1>9. ASSUME NEW t \in Tasks, NEW x \in Typed, Unlink(t, x) \/ UnlinkFails(t, x) PROVE UpToDate'
  <2>1. task[t].at = "unlink" /\ t \in Busy /\ UNCHANGED <<user, saved>>
    BY <1>9 DEF Unlink, UnlinkFails, Busy, stored
  <2>2. saved' # NoName => user' # NoName
    BY <2>1 DEF UpToDate
  <2> DEFINE w == [task[t] EXCEPT !.pick = @ \ {x}]
             v == [task[t] EXCEPT !.at = "accounts", !.wrote = TRUE, !.pick = {}]
  <2>3. w.at = "unlink" /\ v.at = "accounts"
    BY <1>0, <2>1 DEF TaskRecord
  <2>4. Turned(t, v) \/ Turned(t, w)
    BY <1>0, <1>9, TaskTurns
  <2> HIDE DEF w, v
  <2> QED BY <1>2, <2>1, <2>2, <2>3, <2>4
<1>10. ASSUME NEW t \in Tasks, Link(t) \/ SetName(t) PROVE UpToDate'
  <2>1. t \in Busy
    BY <1>10 DEF Link, SetName, Busy
  <2>2. saved' # NoName => user' # NoName
    BY <1>10 DEF Link, SetName, UpToDate
  <2> QED BY <1>0, <1>2, <1>10, <1>w, <2>1, <2>2, TaskTurns
<1>11. ASSUME NEW t \in Tasks, Create(t) PROVE UpToDate'
  <2>1. t \in Busy /\ [task[t] EXCEPT !.at = "bind", !.wrote = TRUE].at = "bind"
    BY <1>0, <1>11 DEF Create, Busy, TaskRecord
  <2>2. saved' # NoName => user' # NoName
    BY <1>11, ProfilePanelAssumption DEF Create, UpToDate
  <2> QED BY <1>0, <1>2, <1>11, <2>1, <2>2, TaskTurns
<1>12. ASSUME NEW t \in Tasks, FindOwner(t) \/ GetUser(t) \/ Resolve(t) \/ BindIdentity(t) PROVE UpToDate'
  <2>1. t \in Busy /\ UNCHANGED <<bound, user, saved>> /\ ReadOK(task[t])
    BY <1>12 DEF FindOwner, GetUser, Resolve, BindIdentity, Busy, UpToDate, stored
  <2>2. FindOwner(t) => ReadOK([task[t] EXCEPT !.at = "link"])
    BY <1>0 DEF TaskRecord, ReadOK
  <2>3. GetUser(t) => ReadOK([task[t] EXCEPT !.at = IF FoundUser THEN "rename" ELSE "resolve"])
    BY <1>0 DEF TaskRecord, ReadOK, FoundUser
  <2>4. Resolve(t) => ReadOK([task[t] EXCEPT !.at = IF known /\ FoundUser THEN "rename" ELSE "create"])
    BY <1>0, <2>1 DEF TaskRecord, ReadOK, FoundUser, Resolve
  <2>5. BindIdentity(t) => ReadOK([task[t] EXCEPT !.at = "rename"])
    BY <1>0 DEF TaskRecord, ReadOK
  <2> QED BY <1>0, <1>1, <1>12, <1>r, <2>1, <2>2, <2>3, <2>4, <2>5, TaskTurns
<1>13. ASSUME NEW t \in Tasks, RefuseName(t) \/ Fail(t) \/ Show(t) PROVE UpToDate'
  <2>1. UNCHANGED <<bound, user, saved>>
    BY <1>13 DEF RefuseName, Fail, Refused, Show, stored
  <2> QED BY <1>0, <1>1, <1>13, <1>r, <2>1, TaskTurns
<1>14. ASSUME NEW t \in Tasks, Expire(t) PROVE UpToDate'
  <2> DEFINE w == [task[t] EXCEPT !.on = NoView]
  <2>1. UNCHANGED <<bound, user, saved>> /\ Turned(t, w)
    BY <1>0, <1>14, TaskTurns DEF Expire, stored
  <2>2. /\ w.at = task[t].at /\ w.met = task[t].met /\ w.seen = task[t].seen /\ w.name = task[t].name
    BY <1>0 DEF TaskRecord
  <2> HIDE DEF w
  <2>3. t \in Busy => ReadOK(w)
    BY <2>2 DEF UpToDate, ReadOK
  <2> QED BY <1>1, <2>1, <2>2, <2>3 DEF Busy, Standing
<1>15. ASSUME NEW t \in Tasks, ReadAccounts(t) \/ ReadHeader(t) \/ HeaderFails(t) PROVE UpToDate'
  <2>1. t \in Busy /\ UNCHANGED <<bound, user, saved>> /\ ReadOK(task[t])
    BY <1>15 DEF ReadAccounts, ReadHeader, HeaderFails, Busy, UpToDate, stored
  <2>2. /\ ReadAccounts(t) => ReadOK([task[t] EXCEPT !.at = "header", !.seen = bound])
        /\ HeaderFails(t) => ReadOK([task[t] EXCEPT !.at = "show", !.name = NoName, !.met = TRUE])
    BY <1>0 DEF TaskRecord, ReadOK
  <2>3. ReadHeader(t) => ReadOK([task[t] EXCEPT !.at = "show", !.name = user])
    BY <1>0, <2>1 DEF TaskRecord, ReadOK, ReadHeader
  <2> QED BY <1>0, <1>1, <1>15, <2>1, <2>2, <2>3, TaskTurns
<1>16. CASE UNCHANGED profileVars \/ \E m \in Views : Dismiss(m)
  BY <1>16 DEF profileVars, Dismiss, stored, UpToDate, ReadOK, Busy
<1> QED
  BY <1>4, <1>5, <1>6, <1>7, <1>8, <1>9, <1>10, <1>11, <1>12, <1>13, <1>14, <1>15, <1>16 DEF ProfileNext

\* What leaves the stored profile and the views as they are, or takes a view away.
LEMMA FollowingKept ==
  ASSUME Following, UNCHANGED <<bound, user>>, outdated \subseteq outdated',
         \A m \in Visible' : m \in Visible /\ views'[m] = views[m],
         \A m \in Views \ outdated' : Redrawn(m) => Redrawn(m)'
  PROVE  Following'
BY DEF Following, Visible

\* An interaction that will still draw the view it would have drawn.
Draws(r, m) == r.on = m /\ (r.wrote \/ r.at = "unlink")
LEMMA RedrawnTurned ==
  ASSUME ProfileTypeOK, NEW t \in Tasks, NEW w, Turned(t, w), NEW m,
         t \in Busy /\ Draws(task[t], m) => w.at \notin Standing /\ Draws(w, m), Redrawn(m)
  PROVE  Redrawn(m)'
<1>1. PICK s \in Busy : task[s].on = m /\ (task[s].wrote \/ task[s].at = "unlink")
  BY DEF Redrawn
<1>2. CASE s = t
  BY <1>1, <1>2, BusyTurned DEF Redrawn, Draws
<1>3. CASE s # t
  BY <1>1, <1>3, BusyTurned DEF Redrawn, Busy
<1> QED BY <1>2, <1>3

LEMMA RedrawnEntered ==
  ASSUME ProfileTypeOK, NEW t \in Tasks \ Busy, NEW w \in TaskRecord, Enter(t, w), NEW m, Redrawn(m)
  PROVE  Redrawn(m)'
<1>1. PICK s \in Busy : task[s].on = m /\ (task[s].wrote \/ task[s].at = "unlink")
  BY DEF Redrawn
<1>2. s # t /\ s \in Busy' /\ task'[s].on = task[s].on /\ task'[s].at = task[s].at /\ task'[s].wrote = task[s].wrote
  BY <1>1, BusyEntered
<1> QED BY <1>1, <1>2 DEF Redrawn

\* A change that is written: only the view of its own interaction may still follow.
LEMMA FollowingWritten ==
  ASSUME ProfileTypeOK, NEW t \in Busy, NEW w, Turned(t, w), Writes(t), UNCHANGED views,
         w.on = task[t].on, w.at \notin Standing, w.wrote \/ w.at = "unlink"
  PROVE  Following'
<1>0. t \in Tasks
  BY DEF Busy
<1>1. ASSUME NEW m \in Visible' \ outdated' PROVE Redrawn(m)'
  <2>1. m \in Visible /\ task[t].on = m
    BY <1>1 DEF Visible, Writes, Edited
  <2> QED BY <1>0, <2>1, BusyTurned DEF Redrawn
<1> QED BY <1>1 DEF Following

LEMMA FollowingStep ==
  ASSUME ProfileTypeOK, Picks, Meetings, UpToDate, Following, [ProfileNext]_profileVars
  PROVE  Following'
<1>0. /\ ProfileTypeOK /\ Picks /\ Busy \subseteq Tasks
      /\ \A t \in Tasks : task[t] \in TaskRecord
  BY DEF ProfileTypeOK, Busy
\* A step that neither writes nor draws.
<1>1. ASSUME NEW t \in Tasks, NEW w, Turned(t, w), UNCHANGED <<bound, user, views>>, outdated \subseteq outdated',
             \A m \in Views \ outdated' : t \in Busy /\ Draws(task[t], m) => w.at \notin Standing /\ Draws(w, m)
      PROVE  Following'
  <2>1. \A m \in Views \ outdated' : Redrawn(m) => Redrawn(m)'
    BY <1>0, <1>1, RedrawnTurned
  <2> QED BY <1>1, <2>1, FollowingKept DEF Visible
<1>2. ASSUME NEW t \in Tasks \ Busy, NEW w \in TaskRecord, Enter(t, w), UNCHANGED <<bound, user, views, outdated>>
      PROVE  Following'
  <2>1. \A m \in Views \ outdated' : Redrawn(m) => Redrawn(m)'
    BY <1>0, <1>2, RedrawnEntered
  <2> QED BY <1>2, <2>1, FollowingKept DEF Visible
<1>4. ASSUME NEW t \in Tasks, NEW m \in Views, OpenView(t, m) PROVE Following'
  <2> DEFINE w == [Rest EXCEPT !.at = "accounts", !.kind = "open", !.on = m]
  <2>1. t \notin Busy /\ UNCHANGED <<bound, user, views, outdated>>
    BY <1>4 DEF OpenView, Busy, Rest, stored
  <2>2. w \in TaskRecord /\ Enter(t, w)
    BY <1>0, <1>4, TaskEnters
  <2> HIDE DEF w
  <2> QED BY <1>2, <2>1, <2>2
<1>5. ASSUME NEW t \in Tasks, NEW m \in Views, NEW kind \in {"add", "remove", "rename"}, OpenForm(t, m, kind)
      PROVE  Following'
  <2> DEFINE w == [Rest EXCEPT !.at = "form", !.kind = kind, !.on = m,
                               !.pick = IF kind = "remove" THEN bound ELSE {}]
  <2>1. t \notin Busy /\ UNCHANGED <<bound, user, views, outdated>>
    BY <1>5 DEF OpenForm, Busy, Rest, stored
  <2>2. Turned(t, w)
    BY <1>0, <1>5, TaskTurns
  <2> HIDE DEF w
  <2> QED BY <1>1, <2>1, <2>2
<1>6. ASSUME NEW t \in Tasks, NEW x \in Typed, SubmitAdd(t, x) PROVE Following'
  <2> DEFINE w == [task[t] EXCEPT !.at = "owner", !.pick = {Canonical(x)}]
  <2>1. t \notin Busy /\ UNCHANGED <<bound, user, views, outdated>>
    BY <1>6 DEF SubmitAdd, Submits, Busy, stored
  <2>2. Turned(t, Rest) \/ (w \in TaskRecord /\ Enter(t, w))
    BY <1>0, <1>6, TaskEnters
  <2> HIDE DEF w
  <2> QED BY <1>1, <1>2, <2>1, <2>2
<1>7. ASSUME NEW t \in Tasks, NEW chosen \in SUBSET KnownIds, SubmitRemove(t, chosen) PROVE Following'
  <2> DEFINE w == [task[t] EXCEPT !.at = "unlink", !.pick = chosen]
  <2>1. t \notin Busy /\ UNCHANGED <<bound, user, views, outdated>>
    BY <1>7 DEF SubmitRemove, Submits, Busy, stored
  <2>2. w \in TaskRecord /\ Enter(t, w)
    BY <1>0, <1>7, TaskEnters
  <2> HIDE DEF w
  <2> QED BY <1>2, <2>1, <2>2
<1>8. ASSUME NEW t \in Tasks, NEW n \in Names \cup {Blank}, SubmitRename(t, n) PROVE Following'
  <2> DEFINE w == [task[t] EXCEPT !.at = "user", !.pick = {n}]
  <2>1. t \notin Busy /\ UNCHANGED <<bound, user, views, outdated>>
    BY <1>8 DEF SubmitRename, Submits, Busy, stored
  <2>2. w \in TaskRecord /\ Enter(t, w)
    BY <1>0, <1>8, TaskEnters
  <2> HIDE DEF w
  <2> QED BY <1>2, <2>1, <2>2
<1>9. ASSUME NEW t \in Tasks, NEW x \in Typed, Unlink(t, x) \/ UnlinkFails(t, x) PROVE Following'
  <2>1. task[t].at = "unlink" /\ t \in Busy /\ UNCHANGED <<user, views>>
    BY <1>9 DEF Unlink, UnlinkFails, Busy, stored
  <2> DEFINE w == [task[t] EXCEPT !.pick = @ \ {x}]
             v == [task[t] EXCEPT !.at = "accounts", !.wrote = TRUE, !.pick = {}]
  <2>2. /\ w.at = "unlink" /\ w.on = task[t].on
        /\ v.at = "accounts" /\ v.on = task[t].on /\ v.wrote
    BY <1>0, <2>1 DEF TaskRecord
  <2>3. Turned(t, v) \/ Turned(t, w)
    BY <1>0, <1>9, TaskTurns
  <2> HIDE DEF w, v
  <2>4. w.at \notin Standing /\ v.at \notin Standing
    BY <2>2 DEF Standing
  <2>5. CASE Writes(t)
    BY <1>0, <2>1, <2>2, <2>3, <2>4, <2>5, FollowingWritten
  <2>6. CASE UNCHANGED <<bound, outdated>>
    BY <1>1, <2>1, <2>2, <2>3, <2>4, <2>6 DEF Draws
  <2>7. Writes(t) \/ UNCHANGED <<bound, outdated>>
    <3>1. CASE UnlinkFails(t, x)
      BY <3>1 DEF UnlinkFails, stored
    <3>2. CASE Unlink(t, x) /\ x \in bound
      BY <3>2 DEF Unlink
    <3>3. CASE Unlink(t, x) /\ x \notin bound
      BY <3>3 DEF Unlink
    <3> QED BY <1>9, <3>1, <3>2, <3>3
  <2> QED BY <2>5, <2>6, <2>7
<1>10. ASSUME NEW t \in Tasks, Link(t) \/ SetName(t) PROVE Following'
  <2> DEFINE v == [task[t] EXCEPT !.at = "accounts", !.wrote = TRUE, !.pick = {}]
  <2>1. t \in Busy /\ Writes(t) /\ UNCHANGED views
    BY <1>10 DEF Link, SetName, Busy
  <2>2. v.at = "accounts" /\ v.on = task[t].on /\ v.wrote /\ Turned(t, v)
    BY <1>0, <1>10, TaskTurns DEF TaskRecord
  <2> HIDE DEF v
  <2> QED BY <1>0, <2>1, <2>2, FollowingWritten DEF Standing
<1>11. ASSUME NEW t \in Tasks, Create(t) PROVE Following'
  <2> DEFINE v == [task[t] EXCEPT !.at = "bind", !.wrote = TRUE]
  <2>1. t \in Busy /\ Writes(t) /\ UNCHANGED views
    BY <1>11 DEF Create, Busy
  <2>2. v.at = "bind" /\ v.on = task[t].on /\ v.wrote /\ Turned(t, v)
    BY <1>0, <1>11, TaskTurns DEF TaskRecord
  <2> HIDE DEF v
  <2> QED BY <1>0, <2>1, <2>2, FollowingWritten DEF Standing
<1>12. ASSUME NEW t \in Tasks, FindOwner(t) \/ GetUser(t) \/ Resolve(t) PROVE Following'
  <2>1. /\ UNCHANGED <<bound, user, views, outdated>> /\ \A m : ~Draws(task[t], m)
    BY <1>0, <1>12 DEF FindOwner, GetUser, Resolve, stored, Draws, Picks, PickOK
  <2>2. \E w : Turned(t, w)
    BY <1>0, <1>12, TaskTurns
  <2> QED BY <1>1, <2>1, <2>2
<1>13. ASSUME NEW t \in Tasks, BindIdentity(t) \/ ReadAccounts(t) \/ ReadHeader(t) \/ HeaderFails(t) PROVE Following'
  <2>1. UNCHANGED <<bound, user, views>> /\ outdated \subseteq outdated' /\ task[t].at # "unlink"
    BY <1>13 DEF BindIdentity, ReadAccounts, ReadHeader, HeaderFails, stored
  <2>2. \E w : Turned(t, w) /\ w.at \notin Standing /\ w.on = task[t].on /\ w.wrote = task[t].wrote
    <3>1. /\ [task[t] EXCEPT !.at = "rename"].at = "rename"
          /\ [task[t] EXCEPT !.at = "rename"].on = task[t].on
          /\ [task[t] EXCEPT !.at = "rename"].wrote = task[t].wrote
      BY <1>0 DEF TaskRecord
    <3>2. /\ [task[t] EXCEPT !.at = "header", !.seen = bound].at = "header"
          /\ [task[t] EXCEPT !.at = "header", !.seen = bound].on = task[t].on
          /\ [task[t] EXCEPT !.at = "header", !.seen = bound].wrote = task[t].wrote
      BY <1>0 DEF TaskRecord
    <3>3. /\ [task[t] EXCEPT !.at = "show", !.name = user].at = "show"
          /\ [task[t] EXCEPT !.at = "show", !.name = user].on = task[t].on
          /\ [task[t] EXCEPT !.at = "show", !.name = user].wrote = task[t].wrote
      BY <1>0 DEF TaskRecord
    <3>4. /\ [task[t] EXCEPT !.at = "show", !.name = NoName, !.met = TRUE].at = "show"
          /\ [task[t] EXCEPT !.at = "show", !.name = NoName, !.met = TRUE].on = task[t].on
          /\ [task[t] EXCEPT !.at = "show", !.name = NoName, !.met = TRUE].wrote = task[t].wrote
      BY <1>0 DEF TaskRecord
    <3>5. \A at \in {"rename", "header", "show"} : at \notin Standing
      BY DEF Standing
    <3>6. CASE BindIdentity(t)
      BY <1>0, <3>1, <3>5, <3>6, TaskTurns
    <3>7. CASE ReadAccounts(t)
      BY <1>0, <3>2, <3>5, <3>7, TaskTurns
    <3>8. CASE ReadHeader(t)
      BY <1>0, <3>3, <3>5, <3>8, TaskTurns
    <3>9. CASE HeaderFails(t)
      BY <1>0, <3>4, <3>5, <3>9, TaskTurns
    <3> QED BY <1>13, <3>6, <3>7, <3>8, <3>9
  <2> QED BY <1>1, <2>1, <2>2 DEF Draws
<1>14. ASSUME NEW t \in Tasks, RefuseName(t) \/ Fail(t) PROVE Following'
  <2>1. UNCHANGED <<bound, user, views>> /\ outdated \subseteq outdated' /\ task[t].at # "unlink"
    BY <1>14 DEF RefuseName, Fail, Refused, stored
  <2>2. \A m \in Views \ outdated' : ~Draws(task[t], m)
    BY <1>14, <2>1, ProfilePanelAssumption DEF RefuseName, Fail, Refused, Edited, Draws
  <2>3. Turned(t, Rest)
    BY <1>0, <1>14, TaskTurns
  <2> QED BY <1>1, <2>1, <2>2, <2>3
<1>15. ASSUME NEW t \in Tasks, Expire(t) PROVE Following'
  <2>1. UNCHANGED <<bound, user, views>> /\ outdated \subseteq outdated'
        /\ \A m \in Views \ outdated' : ~Draws(task[t], m)
    BY <1>15 DEF Expire, stored, Draws
  <2>2. \E w : Turned(t, w)
    BY <1>0, <1>15, TaskTurns
  <2> QED BY <1>1, <2>1, <2>2
<1>16. ASSUME NEW t \in Tasks, Show(t) PROVE Following'
  <2>0. Turned(t, Rest) /\ UNCHANGED <<bound, user>> /\ t \in Busy
    BY <1>0, <1>16, TaskTurns DEF Show, stored, Busy
  <2>1. CASE ~Drawn(t)
    <3>1. UNCHANGED <<views, outdated>> /\ task[t].on \notin Visible
      BY <1>16, <2>1 DEF Show, Drawn
    <3>2. \A m \in Visible : Redrawn(m) => Redrawn(m)'
      BY <1>0, <2>0, <3>1, RedrawnTurned DEF Draws
    <3> QED BY <2>0, <3>1, <3>2 DEF Following, Visible
  <2>2. CASE Drawn(t)
    <3> DEFINE on == task[t].on
               new == [accounts |-> task[t].seen, name |-> task[t].name]
    <3>1. on \in Views
      BY <1>0, <2>2 DEF Drawn, Picks, PickOK, Visible
    <3>2. views' = [views EXCEPT ![on] = new] /\ outdated' = IF task[t].met THEN outdated \cup {on} ELSE outdated \ {on}
      BY <1>16, <2>2 DEF Show
    <3>3. ~task[t].met => new = [accounts |-> bound, name |-> user]
      BY <1>16, <2>0 DEF UpToDate, ReadOK, Show
    <3>5. \A m \in Views : views'[m] = IF m = on THEN new ELSE views[m]
      BY <3>2 DEF ProfileTypeOK
    <3> HIDE DEF on, new
    <3>6. ASSUME NEW m \in Visible' \ outdated' PROVE views'[m] = [accounts |-> bound', name |-> user'] \/ Redrawn(m)'
      <4>1. CASE m = on
        BY <2>0, <3>1, <3>2, <3>3, <3>5, <3>6, <4>1
      <4>2. CASE m # on
        <5>1. m \in Visible \ outdated /\ views'[m] = views[m]
          BY <3>2, <3>5, <3>6, <4>2 DEF Visible
        <5>2. Redrawn(m) => Redrawn(m)'
          BY <1>0, <2>0, <4>2, RedrawnTurned DEF Draws, on
        <5> QED BY <2>0, <5>1, <5>2 DEF Following
      <4> QED BY <4>1, <4>2
    <3> QED BY <3>6 DEF Following
  <2> QED BY <2>1, <2>2
<1>17. ASSUME NEW m \in Views, Dismiss(m) PROVE Following'
  <2>1. UNCHANGED <<bound, user, task, outdated>> /\ views' = [views EXCEPT ![m] = Gone]
    BY <1>17 DEF Dismiss, stored
  <2>2. \A n \in Visible' : n \in Visible /\ views'[n] = views[n]
    BY <2>1 DEF Visible, ProfileTypeOK
  <2>3. \A n : Redrawn(n) => Redrawn(n)'
    BY <2>1 DEF Redrawn, Busy
  <2> QED BY <2>1, <2>2, <2>3, FollowingKept
<1>18. CASE UNCHANGED profileVars
  BY <1>18 DEF profileVars, stored, Following, Visible, Redrawn, Busy
<1> QED
  BY <1>4, <1>5, <1>6, <1>7, <1>8, <1>9, <1>10, <1>11, <1>12, <1>13, <1>14, <1>15, <1>16, <1>17, <1>18 DEF ProfileNext

LEMMA NameKeptStep ==
  ASSUME ProfileTypeOK, Picks, Meetings, UpToDate, NameKept, [ProfileNext]_profileVars
  PROVE  NameKept'
<1>1. ASSUME NEW t \in Tasks, SetName(t) PROVE NameKept'
  BY <1>1 DEF SetName, NameKept
<1>2. ASSUME NEW t \in Tasks, Create(t) PROVE NameKept'
  <2>1. t \in Busy /\ task[t].met \in BOOLEAN
    BY <1>2 DEF Create, Busy, ProfileTypeOK, TaskRecord
  <2>2. CASE task[t].met
    BY <1>2, <2>2 DEF Create, NameKept
  <2>3. CASE ~task[t].met
    BY <1>2, <2>1, <2>3 DEF Create, NameKept, UpToDate, ReadOK
  <2> QED BY <2>1, <2>2, <2>3
<1>3. (\E t \in Tasks : SetName(t) \/ Create(t)) \/ UNCHANGED <<user, saved, lapped>>
  <2>1. ASSUME NEW m \in Views, Dismiss(m) PROVE UNCHANGED <<user, saved, lapped>>
    BY <2>1 DEF Dismiss, stored
  <2>2. CASE UNCHANGED profileVars
    BY <2>2 DEF profileVars, stored
  <2>3. ASSUME NEW t \in Tasks, NEW m \in Views,
               OpenView(t, m) \/ \E kind \in {"add", "remove", "rename"} : OpenForm(t, m, kind)
        PROVE  UNCHANGED <<user, saved, lapped>>
    BY <2>3 DEF OpenView, OpenForm, stored
  <2>4. ASSUME NEW t \in Tasks,
               \/ \E x \in Typed : SubmitAdd(t, x) \/ Unlink(t, x) \/ UnlinkFails(t, x)
               \/ \E chosen \in SUBSET KnownIds : SubmitRemove(t, chosen)
               \/ \E n \in Names \cup {Blank} : SubmitRename(t, n)
        PROVE  UNCHANGED <<user, saved, lapped>>
    BY <2>4 DEF SubmitAdd, Submits, Unlink, UnlinkFails, SubmitRemove, SubmitRename, stored
  <2>5. ASSUME NEW t \in Tasks,
               \/ FindOwner(t) \/ Link(t) \/ GetUser(t) \/ Resolve(t) \/ BindIdentity(t) \/ RefuseName(t) \/ Fail(t)
               \/ Expire(t) \/ ReadAccounts(t) \/ ReadHeader(t) \/ HeaderFails(t) \/ Show(t)
        PROVE  UNCHANGED <<user, saved, lapped>>
    BY <2>5 DEF FindOwner, Link, GetUser, Resolve, BindIdentity, RefuseName, Fail, Refused, Expire, ReadAccounts,
                ReadHeader, HeaderFails, Show, stored
  <2> QED BY <2>1, <2>2, <2>3, <2>4, <2>5 DEF ProfileNext
<1> QED BY <1>1, <1>2, <1>3 DEF NameKept

LEMMA ProfileInvInit == ProfileInit => ProfileInv
<1> SUFFICES ASSUME ProfileInit PROVE ProfileInv
  OBVIOUS
<1>1. \A t \in Tasks : task[t] = Rest
  BY DEF ProfileInit
<1>2. Busy = {} /\ Visible = {}
  BY <1>1 DEF Busy, Visible, Rest, ProfileInit
<1>3. Picks
  BY <1>1 DEF Picks, PickOK, Rest
<1> QED BY <1>2, <1>3 DEF ProfileInit, ProfileInv, Meetings, UpToDate, Following, NameKept

\* The state has its type in every behaviour (profile.py, profile_registration.py).
THEOREM ProfileTypeCorrect == ProfileSpec => [](ProfileTypeOK /\ ProfileInv)
<1>1. ProfileInit => ProfileTypeOK /\ ProfileInv
  BY ProfileTypeInit, ProfileInvInit
<1>2. ProfileTypeOK /\ ProfileInv /\ [ProfileNext]_profileVars => (ProfileTypeOK /\ ProfileInv)'
  BY ProfileTypeStep, PicksStep, MeetingsStep, CurrentStep, FollowingStep, NameKeptStep DEF ProfileInv
<1> QED BY <1>1, <1>2, PTL DEF ProfileSpec

\* Of any number of tasks, views and names: a view that no other form overtook
\* shows what is stored, and a name that was saved stays.
THEOREM ProfileAlwaysFollows == ProfileSpec => []ProfileFollows
<1>1. ProfileInv => ProfileFollows
  BY DEF ProfileInv, ProfileFollows, ViewsFollow, Following, Redrawn
<1> QED BY <1>1, ProfileTypeCorrect, PTL

-----------------------------------------------------------------------------
(* The panels of the map pools.                                            *)

\* What an operator under way still has to show.
OwesAll(a) == work[a].at = "pools" /\ work[a].all
OwesPool(a, p) == OwesAll(a) \/ (work[a].at \in {"save", "pools"} /\ p \in work[a].pools)
OwesMap(a, m) ==
  /\ m \in work[a].maps
  /\ work[a].at \in {"pools", "maps"} \/ (work[a].at = "save" /\ work[a].pools # {})
PoolOK(p) ==
  p \in Stored \ behind =>
    /\ board[p] = Card(p) \/ \E a \in Admins : OwesPool(a, p)
    /\ board[p] = Nil => \E a \in Admins : OwesAll(a)
MapOK(m) ==
  /\ m \notin Live => links[m] = Nil
  /\ m \in Live \ behind /\ links[m] # Nil => links[m] = Linking(m) \/ \E a \in Admins : OwesMap(a, m)
Posted == (\A p \in Pools : PoolOK(p)) /\ (\A m \in Maps : MapOK(m))

\* An operator has a form open or a submit under way, not both; and what the one
\* and the other hold, as long as nobody else saved anything.
FormRead(a) ==
  form[a] # Nil /\ form[a].kind = "editor" =>
    /\ form[a].listed = Drafts \/ ~AllListed
    /\ form[a].ticked = form[a].listed \cap Linking(form[a].on)
Removed(s) == (pools[s[1]].maps \ s[2]) \cap Live
Added(s) == (s[2] \ pools[s[1]].maps) \cap Live
SavesRead(a) ==
  work[a].at = "save" =>
    \A s \in work[a].saves :
      /\ s[1] \in Stored
      /\ \A m \in Removed(s) : <<s[1], m>> \in work[a].asked \/ (s[1] \in work[a].hidden /\ ~AllListed)
      /\ work[a].maps # {} => Removed(s) \cup Added(s) \subseteq work[a].maps
SavesApart(a) == \A s, r \in work[a].saves : s[1] = r[1] => s = r
Apart == \A a \in Admins : (form[a] # Nil => work[a] = NoWork) /\ SavesApart(a)
Asked == \A a \in Admins \ stale : FormRead(a) /\ SavesRead(a)
PoolInvariant == Apart /\ Asked /\ Posted

LEMMA WorkShapes ==
  /\ NoWork \in Works /\ NoWork.at = "idle" /\ NoWork.saves = {} /\ NoWork.maps = {}
  /\ \A at \in {"idle", "lines", "import", "sync"}, ms \in SUBSET Maps :
       LET w == [NoWork EXCEPT !.at = at, !.maps = ms] IN
         w \in Works /\ w.at = at /\ w.saves = {} /\ w.maps = ms
  /\ \A at \in {"idle", "sync"} :
       LET w == [NoWork EXCEPT !.at = at] IN w \in Works /\ w.at = at /\ w.saves = {}
BY DEF NoWork, Works

LEMMA SavingShape ==
  ASSUME NEW saves \in SUBSET (Pools \X SUBSET Maps), NEW asked \in SUBSET (Pools \X Maps),
         NEW all \in BOOLEAN, NEW ms \in SUBSET Maps
  PROVE  LET w == Saving(saves, asked, all, ms) IN
           /\ w \in Works /\ w.at = "save" /\ w.saves = saves /\ w.asked = asked /\ w.pools = {}
           /\ w.all = all /\ w.maps = ms
BY DEF NoWork, Works, Saving

\* The editor of a map names the pools that its form did not list, too.
LEMMA EditorShape ==
  ASSUME NEW saves \in SUBSET (Pools \X SUBSET Maps), NEW asked \in SUBSET (Pools \X Maps),
         NEW ms \in SUBSET Maps, NEW ps \in SUBSET Pools
  PROVE  LET w == [Saving(saves, asked, FALSE, ms) EXCEPT !.hidden = ps] IN
           /\ w \in Works /\ w.at = "save" /\ w.saves = saves /\ w.asked = asked /\ w.hidden = ps
           /\ w.maps = ms
BY DEF NoWork, Works, Saving

LEMMA RefreshingShape ==
  ASSUME NEW ps \in SUBSET Pools, NEW all \in BOOLEAN, NEW ms \in SUBSET Maps
  PROVE  LET w == Refreshing(ps, all, ms) IN
           /\ w \in Works /\ w.at = "pools" /\ w.saves = {} /\ w.pools = ps /\ w.all = all /\ w.maps = ms
BY DEF NoWork, Works, Refreshing

LEMMA WorkEdits ==
  ASSUME NEW r \in Works
  PROVE  /\ \A s \in r.saves :
              LET w == [r EXCEPT !.saves = r.saves \ {s}, !.pools = r.pools \cup {s[1]}] IN
                /\ w \in Works /\ w.at = r.at /\ w.saves = r.saves \ {s} /\ w.pools = r.pools \cup {s[1]}
                /\ w.all = r.all /\ w.maps = r.maps /\ w.asked = r.asked /\ w.hidden = r.hidden
         /\ LET w == [r EXCEPT !.at = "pools"] IN
              w \in Works /\ w.at = "pools" /\ w.saves = r.saves /\ w.pools = r.pools /\ w.all = r.all /\ w.maps = r.maps
         /\ \A ms \in SUBSET Maps :
              LET w == [r EXCEPT !.maps = ms] IN w \in Works /\ w.at = r.at /\ w.saves = r.saves
         /\ \A ms \in SUBSET Maps :
              LET w == [r EXCEPT !.at = "created", !.maps = ms] IN w \in Works /\ w.at = "created" /\ w.saves = r.saves
         /\ \A ms \in SUBSET Maps :
              LET w == [r EXCEPT !.at = "maps", !.maps = ms] IN
                w \in Works /\ w.at = "maps" /\ w.saves = r.saves /\ w.maps = ms
<1>1. ASSUME NEW s \in r.saves
      PROVE  LET w == [r EXCEPT !.saves = r.saves \ {s}, !.pools = r.pools \cup {s[1]}] IN
                /\ w \in Works /\ w.at = r.at /\ w.saves = r.saves \ {s} /\ w.pools = r.pools \cup {s[1]}
                /\ w.all = r.all /\ w.maps = r.maps /\ w.asked = r.asked /\ w.hidden = r.hidden
  <2>1. r.saves \ {s} \in SUBSET (Pools \X SUBSET Maps) /\ r.pools \cup {s[1]} \in SUBSET Pools
    BY DEF Works
  <2> QED BY <2>1 DEF Works
<1>2. LET w == [r EXCEPT !.at = "pools"] IN
        w \in Works /\ w.at = "pools" /\ w.saves = r.saves /\ w.pools = r.pools /\ w.all = r.all /\ w.maps = r.maps
  BY DEF Works
<1>3. ASSUME NEW ms \in SUBSET Maps
      PROVE  /\ LET w == [r EXCEPT !.maps = ms] IN w \in Works /\ w.at = r.at /\ w.saves = r.saves
             /\ LET w == [r EXCEPT !.at = "created", !.maps = ms] IN w \in Works /\ w.at = "created" /\ w.saves = r.saves
             /\ LET w == [r EXCEPT !.at = "maps", !.maps = ms] IN
                  w \in Works /\ w.at = "maps" /\ w.saves = r.saves /\ w.maps = ms
  BY DEF Works
<1> QED BY <1>1, <1>2, <1>3

Worked(a, w) == w \in Works /\ work' = [work EXCEPT ![a] = w]
Closed(a) == form' = [form EXCEPT ![a] = Nil]

LEMMA StoreTyped ==
  ASSUME OperatorTypeOK
  PROVE  /\ \A p \in Stored : /\ pools[p] \in Documents /\ pools[p].maps \in SUBSET Maps
                              /\ pools[p].state \in States /\ pools[p].editable \in BOOLEAN
                              /\ Card(p) \in Cards
         /\ Stored \subseteq Pools /\ Drafts \subseteq Stored /\ Active \subseteq Stored
         /\ Live \subseteq Known /\ Known \subseteq Maps
         /\ \A m : Linking(m) \subseteq Stored
         /\ \A a \in Admins : form[a] \in Forms \cup {Nil} /\ work[a] \in Works
         /\ \A ms \in SUBSET Maps : Fresh(ms) \in Documents
BY DEF OperatorTypeOK, Stored, Drafts, Active, Live, Known, Linking, Documents, Cards, Card, Fresh, States

\* What the submit of the editor of a map makes of the work of its operator.
AfterEditor(a, chosen) ==
  [Saving({<<p, Toggled(p, form[a].on)>> : p \in Differing(form[a].on, chosen)},
          (form[a].ticked \ chosen) \X {form[a].on}, FALSE, {form[a].on})
     EXCEPT !.hidden = Drafts \ form[a].listed]

\* What a submit or a step of one makes of the work of its operator.
LEMMA EditorWork ==
  ASSUME OperatorTypeOK, NEW a \in Admins, SubmitEditor(a)
  PROVE  \/ Worked(a, NoWork)
         \/ \E chosen \in SUBSET form[a].listed : Worked(a, AfterEditor(a, chosen))
<1>1. form[a].on \in Maps /\ form[a].listed \subseteq Pools /\ form[a].ticked \subseteq Pools
  BY StoreTyped DEF SubmitEditor, Forms
<1> DEFINE m == form[a].on
<1>2. ASSUME NEW chosen \in SUBSET form[a].listed, Then(a, AfterEditor(a, chosen))
      PROVE  Worked(a, AfterEditor(a, chosen))
  <2>1. {<<p, Toggled(p, m)>> : p \in Differing(m, chosen)} \in SUBSET (Pools \X SUBSET Maps)
    BY <1>1, StoreTyped DEF Toggled, Differing
  <2>2. (form[a].ticked \ chosen) \X {m} \in SUBSET (Pools \X Maps) /\ {m} \in SUBSET Maps
        /\ Drafts \ form[a].listed \in SUBSET Pools
    BY <1>1, StoreTyped
  <2>3. AfterEditor(a, chosen) \in Works
    BY <2>1, <2>2, EditorShape DEF AfterEditor
  <2> QED BY <1>2, <2>3 DEF Then, Worked
<1>3. Worked(a, NoWork) \/ ~Then(a, NoWork)
  BY WorkShapes DEF Then, Worked
<1> QED BY <1>2, <1>3 DEF SubmitEditor, AfterEditor

LEMMA ComposeWork ==
  ASSUME OperatorTypeOK, NEW a \in Admins, SubmitCompose(a)
  PROVE  \/ Worked(a, NoWork)
         \/ \E p \in Stored, add \in SUBSET Maps, remove \in SUBSET Maps :
              Worked(a, Saving({<<p, Composed(p, add, remove)>>}, {p} \X remove, TRUE, Touched(p, add, remove)))
<1>1. form[a].on \in Pools /\ form[a].available \subseteq Maps /\ form[a].members \subseteq Maps
  BY StoreTyped DEF SubmitCompose, Forms
<1>2. ASSUME NEW p \in Stored, NEW add \in SUBSET Maps, NEW remove \in SUBSET Maps,
             Then(a, Saving({<<p, Composed(p, add, remove)>>}, {p} \X remove, TRUE, Touched(p, add, remove)))
      PROVE  Worked(a, Saving({<<p, Composed(p, add, remove)>>}, {p} \X remove, TRUE, Touched(p, add, remove)))
  <2>1. {<<p, Composed(p, add, remove)>>} \in SUBSET (Pools \X SUBSET Maps)
    BY StoreTyped DEF Composed
  <2>2. {p} \X remove \in SUBSET (Pools \X Maps) /\ Touched(p, add, remove) \in SUBSET Maps
    BY StoreTyped DEF Touched, Addable
  <2>3. Saving({<<p, Composed(p, add, remove)>>}, {p} \X remove, TRUE, Touched(p, add, remove)) \in Works
    BY <2>1, <2>2, SavingShape
  <2> QED BY <1>2, <2>3 DEF Then, Worked
<1>3. Worked(a, NoWork) \/ ~Then(a, NoWork)
  BY WorkShapes DEF Then, Worked
<1> QED BY <1>1, <1>2, <1>3 DEF SubmitCompose

LEMMA AddByIdWork ==
  ASSUME OperatorTypeOK, NEW a \in Admins, NEW p \in Pools, NEW m \in Maps, AddById(a, p, m)
  PROVE  Worked(a, Saving({<<p, pools[p].maps \cup {m}>>}, {}, TRUE, {})) /\ p \in Stored
<1>1. {<<p, pools[p].maps \cup {m}>>} \in SUBSET (Pools \X SUBSET Maps)
  BY StoreTyped DEF AddById
<1>2. {} \in SUBSET (Pools \X Maps) /\ {} \in SUBSET Maps
  OBVIOUS
<1>3. Saving({<<p, pools[p].maps \cup {m}>>}, {}, TRUE, {}) \in Works
  BY <1>1, <1>2, SavingShape
<1> QED BY <1>3 DEF AddById, Then, Worked

LEMMA SaveWork ==
  ASSUME OperatorTypeOK, NEW a \in Admins, Save(a)
  PROVE  \/ work[a].saves = {} /\ Worked(a, [work[a] EXCEPT !.at = "pools"]) /\ UNCHANGED <<pools, stale, behind>>
         \/ \E s \in work[a].saves :
              /\ Accepted(s[1], s[2])
              /\ pools' = [pools EXCEPT ![s[1]].maps = s[2]]
              /\ Worked(a, [work[a] EXCEPT !.saves = work[a].saves \ {s}, !.pools = work[a].pools \cup {s[1]}])
              /\ behind' = IF a \in stale \/ work[a].maps = {}
                             THEN behind \cup (s[2] \ pools[s[1]].maps) \cup (pools[s[1]].maps \ s[2])
                             ELSE behind
              /\ Others(a)
         \/ /\ Worked(a, NoWork) /\ UNCHANGED <<pools, stale>>
            /\ behind' = behind \cup work[a].pools \cup (IF work[a].pools = {} THEN {} ELSE work[a].maps)
<1>0. work[a] \in Works
  BY StoreTyped
<1>1. CASE work[a].saves = {}
  BY <1>0, <1>1, WorkEdits DEF Save, Then, Worked
<1>2. CASE work[a].saves # {}
  <2>1. PICK s \in work[a].saves :
          IF Accepted(s[1], s[2])
                THEN /\ pools' = [pools EXCEPT ![s[1]].maps = s[2]]
                     /\ Then(a, [work[a] EXCEPT !.saves = @ \ {s}, !.pools = @ \cup {s[1]}])
                     /\ behind' = IF a \in stale \/ work[a].maps = {}
                          THEN behind \cup (s[2] \ pools[s[1]].maps) \cup (pools[s[1]].maps \ s[2])
                          ELSE behind
                     /\ Others(a)
                ELSE /\ Then(a, NoWork) /\ UNCHANGED <<pools, stale>>
                     /\ behind' = behind \cup work[a].pools
                          \cup (IF work[a].pools = {} THEN {} ELSE work[a].maps)
    BY <1>2 DEF Save
  <2>2. CASE Accepted(s[1], s[2])
    <3>1. Then(a, [work[a] EXCEPT !.saves = work[a].saves \ {s}, !.pools = work[a].pools \cup {s[1]}])
      BY <2>1, <2>2
    <3>2. Worked(a, [work[a] EXCEPT !.saves = work[a].saves \ {s}, !.pools = work[a].pools \cup {s[1]}])
      BY <1>0, <3>1, WorkEdits DEF Then, Worked
    <3> QED BY <2>1, <2>2, <3>2
  <2>3. CASE ~Accepted(s[1], s[2])
    <3>1. Worked(a, NoWork)
      BY <2>1, <2>3, WorkShapes DEF Then, Worked
    <3> QED BY <2>1, <2>3, <3>1
  <2> QED BY <2>2, <2>3
<1> QED BY <1>1, <1>2

LEMMA LineWork ==
  ASSUME OperatorTypeOK, NEW a \in Admins, ImportLine(a)
  PROVE  \E w \in Works : Worked(a, w) /\ w.at \in {"lines", "created"} /\ w.saves = work[a].saves
<1>0. work[a] \in Works /\ work[a].maps \subseteq Maps
  BY StoreTyped DEF Works
<1>1. PICK m \in work[a].maps :
        \/ Then(a, [work[a] EXCEPT !.at = "created", !.maps = @ \ {m}])
        \/ Then(a, [work[a] EXCEPT !.maps = @ \ {m}])
  BY DEF ImportLine
<1> DEFINE left == work[a].maps \ {m}
<1>2. left \in SUBSET Maps
  BY <1>0
<1>3. Then(a, [work[a] EXCEPT !.at = "created", !.maps = left]) \/ Then(a, [work[a] EXCEPT !.maps = left])
  BY <1>1
<1> HIDE DEF left
<1>4. work[a].at \in {"lines", "created"}
  BY DEF ImportLine
<1>5. CASE Then(a, [work[a] EXCEPT !.at = "created", !.maps = left])
  <2> DEFINE w == [work[a] EXCEPT !.at = "created", !.maps = left]
  <2>1. w \in Works /\ w.at = "created" /\ w.saves = work[a].saves /\ work' = [work EXCEPT ![a] = w]
    BY <1>0, <1>2, <1>5, WorkEdits DEF Then
  <2> HIDE DEF w
  <2> QED BY <2>1 DEF Worked
<1>6. CASE Then(a, [work[a] EXCEPT !.maps = left])
  <2> DEFINE w == [work[a] EXCEPT !.maps = left]
  <2>1. w \in Works /\ w.at = work[a].at /\ w.saves = work[a].saves
    BY <1>0, <1>2 DEF Works
  <2>2. work' = [work EXCEPT ![a] = w]
    BY <1>6 DEF Then
  <2> HIDE DEF w
  <2> QED BY <1>4, <2>1, <2>2 DEF Worked
<1> QED BY <1>3, <1>5, <1>6

LEMMA PostsWork ==
  ASSUME OperatorTypeOK, NEW a \in Admins, PoolPosts(a)
  PROVE  \E ms \in SUBSET Maps : work[a].maps \subseteq ms /\ Worked(a, [work[a] EXCEPT !.at = "maps", !.maps = ms])
<1>0. work[a] \in Works /\ work[a].maps \subseteq Maps /\ \A p \in Stored : pools[p].maps \subseteq Maps
  BY StoreTyped DEF Works
<1>1. \E ms \in SUBSET Maps : Then(a, [work[a] EXCEPT !.at = "maps", !.maps = @ \cup ms])
  <2> DEFINE touched == IF work[a].all THEN Stored ELSE {p \in work[a].pools \cap Stored : board[p] # Nil}
             created == {p \in touched : board[p] = Nil}
             ms == IF created # {} /\ (\E p \in Stored : board[p] # Nil)
                     THEN UNION {pools[p].maps : p \in Stored} ELSE {}
  <2>1. Then(a, [work[a] EXCEPT !.at = "maps", !.maps = @ \cup ms])
    BY DEF PoolPosts
  <2>2. ms \in SUBSET Maps
    BY <1>0
  <2> QED BY <2>1, <2>2
<1>2. PICK ms \in SUBSET Maps : Then(a, [work[a] EXCEPT !.at = "maps", !.maps = work[a].maps \cup ms])
  BY <1>1
<1> DEFINE new == work[a].maps \cup ms
<1>3. new \in SUBSET Maps /\ work[a].maps \subseteq new /\ Then(a, [work[a] EXCEPT !.at = "maps", !.maps = new])
  BY <1>0, <1>2
<1> HIDE DEF new
<1> QED BY <1>0, <1>3, WorkEdits DEF Then, Worked

\* What a step of an operator is, by what it does to the catalogue and the posts.
\* Nothing, but what it forgets to show it leaves behind.
Forgets(a) ==
  /\ behind \subseteq behind'
  /\ OwesAll(a) => OwesAll(a)' \/ Stored \subseteq behind'
  /\ \A p \in Pools : OwesPool(a, p) => OwesPool(a, p)' \/ p \in behind' \/ p \notin Stored
  /\ \A m \in Maps : OwesMap(a, m) => OwesMap(a, m)' \/ m \in behind'
Quiet(a) == UNCHANGED <<pools, maps, board, links>> /\ Forgets(a)
LEMMA FormClosed ==
  ASSUME OperatorTypeOK, NEW a \in Admins, Closed(a) \/ UNCHANGED form
  PROVE  /\ form' \in [Admins -> Forms \cup {Nil}] /\ \A b \in Admins \ {a} : form'[b] = form[b]
         /\ form'[a] = Nil \/ form'[a] = form[a]
BY DEF OperatorTypeOK, Closed

LEMMA WorkedOn ==
  ASSUME OperatorTypeOK, NEW a \in Admins, NEW w, Worked(a, w)
  PROVE  work' \in [Admins -> Works] /\ work'[a] = w /\ \A b \in Admins \ {a} : work'[b] = work[b]
BY DEF OperatorTypeOK, Worked

\* The forms open, and are shut.
LEMMA OpenStep ==
  ASSUME OperatorTypeOK, PoolInvariant, NEW a \in Admins, NEW f \in Forms, Open(a, f),
         f.kind = "editor" =>
           (f.listed = Drafts \/ ~AllListed) /\ f.ticked = f.listed \cap Linking(f.on)
  PROVE  OperatorTypeOK' /\ Apart' /\ Asked' /\ Posted'
<1>0. UNCHANGED <<pools, maps, board, links, work, behind, submits, refusals>> /\ work[a] = NoWork
      /\ form' = [form EXCEPT ![a] = f] /\ stale' = stale \ {a}
  BY DEF Open, Free, store, posts
<1>1. OperatorTypeOK'
  BY <1>0 DEF OperatorTypeOK
<1>2. form'[a] = f /\ \A b \in Admins \ {a} : form'[b] = form[b]
  BY <1>0 DEF OperatorTypeOK
<1>3. Apart'
  BY <1>0, <1>2 DEF PoolInvariant, Apart, SavesApart
<1>4. Asked'
  <2>1. Drafts' = Drafts /\ (\A m : Linking(m)' = Linking(m)) /\ Live' = Live /\ Stored' = Stored
        /\ AllListed' = AllListed
    BY <1>0 DEF Drafts, Linking, Live, Stored, AllListed
  <2>2. FormRead(a)'
    BY <1>2, <2>1 DEF FormRead
  <2>3. SavesRead(a)'
    BY <1>0, WorkShapes DEF SavesRead
  <2>4. ASSUME NEW b \in Admins \ {a}, b \notin stale' PROVE FormRead(b)' /\ SavesRead(b)'
    <3>1. FormRead(b) /\ SavesRead(b)
      BY <1>0, <2>4 DEF PoolInvariant, Asked
    <3>2. FormRead(b)'
      BY <1>2, <2>1, <3>1 DEF FormRead
    <3>3. SavesRead(b)'
      BY <1>0, <2>1, <3>1 DEF SavesRead, Removed, Added
    <3> QED BY <3>2, <3>3
  <2> QED BY <2>2, <2>3, <2>4 DEF Asked
<1>5. Posted'
  BY <1>0 DEF PoolInvariant, Posted, PoolOK, MapOK, Stored, Card, Live, Linking, OwesAll, OwesPool, OwesMap
<1> QED BY <1>1, <1>3, <1>4, <1>5

\* A step after which the catalogue is as it was: what it does to the forms and the
\* work decides.
LEMMA QuietStep ==
  ASSUME OperatorTypeOK, PoolInvariant, NEW a \in Admins, NEW w, Worked(a, w), Closed(a) \/ UNCHANGED form,
         Quiet(a), form'[a] # Nil => w = NoWork,
         stale' \in {stale, stale \ {a}}, behind' \subseteq Pools \cup Maps, {submits', refusals'} \subseteq Nat,
         \A s, r \in w.saves : s[1] = r[1] => s = r,
         a \notin stale' => FormRead(a)' /\ SavesRead(a)'
  PROVE  OperatorTypeOK' /\ Apart' /\ Asked' /\ Posted'
<1>0. UNCHANGED <<pools, maps, board, links>> /\ Forgets(a)
  BY DEF Quiet
<1>1. work'[a] = w /\ \A b \in Admins \ {a} : work'[b] = work[b] /\ form'[b] = form[b]
  BY WorkedOn, FormClosed
<1>2. OperatorTypeOK'
  BY <1>0, WorkedOn, FormClosed DEF OperatorTypeOK
<1>3. Apart'
  BY <1>1 DEF PoolInvariant, Apart, SavesApart
<1>4. Drafts' = Drafts /\ (\A m : Linking(m)' = Linking(m)) /\ Live' = Live /\ Stored' = Stored
      /\ (\A p : Card(p)' = Card(p)) /\ AllListed' = AllListed
  BY <1>0 DEF Drafts, Linking, Live, Stored, Card, AllListed
<1>5. Asked'
  <2>1. ASSUME NEW b \in Admins \ {a}, b \notin stale' PROVE FormRead(b)' /\ SavesRead(b)'
    <3>1. FormRead(b) /\ SavesRead(b)
      BY <2>1 DEF PoolInvariant, Asked
    <3>2. FormRead(b)'
      BY <1>1, <1>4, <3>1 DEF FormRead
    <3>3. SavesRead(b)'
      BY <1>0, <1>1, <1>4, <3>1 DEF SavesRead, Removed, Added
    <3> QED BY <3>2, <3>3
  <2> QED BY <2>1 DEF Asked
<1>6. Posted'
  <2>1. ASSUME NEW b \in Admins \ {a}
        PROVE  /\ OwesAll(b)' <=> OwesAll(b)
               /\ \A p : OwesPool(b, p)' <=> OwesPool(b, p)
               /\ \A m : OwesMap(b, m)' <=> OwesMap(b, m)
    BY <1>1 DEF OwesAll, OwesPool, OwesMap
  <2>2. ASSUME NEW p \in Pools PROVE PoolOK(p)'
    <3> SUFFICES ASSUME p \in Stored \ behind'
                 PROVE  /\ board[p] = Card(p) \/ \E b \in Admins : OwesPool(b, p)'
                        /\ board[p] = Nil => \E b \in Admins : OwesAll(b)'
      BY <1>0, <1>4 DEF PoolOK
    <3>1. PoolOK(p) /\ p \in Stored \ behind
      BY <1>0 DEF PoolInvariant, Posted, Forgets
    <3>2. ASSUME board[p] # Card(p) PROVE \E b \in Admins : OwesPool(b, p)'
      <4>1. PICK b \in Admins : OwesPool(b, p)
        BY <3>1, <3>2 DEF PoolOK
      <4> QED BY <1>0, <2>1, <4>1 DEF Forgets
    <3>3. ASSUME board[p] = Nil PROVE \E b \in Admins : OwesAll(b)'
      <4>1. PICK b \in Admins : OwesAll(b)
        BY <3>1, <3>3 DEF PoolOK
      <4> QED BY <1>0, <2>1, <3>1, <4>1 DEF Forgets
    <3> QED BY <3>2, <3>3
  <2>3. ASSUME NEW m \in Maps PROVE MapOK(m)'
    <3>1. MapOK(m)
      BY DEF PoolInvariant, Posted
    <3>2. ASSUME m \in Live \ behind', links[m] # Nil, links[m] # Linking(m)
          PROVE  \E b \in Admins : OwesMap(b, m)'
      <4>1. PICK b \in Admins : OwesMap(b, m)
        BY <1>0, <3>1, <3>2 DEF MapOK, Forgets
      <4> QED BY <1>0, <2>1, <3>2, <4>1 DEF Forgets
    <3> QED BY <1>0, <1>4, <3>1, <3>2 DEF MapOK
  <2> QED BY <2>2, <2>3 DEF Posted
<1> QED BY <1>2, <1>3, <1>5, <1>6

LEMMA IdleOwes ==
  ASSUME NEW a, work[a].at \notin {"save", "pools", "maps"}
  PROVE  ~OwesAll(a) /\ (\A p : ~OwesPool(a, p)) /\ (\A m : ~OwesMap(a, m))
BY DEF OwesAll, OwesPool, OwesMap

LEMMA IdleForgets ==
  ASSUME NEW a, work[a].at \notin {"save", "pools", "maps"}, behind \subseteq behind'
  PROVE  Forgets(a)
BY IdleOwes DEF Forgets

\* The steps that leave the catalogue and the posts.
LEMMA FormSteps ==
  ASSUME OperatorTypeOK, PoolInvariant, NEW a \in Admins,
         \/ \E m \in Maps : OpenEditor(a, m) \/ OpenMapDelete(a, m)
         \/ \E p \in Pools : OpenCompose(a, p) \/ OpenHardDelete(a, p) \/ OpenDelete(a, p)
         \/ Shut(a)
  PROVE  OperatorTypeOK' /\ Apart' /\ Asked' /\ Posted'
<1>1. ASSUME NEW m \in Maps, OpenEditor(a, m) PROVE OperatorTypeOK' /\ Apart' /\ Asked' /\ Posted'
  <2>0. PICK listed \in SUBSET Drafts :
          Listable(listed) /\ Open(a, [kind |-> "editor", on |-> m, listed |-> listed,
                                       ticked |-> listed \cap Linking(m)])
    BY <1>1 DEF OpenEditor
  <2> DEFINE f == [kind |-> "editor", on |-> m, listed |-> listed, ticked |-> listed \cap Linking(m)]
  <2>1. /\ f \in Forms /\ (f.listed = Drafts \/ ~AllListed) /\ f.ticked = f.listed \cap Linking(f.on)
        /\ Open(a, f)
    BY <2>0, StoreTyped DEF Forms, Listable
  <2> HIDE DEF f
  <2> QED BY <2>1, OpenStep
<1>2. ASSUME NEW p \in Pools, OpenCompose(a, p) PROVE OperatorTypeOK' /\ Apart' /\ Asked' /\ Posted'
  <2> DEFINE f == [kind |-> "compose", on |-> p, available |-> Live \ pools[p].maps, members |-> pools[p].maps \cap Live]
  <2>1. f \in Forms /\ f.kind # "editor" /\ Open(a, f)
    BY <1>2, StoreTyped DEF Forms, OpenCompose
  <2> HIDE DEF f
  <2> QED BY <2>1, OpenStep
<1>3. ASSUME NEW p \in Pools, OpenHardDelete(a, p) PROVE OperatorTypeOK' /\ Apart' /\ Asked' /\ Posted'
  <2> DEFINE f == [kind |-> "erase", on |-> p, maps |-> pools[p].maps]
  <2>1. f \in Forms /\ f.kind # "editor" /\ Open(a, f)
    BY <1>3, StoreTyped DEF Forms, OpenHardDelete
  <2> HIDE DEF f
  <2> QED BY <2>1, OpenStep
<1>5. ASSUME NEW p \in Pools, OpenDelete(a, p) PROVE OperatorTypeOK' /\ Apart' /\ Asked' /\ Posted'
  <2> DEFINE f == [kind |-> "delete", on |-> p]
  <2>1. f \in Forms /\ f.kind # "editor" /\ Open(a, f)
    BY <1>5 DEF Forms, OpenDelete
  <2> HIDE DEF f
  <2> QED BY <2>1, OpenStep
<1>6. ASSUME NEW m \in Maps, OpenMapDelete(a, m) PROVE OperatorTypeOK' /\ Apart' /\ Asked' /\ Posted'
  <2> DEFINE f == [kind |-> "drop", on |-> m]
  <2>1. f \in Forms /\ f.kind # "editor" /\ Open(a, f)
    BY <1>6 DEF Forms, OpenMapDelete
  <2> HIDE DEF f
  <2> QED BY <2>1, OpenStep
<1>4. CASE Shut(a)
  <2>1. work[a] = NoWork /\ Closed(a) /\ UNCHANGED <<pools, maps, board, links, work, stale, behind, submits, refusals>>
    BY <1>4 DEF Shut, PoolInvariant, Apart, store, posts, Closed
  <2>2. Worked(a, NoWork) /\ form'[a] = Nil
    <3>1. work \in [Admins -> Works] /\ form \in [Admins -> Forms \cup {Nil}]
      BY DEF OperatorTypeOK
    <3>2. work' = [work EXCEPT ![a] = NoWork]
      BY <2>1, <3>1
    <3>3. form'[a] = Nil
      BY <2>1, <3>1 DEF Closed
    <3>4. NoWork \in Works
      BY WorkShapes
    <3> QED BY <3>2, <3>3, <3>4 DEF Worked
  <2>3. Quiet(a)
    BY <2>1, IdleForgets, WorkShapes DEF Quiet
  <2>4. FormRead(a)' /\ SavesRead(a)'
    BY <2>1, <2>2, WorkShapes DEF FormRead, SavesRead
  <2> QED BY <2>1, <2>2, <2>3, <2>4, QuietStep, WorkShapes DEF OperatorTypeOK
<1> QED BY <1>1, <1>2, <1>3, <1>4, <1>5, <1>6

\* A submit that saves nothing yet.
LEMMA SavingStep ==
  ASSUME OperatorTypeOK, PoolInvariant, NEW a \in Admins, NEW w, Worked(a, w), Closed(a) \/ UNCHANGED form,
         work[a] = NoWork, form'[a] = Nil, UNCHANGED <<pools, maps, board, links, behind, refusals>>,
         stale' \in {stale, stale \ {a}}, submits' \in Nat,
         \A s, r \in w.saves : s[1] = r[1] => s = r,
         a \notin stale' /\ w.at = "save" =>
           \A s \in w.saves :
             /\ s[1] \in Stored
             /\ \A m \in Removed(s) : <<s[1], m>> \in w.asked \/ (s[1] \in w.hidden /\ ~AllListed)
             /\ w.maps # {} => Removed(s) \cup Added(s) \subseteq w.maps
  PROVE  OperatorTypeOK' /\ Apart' /\ Asked' /\ Posted'
<1>1. Quiet(a)
  BY IdleForgets, WorkShapes DEF Quiet
<1>2. work'[a] = w
  BY WorkedOn
<1>3. a \notin stale' => FormRead(a)' /\ SavesRead(a)'
  BY <1>2 DEF FormRead, SavesRead, Removed, Added, Live, Stored, Drafts, AllListed
<1> QED BY <1>1, <1>3, QuietStep DEF OperatorTypeOK

LEMMA SubmitsForm ==
  ASSUME OperatorTypeOK, NEW a \in Admins, Submitted(a)
  PROVE  Closed(a) /\ form'[a] = Nil /\ submits' \in Nat
BY DEF Submitted, Closed, OperatorTypeOK

LEMMA SubmitEditorStep ==
  ASSUME OperatorTypeOK, PoolInvariant, NEW a \in Admins, SubmitEditor(a)
  PROVE  OperatorTypeOK' /\ Apart' /\ Asked' /\ Posted'
<1>0. /\ work[a] = NoWork /\ Closed(a) /\ form'[a] = Nil /\ submits' \in Nat
      /\ UNCHANGED <<pools, maps, board, links, behind, refusals, stale>>
      /\ form[a].on \in Maps /\ form[a].listed \subseteq Pools /\ form[a].ticked \subseteq Pools
      /\ form[a] # Nil /\ form[a].kind = "editor"
  BY SubmitsForm, StoreTyped DEF SubmitEditor, PoolInvariant, Apart, store, posts, Forms
<1>1. CASE Worked(a, NoWork)
  BY <1>0, <1>1, SavingStep, WorkShapes
<1>2. CASE \E chosen \in SUBSET form[a].listed : Worked(a, AfterEditor(a, chosen))
  <2> DEFINE m == form[a].on
  <2>1. PICK chosen \in SUBSET form[a].listed : Worked(a, AfterEditor(a, chosen))
    BY <1>2
  <2> DEFINE saves == {<<p, Toggled(p, m)>> : p \in Differing(m, chosen)}
             asked == (form[a].ticked \ chosen) \X {m}
             unseen == Drafts \ form[a].listed
             w == [Saving(saves, asked, FALSE, {m}) EXCEPT !.hidden = unseen]
  <2>2. saves \in SUBSET (Pools \X SUBSET Maps) /\ asked \in SUBSET (Pools \X Maps)
    BY <1>0, StoreTyped DEF Toggled, Differing
  <2>t. {m} \in SUBSET Maps
    BY <1>0
  <2> HIDE DEF saves, asked, m, unseen
  <2>3. w.at = "save" /\ w.saves = saves /\ w.asked = asked /\ w.maps = {m} /\ w.hidden = unseen
    BY DEF Saving, NoWork
  <2> USE DEF saves, asked, m, unseen
  <2>4. \A s, r \in saves : s[1] = r[1] => s = r
    OBVIOUS
  <2>5. ASSUME NEW s \in saves, a \notin stale
        PROVE  /\ s[1] \in Stored /\ Removed(s) \cup Added(s) \subseteq {m}
               /\ \A n \in Removed(s) : <<s[1], n>> \in asked \/ (s[1] \in unseen /\ ~AllListed)
    <3>1. PICK p \in Differing(m, chosen) : s = <<p, Toggled(p, m)>>
      OBVIOUS
    <3>2. p \in Drafts /\ p \in Stored /\ (p \in Linking(m)) # (p \in chosen)
      BY <3>1, StoreTyped DEF Differing
    <3>3. Removed(s) \cup Added(s) \subseteq {m}
      BY <3>1 DEF Removed, Added, Toggled
    <3>4. ASSUME NEW n \in Removed(s) PROVE <<p, n>> \in asked \/ (p \in unseen /\ ~AllListed)
      <4>1. n = m
        BY <3>3, <3>4
      <4>2. p \in Linking(m)
        BY <3>1, <3>2, <3>4, <4>1 DEF Removed, Toggled, Linking
      <4>3. form[a].ticked = form[a].listed \cap Linking(m) /\ (form[a].listed = Drafts \/ ~AllListed)
        BY <1>0, <2>5 DEF PoolInvariant, Asked, FormRead
      <4> QED BY <3>2, <4>1, <4>2, <4>3
    <3> QED BY <3>1, <3>2, <3>3, <3>4
  <2>6. Worked(a, w)
    BY <2>1 DEF AfterEditor
  <2> HIDE DEF w, saves, asked, unseen
  <2> QED BY <1>0, <2>3, <2>4, <2>5, <2>6, SavingStep
<1> QED BY <1>1, <1>2, EditorWork

LEMMA SubmitComposeStep ==
  ASSUME OperatorTypeOK, PoolInvariant, NEW a \in Admins, SubmitCompose(a)
  PROVE  OperatorTypeOK' /\ Apart' /\ Asked' /\ Posted'
<1>0. /\ work[a] = NoWork /\ Closed(a) /\ form'[a] = Nil /\ submits' \in Nat
      /\ UNCHANGED <<pools, maps, board, links, behind, refusals, stale>>
  BY SubmitsForm DEF SubmitCompose, PoolInvariant, Apart, store, posts
<1>1. CASE Worked(a, NoWork)
  BY <1>0, <1>1, SavingStep, WorkShapes
<1>2. CASE \E p \in Stored, add \in SUBSET Maps, remove \in SUBSET Maps :
              Worked(a, Saving({<<p, Composed(p, add, remove)>>}, {p} \X remove, TRUE, Touched(p, add, remove)))
  <2>1. PICK p \in Stored, add \in SUBSET Maps, remove \in SUBSET Maps :
              Worked(a, Saving({<<p, Composed(p, add, remove)>>}, {p} \X remove, TRUE, Touched(p, add, remove)))
    BY <1>2
  <2> DEFINE saves == {<<p, Composed(p, add, remove)>>}
             asked == {p} \X remove
             w == Saving(saves, asked, TRUE, Touched(p, add, remove))
  <2>2. saves \in SUBSET (Pools \X SUBSET Maps) /\ asked \in SUBSET (Pools \X Maps)
        /\ Touched(p, add, remove) \in SUBSET Maps
    BY StoreTyped DEF Composed, Touched, Addable
  <2> HIDE DEF saves, asked
  <2>3. w.at = "save" /\ w.saves = saves /\ w.asked = asked /\ w.maps = Touched(p, add, remove)
    BY DEF Saving, NoWork
  <2> USE DEF saves, asked
  <2>4. \A s, r \in saves : s[1] = r[1] => s = r
    OBVIOUS
  <2>5. ASSUME NEW s \in saves
        PROVE  /\ s[1] \in Stored /\ Removed(s) \cup Added(s) \subseteq Touched(p, add, remove)
               /\ \A n \in Removed(s) : <<s[1], n>> \in asked
    <3>1. s = <<p, Composed(p, add, remove)>>
      OBVIOUS
    <3>2. Removed(s) \subseteq pools[p].maps \cap remove
      BY <3>1 DEF Removed, Composed
    <3>3. Added(s) \subseteq (add \cap Live) \ pools[p].maps
      BY <3>1 DEF Added, Composed
    <3> QED BY <3>1, <3>2, <3>3 DEF Touched, Addable
  <2>6. Worked(a, w)
    BY <2>1
  <2> HIDE DEF w, saves, asked
  <2> QED BY <1>0, <2>3, <2>4, <2>5, <2>6, SavingStep
<1> QED BY <1>1, <1>2, ComposeWork

LEMMA AddByIdStep ==
  ASSUME OperatorTypeOK, PoolInvariant, NEW a \in Admins, NEW p \in Pools, NEW m \in Maps, AddById(a, p, m)
  PROVE  OperatorTypeOK' /\ Apart' /\ Asked' /\ Posted'
<1>0. /\ work[a] = NoWork /\ Closed(a) /\ form'[a] = Nil /\ submits' \in Nat
      /\ UNCHANGED <<pools, maps, board, links, behind, refusals>> /\ stale' = stale \ {a}
  BY SubmitsForm DEF AddById, Free, store, posts
<1> DEFINE saves == {<<p, pools[p].maps \cup {m}>>}
           w == Saving(saves, {}, TRUE, {})
<1>1. p \in Stored /\ Worked(a, w)
  BY AddByIdWork
<1>2. saves \in SUBSET (Pools \X SUBSET Maps) /\ {} \in SUBSET (Pools \X Maps) /\ {} \in SUBSET Maps
  BY <1>1, StoreTyped
<1> HIDE DEF saves
<1>3. w.at = "save" /\ w.saves = saves /\ w.asked = {} /\ w.maps = {}
  BY DEF Saving, NoWork
<1> USE DEF saves
<1>4. (\A s, r \in saves : s[1] = r[1] => s = r) /\ \A s \in saves : s[1] \in Stored /\ Removed(s) = {}
  BY <1>1 DEF Removed
<1> HIDE DEF w, saves
<1> QED BY <1>0, <1>1, <1>3, <1>4, SavingStep

LEMMA ListSteps ==
  ASSUME OperatorTypeOK, PoolInvariant, NEW a \in Admins,
         \/ \E ms \in SUBSET Maps : ImportList(a, ms)
         \/ ListEnds(a) \/ SyncFails(a)
  PROVE  OperatorTypeOK' /\ Apart' /\ Asked' /\ Posted'
<1>1. ASSUME NEW ms \in SUBSET Maps, ImportList(a, ms) PROVE OperatorTypeOK' /\ Apart' /\ Asked' /\ Posted'
  <2>0. /\ work[a] = NoWork /\ Closed(a) /\ form'[a] = Nil /\ submits' \in Nat
        /\ UNCHANGED <<pools, maps, board, links, behind, refusals, stale>>
    BY <1>1, SubmitsForm DEF ImportList, Free, store, posts
  <2> DEFINE w == [NoWork EXCEPT !.at = "lines", !.maps = ms]
  <2>1. w \in Works /\ w.at = "lines" /\ w.saves = {} /\ work' = [work EXCEPT ![a] = w]
    BY <1>1, WorkShapes DEF ImportList, Then
  <2> HIDE DEF w
  <2> QED BY <2>0, <2>1, SavingStep DEF Worked
<1>2. CASE ListEnds(a) \/ SyncFails(a)
  <2>0. /\ work[a].at \in {"lines", "created", "sync"} /\ UNCHANGED form
        /\ UNCHANGED <<pools, maps, board, links, behind, stale, submits>> /\ refusals' \in Nat
    BY <1>2, PoolPanelsAssumption DEF ListEnds, SyncFails, store, posts, OperatorTypeOK
  <2>1. \E w : Worked(a, w) /\ w.at # "save" /\ w.saves = {}
    <3>1. CASE ListEnds(a)
      <4> DEFINE at == IF work[a].at = "created" THEN "sync" ELSE "idle"
                 w == [NoWork EXCEPT !.at = at]
      <4>1. at \in {"idle", "sync"} /\ work' = [work EXCEPT ![a] = w]
        BY <3>1 DEF ListEnds, Then
      <4>2. w \in Works /\ w.at = at /\ w.saves = {}
        BY <4>1, WorkShapes
      <4> HIDE DEF w
      <4> QED BY <4>1, <4>2 DEF Worked
    <3>2. CASE SyncFails(a)
      <4>1. Worked(a, NoWork)
        BY <3>2, WorkShapes DEF SyncFails, Then, Worked
      <4>2. NoWork.at # "save" /\ NoWork.saves = {}
        BY WorkShapes
      <4> QED BY <4>1, <4>2
    <3> QED BY <1>2, <3>1, <3>2
  <2>2. PICK w : Worked(a, w) /\ w.at # "save" /\ w.saves = {}
    BY <2>1
  <2>3. form[a] = Nil
    BY <2>0, WorkShapes DEF PoolInvariant, Apart
  <2>4. Quiet(a)
    BY <2>0, IdleForgets DEF Quiet
  <2>5. FormRead(a)' /\ SavesRead(a)'
    BY <2>0, <2>2, <2>3, WorkedOn DEF FormRead, SavesRead
  <2> QED BY <2>0, <2>2, <2>3, <2>4, <2>5, QuietStep DEF OperatorTypeOK
<1> QED BY <1>1, <1>2

LEMMA RefreshFailsStep ==
  ASSUME OperatorTypeOK, PoolInvariant, NEW a \in Admins, RefreshFails(a)
  PROVE  OperatorTypeOK' /\ Apart' /\ Asked' /\ Posted'
<1>0. /\ work[a].at \in {"pools", "maps"} /\ UNCHANGED <<pools, maps, board, links, form, stale, submits>>
      /\ refusals' \in Nat /\ work[a].maps \subseteq Maps /\ work[a].pools \subseteq Pools
      /\ behind' = behind \cup work[a].maps \cup (IF work[a].at = "maps" THEN {}
                                              ELSE IF work[a].all THEN Stored ELSE work[a].pools)
  BY StoreTyped DEF RefreshFails, store, posts, OperatorTypeOK, Works
<1>1. Worked(a, NoWork)
  BY WorkShapes DEF RefreshFails, Then, Worked
<1>2. form[a] = Nil
  BY <1>0, WorkShapes DEF PoolInvariant, Apart
<1>3. Quiet(a)
  BY <1>0 DEF Quiet, Forgets, OwesAll, OwesPool, OwesMap
<1>w. work'[a] = NoWork /\ NoWork.at # "save" /\ NoWork.saves = {}
  <2>1. work'[a] = NoWork
    BY <1>1, WorkedOn
  <2> QED BY <2>1, WorkShapes
<1>4. FormRead(a)' /\ SavesRead(a)'
  BY <1>0, <1>2, <1>w DEF FormRead, SavesRead
<1>5. behind' \subseteq Pools \cup Maps
  BY <1>0, StoreTyped DEF OperatorTypeOK
<1>6. {submits', refusals'} \subseteq Nat /\ stale' \in {stale, stale \ {a}} /\ form'[a] = Nil
  BY <1>0, <1>2 DEF OperatorTypeOK
<1>7. \A s, r \in NoWork.saves : s[1] = r[1] => s = r
  BY <1>w
<1> QED BY <1>0, <1>1, <1>3, <1>4, <1>5, <1>6, <1>7, QuietStep

\* A save that goes on to the posts, and one that is refused.
LEMMA SaveEndsStep ==
  ASSUME OperatorTypeOK, PoolInvariant, NEW a \in Admins, work[a].at = "save",
         UNCHANGED <<pools, maps, board, links, form, stale, submits, refusals>>,
         \/ Worked(a, [work[a] EXCEPT !.at = "pools"]) /\ behind' = behind /\ work[a].saves = {}
         \/ Worked(a, NoWork) /\ behind' = behind \cup work[a].pools
                                            \cup (IF work[a].pools = {} THEN {} ELSE work[a].maps)
  PROVE  OperatorTypeOK' /\ Apart' /\ Asked' /\ Posted'
<1>0. work[a] \in Works /\ work[a].maps \subseteq Maps /\ work[a].pools \subseteq Pools /\ behind \subseteq Pools \cup Maps
  BY StoreTyped DEF Works, OperatorTypeOK
<1>1. form[a] = Nil
  BY WorkShapes DEF PoolInvariant, Apart
<1>2. CASE Worked(a, [work[a] EXCEPT !.at = "pools"]) /\ behind' = behind /\ work[a].saves = {}
  <2> DEFINE v == [work[a] EXCEPT !.at = "pools"]
  <2>1. v.at = "pools" /\ v.saves = {} /\ v.pools = work[a].pools /\ v.maps = work[a].maps
    BY <1>0, <1>2 DEF Works
  <2>2. Worked(a, v) /\ behind' = behind
    BY <1>2
  <2> HIDE DEF v
  <2>3. work'[a] = v
    BY <2>2, WorkedOn
  <2>4. Quiet(a)
    BY <2>1, <2>2, <2>3 DEF Quiet, Forgets, OwesAll, OwesPool, OwesMap
  <2>5. FormRead(a)' /\ SavesRead(a)'
    BY <1>1, <2>1, <2>3 DEF FormRead, SavesRead
  <2> QED BY <1>0, <1>1, <2>1, <2>2, <2>4, <2>5, QuietStep DEF OperatorTypeOK
<1>3. CASE Worked(a, NoWork) /\ behind' = behind \cup work[a].pools
                                            \cup (IF work[a].pools = {} THEN {} ELSE work[a].maps)
  <2>3. work'[a] = NoWork
    BY <1>3, WorkedOn
  <2>4. Quiet(a)
    BY <1>3 DEF Quiet, Forgets, OwesAll, OwesPool, OwesMap
  <2>5. FormRead(a)' /\ SavesRead(a)'
    BY <1>1, <2>3, WorkShapes DEF FormRead, SavesRead
  <2>6. behind' \subseteq Pools \cup Maps
    BY <1>0, <1>3
  <2> QED BY <1>1, <1>3, <2>4, <2>5, <2>6, QuietStep, WorkShapes DEF OperatorTypeOK
<1> QED BY <1>2, <1>3

\* A step after which every other operator is stale.
LEMMA OthersStep ==
  ASSUME OperatorTypeOK, PoolInvariant, NEW a \in Admins, NEW w, Worked(a, w), Closed(a) \/ UNCHANGED form,
         form'[a] = Nil, Others(a), w.at # "save", w.saves = {}
  PROVE  /\ Apart' /\ Asked' /\ stale' \subseteq Admins
         /\ work' \in [Admins -> Works] /\ form' \in [Admins -> Forms \cup {Nil}]
<1>1. work'[a] = w /\ \A b \in Admins \ {a} : work'[b] = work[b] /\ form'[b] = form[b]
  BY WorkedOn, FormClosed
<1>2. Apart'
  BY <1>1 DEF PoolInvariant, Apart, SavesApart
<1>3. Asked'
  BY <1>1 DEF Others, Asked, FormRead, SavesRead
<1> QED BY <1>2, <1>3, WorkedOn, FormClosed DEF Others, OperatorTypeOK

\* What the posts of a pool and of a map need of a step.
LEMMA PoolKept ==
  ASSUME NEW a \in Admins, \A b \in Admins \ {a} : work'[b] = work[b], NEW p \in Pools, PoolOK(p),
         p \in Stored' => p \in Stored, p \in Stored' \ behind' => Card(p)' = Card(p),
         board'[p] = board[p], p \in behind => p \in behind',
         p \notin behind' => (OwesAll(a) => OwesAll(a)') /\ (OwesPool(a, p) => OwesPool(a, p)')
  PROVE  PoolOK(p)'
<1>1. ASSUME NEW b \in Admins \ {a} PROVE (OwesAll(b)' <=> OwesAll(b)) /\ (OwesPool(b, p)' <=> OwesPool(b, p))
  BY DEF OwesAll, OwesPool
<1>2. ASSUME p \in Stored' \ behind', board[p] # Card(p) PROVE \E b \in Admins : OwesPool(b, p)'
  <2>1. PICK b \in Admins : OwesPool(b, p)
    BY <1>2 DEF PoolOK
  <2> QED BY <1>1, <1>2, <2>1
<1>3. ASSUME p \in Stored' \ behind', board[p] = Nil PROVE \E b \in Admins : OwesAll(b)'
  <2>1. PICK b \in Admins : OwesAll(b)
    BY <1>3 DEF PoolOK
  <2> QED BY <1>1, <1>3, <2>1
<1> QED BY <1>2, <1>3 DEF PoolOK

LEMMA MapKept ==
  ASSUME NEW a \in Admins, \A b \in Admins \ {a} : work'[b] = work[b], NEW m \in Maps, MapOK(m),
         m \in Live' <=> m \in Live, m \in Live' \ behind' => Linking(m)' = Linking(m),
         links'[m] = links[m], m \in behind => m \in behind',
         m \notin behind' => (OwesMap(a, m) => OwesMap(a, m)')
  PROVE  MapOK(m)'
<1>1. ASSUME NEW b \in Admins \ {a} PROVE OwesMap(b, m)' <=> OwesMap(b, m)
  BY DEF OwesMap
<1>2. ASSUME m \in Live' \ behind', links[m] # Nil, links[m] # Linking(m) PROVE \E b \in Admins : OwesMap(b, m)'
  <2>1. PICK b \in Admins : OwesMap(b, m)
    BY <1>2 DEF MapOK
  <2> QED BY <1>1, <1>2, <2>1
<1> QED BY <1>2 DEF MapOK

LEMMA SavedStep ==
  ASSUME OperatorTypeOK, PoolInvariant, NEW a \in Admins, work[a].at = "save", NEW s \in work[a].saves,
         Accepted(s[1], s[2]), pools' = [pools EXCEPT ![s[1]].maps = s[2]],
         Worked(a, [work[a] EXCEPT !.saves = work[a].saves \ {s}, !.pools = work[a].pools \cup {s[1]}]),
         behind' = IF a \in stale \/ work[a].maps = {}
                     THEN behind \cup (s[2] \ pools[s[1]].maps) \cup (pools[s[1]].maps \ s[2]) ELSE behind,
         Others(a), UNCHANGED <<maps, board, links, form, submits, refusals>>
  PROVE  OperatorTypeOK' /\ Apart' /\ Asked' /\ Posted'
<1> DEFINE p == s[1]
           w == [work[a] EXCEPT !.saves = work[a].saves \ {s}, !.pools = work[a].pools \cup {s[1]}]
<1>0. /\ work[a] \in Works /\ p \in Stored /\ p \in Pools /\ s[2] \in SUBSET Maps
      /\ pools[p] \in Documents /\ pools[p].maps \subseteq Maps
  BY StoreTyped DEF Works, Accepted
<1>1. /\ w \in Works /\ w.at = "save" /\ w.saves = work[a].saves \ {s} /\ w.pools = work[a].pools \cup {p}
      /\ w.all = work[a].all /\ w.maps = work[a].maps /\ w.asked = work[a].asked
      /\ w.hidden = work[a].hidden
  <2>1. work[a].saves \ {s} \in SUBSET (Pools \X SUBSET Maps) /\ work[a].pools \cup {s[1]} \in SUBSET Pools
    BY <1>0 DEF Works
  <2> QED BY <1>0, <2>1 DEF Works
<1>2. Worked(a, w)
  OBVIOUS
<1> HIDE DEF w
<1>3. work'[a] = w /\ (\A b \in Admins \ {a} : work'[b] = work[b]) /\ work' \in [Admins -> Works]
  BY <1>2, WorkedOn
<1>4. /\ pools' \in [Pools -> Documents \cup {Nil}] /\ pools'[p] \in Documents /\ pools'[p].maps = s[2]
      /\ pools'[p].state = pools[p].state /\ \A q \in Pools \ {p} : pools'[q] = pools[q]
  <2>1. [pools[p] EXCEPT !.maps = s[2]] \in Documents /\ [pools[p] EXCEPT !.maps = s[2]].maps = s[2]
        /\ [pools[p] EXCEPT !.maps = s[2]].state = pools[p].state
    BY <1>0 DEF Documents
  <2>2. pools' = [pools EXCEPT ![p] = [pools[p] EXCEPT !.maps = s[2]]]
    OBVIOUS
  <2> DEFINE d == [pools[p] EXCEPT !.maps = s[2]]
  <2> HIDE DEF d, p
  <2>3. pools' = [pools EXCEPT ![p] = d] /\ d \in Documents /\ d.maps = s[2] /\ d.state = pools[p].state
    BY <2>1, <2>2 DEF d
  <2>4. pools \in [Pools -> Documents \cup {Nil}] /\ p \in Pools
    BY <1>0 DEF OperatorTypeOK
  <2> QED BY <2>3, <2>4
<1>5. OperatorTypeOK'
  <2>1. behind' \subseteq Pools \cup Maps
    BY <1>0 DEF OperatorTypeOK
  <2> QED BY <1>3, <1>4, <2>1 DEF OperatorTypeOK, Others
<1>6. form[a] = Nil
  BY WorkShapes DEF PoolInvariant, Apart
<1>7. Apart'
  <2>1. SavesApart(a)'
    BY <1>1, <1>3 DEF PoolInvariant, Apart, SavesApart
  <2> QED BY <1>3, <1>6, <2>1 DEF PoolInvariant, Apart, SavesApart
<1>8. Stored' = Stored /\ Live' = Live /\ AllListed' = AllListed
  <2>1. Stored' = Stored
    BY <1>0, <1>4, PoolPanelsAssumption DEF Stored, OperatorTypeOK
  <2>2. Drafts' = Drafts
    BY <1>4, <2>1, StoreTyped DEF Drafts
  <2> QED BY <2>1, <2>2 DEF Live, AllListed
<1>9. ASSUME a \notin stale' PROVE FormRead(a)' /\ SavesRead(a)'
  <2>1. a \notin stale /\ SavesRead(a)
    BY <1>9 DEF Others, PoolInvariant, Asked
  <2>2. ASSUME NEW r \in w.saves
        PROVE  /\ r[1] \in Stored'
               /\ \A m \in Removed(r)' : <<r[1], m>> \in w.asked \/ (r[1] \in w.hidden /\ ~AllListed')
               /\ w.maps # {} => Removed(r)' \cup Added(r)' \subseteq w.maps
    <3>1. r \in work[a].saves /\ r[1] # p /\ r[1] \in Pools
      BY <1>0, <1>1, <2>2 DEF PoolInvariant, Apart, SavesApart, Works
    <3>2. Removed(r)' = Removed(r) /\ Added(r)' = Added(r)
      BY <1>4, <1>8, <3>1 DEF Removed, Added
    <3> QED BY <1>1, <1>8, <2>1, <3>1, <3>2 DEF SavesRead
  <2>3. SavesRead(a)'
    BY <1>1, <1>3, <2>2 DEF SavesRead
  <2> QED BY <1>6, <2>3 DEF FormRead
<1>10. Asked'
  BY <1>9 DEF Asked, Others
<1>11. ASSUME NEW q \in Pools PROVE PoolOK(q)'
  <2>1. PoolOK(q)
    BY DEF PoolInvariant, Posted
  <2>2. ~OwesAll(a)
    BY DEF OwesAll
  <2>3. CASE q = p
    <3>1. OwesPool(a, p)'
      BY <1>1, <1>3 DEF OwesPool
    <3>2. p \notin behind' => p \notin behind
      OBVIOUS
    <3>3. p \in Stored' \ behind' /\ board[p] = Nil => \E b \in Admins : OwesAll(b)'
      <4> SUFFICES ASSUME p \in Stored' \ behind', board[p] = Nil PROVE \E b \in Admins : OwesAll(b)'
        OBVIOUS
      <4>1. PICK b \in Admins : OwesAll(b)
        BY <1>8, <2>1, <2>3, <3>2 DEF PoolOK
      <4> QED BY <1>3, <2>2, <4>1 DEF OwesAll
    <3> QED BY <2>3, <3>1, <3>3 DEF PoolOK
  <2>4. CASE q # p
    <3>1. Card(q)' = Card(q) /\ board'[q] = board[q] /\ (q \in behind => q \in behind')
      BY <1>4, <1>8, <2>4 DEF Card
    <3>2. OwesPool(a, q) => OwesPool(a, q)'
      BY <1>1, <1>3 DEF OwesPool, OwesAll
    <3> QED BY <1>3, <1>8, <2>1, <2>2, <3>1, <3>2, PoolKept
  <2> QED BY <2>3, <2>4
<1>12. ASSUME NEW m \in Maps PROVE MapOK(m)'
  <2>1. MapOK(m)
    BY DEF PoolInvariant, Posted
  <2>2. OwesMap(a, m) => OwesMap(a, m)'
    BY <1>1, <1>3 DEF OwesMap
  <2>3. CASE (m \in s[2]) = (m \in pools[p].maps)
    <3>1. Linking(m)' = Linking(m)
      BY <1>0, <1>4, <1>8, <2>3 DEF Linking, Stored
    <3>2. m \in behind => m \in behind'
      OBVIOUS
    <3> QED BY <1>3, <1>8, <2>1, <2>2, <3>1, <3>2, MapKept
  <2>4. CASE (m \in s[2]) # (m \in pools[p].maps)
    <3>1. ASSUME m \in Live \ behind' PROVE OwesMap(a, m)'
      <4>1. a \notin stale /\ work[a].maps # {}
        BY <2>4, <3>1
      <4>2. m \in Removed(s) \cup Added(s)
        BY <2>4, <3>1 DEF Removed, Added
      <4>3. m \in work[a].maps
        BY <4>1, <4>2 DEF PoolInvariant, Asked, SavesRead
      <4> QED BY <1>1, <1>3, <4>3 DEF OwesMap
    <3> QED BY <1>8, <2>1, <3>1 DEF MapOK
  <2> QED BY <2>3, <2>4
<1> QED BY <1>5, <1>7, <1>10, <1>11, <1>12 DEF Posted

LEMMA SaveStep ==
  ASSUME OperatorTypeOK, PoolInvariant, NEW a \in Admins, Save(a)
  PROVE  OperatorTypeOK' /\ Apart' /\ Asked' /\ Posted'
<1>1. work[a].at = "save" /\ UNCHANGED <<maps, board, links, form, submits, refusals>>
  BY DEF Save, posts
<1>2. CASE \E s \in work[a].saves :
              /\ Accepted(s[1], s[2])
              /\ pools' = [pools EXCEPT ![s[1]].maps = s[2]]
              /\ Worked(a, [work[a] EXCEPT !.saves = work[a].saves \ {s}, !.pools = work[a].pools \cup {s[1]}])
              /\ behind' = IF a \in stale \/ work[a].maps = {}
                             THEN behind \cup (s[2] \ pools[s[1]].maps) \cup (pools[s[1]].maps \ s[2])
                             ELSE behind
              /\ Others(a)
  BY <1>1, <1>2, SavedStep
<1>3. CASE work[a].saves = {} /\ Worked(a, [work[a] EXCEPT !.at = "pools"]) /\ UNCHANGED <<pools, stale, behind>>
  BY <1>1, <1>3, SaveEndsStep
<1>4. CASE /\ Worked(a, NoWork) /\ UNCHANGED <<pools, stale>>
           /\ behind' = behind \cup work[a].pools \cup (IF work[a].pools = {} THEN {} ELSE work[a].maps)
  BY <1>1, <1>4, SaveEndsStep
<1> QED BY <1>2, <1>3, <1>4, SaveWork

LEMMA CreatedStep ==
  ASSUME OperatorTypeOK, PoolInvariant, NEW a \in Admins, NEW p \in Pools, NEW ms \in SUBSET Maps, NEW w,
         w \in {NoWork, Refreshing({}, TRUE, {})}, Created(a, p, ms, w)
  PROVE  OperatorTypeOK' /\ Apart' /\ Asked' /\ Posted'
<1>0. /\ work[a] = NoWork /\ Closed(a) /\ form'[a] = Nil /\ submits' \in Nat /\ p \notin Stored
      /\ pools' = [pools EXCEPT ![p] = Fresh(ms)] /\ Others(a) /\ work' = [work EXCEPT ![a] = w]
      /\ behind' = behind \cup ms \cup (IF w = NoWork THEN {p} ELSE {})
      /\ UNCHANGED <<maps, board, links, refusals>>
  BY SubmitsForm DEF Created, Free, posts, Then
<1>1. w \in Works /\ w.at # "save" /\ w.saves = {} /\ (w # NoWork => w.at = "pools" /\ w.all)
  <2>1. CASE w = NoWork
    BY <2>1, WorkShapes
  <2>2. CASE w = Refreshing({}, TRUE, {})
    BY <2>2 DEF Refreshing, NoWork, Works
  <2> QED BY <2>1, <2>2
<1>2. Worked(a, w)
  BY <1>0, <1>1 DEF Worked
<1>3. work'[a] = w /\ (\A b \in Admins \ {a} : work'[b] = work[b])
  BY <1>2, WorkedOn
<1>4. Fresh(ms) \in Documents /\ Fresh(ms).maps = ms
  BY DEF Fresh, Documents, States
<1>5. /\ pools' \in [Pools -> Documents \cup {Nil}] /\ pools'[p] = Fresh(ms)
      /\ \A q \in Pools \ {p} : pools'[q] = pools[q]
  BY <1>0, <1>4 DEF OperatorTypeOK
<1>6. /\ Apart' /\ Asked' /\ stale' \subseteq Admins
      /\ work' \in [Admins -> Works] /\ form' \in [Admins -> Forms \cup {Nil}]
  BY <1>0, <1>1, <1>2, OthersStep
<1>7. OperatorTypeOK'
  BY <1>0, <1>5, <1>6 DEF OperatorTypeOK
<1>8. Live' = Live /\ \A q \in Pools \ {p} : (q \in Stored' <=> q \in Stored) /\ Card(q)' = Card(q)
  <2>1. Live' = Live
    BY <1>0 DEF Live
  <2> QED BY <1>5, <2>1 DEF Stored, Card
<1>9. ASSUME NEW q \in Pools PROVE PoolOK(q)'
  <2>1. CASE q = p
    BY <1>0, <1>1, <1>3, <2>1 DEF PoolOK, OwesPool, OwesAll
  <2>2. CASE q # p
    <3>1. PoolOK(q) /\ ~OwesAll(a) /\ ~OwesPool(a, q)
      BY <1>0, IdleOwes, WorkShapes DEF PoolInvariant, Posted
    <3> QED BY <1>0, <1>3, <1>8, <2>2, <3>1, PoolKept
  <2> QED BY <2>1, <2>2
<1>10. ASSUME NEW m \in Maps PROVE MapOK(m)'
  <2>1. MapOK(m) /\ ~OwesMap(a, m)
    BY <1>0, IdleOwes, WorkShapes DEF PoolInvariant, Posted
  <2>2. m \notin ms => Linking(m)' = Linking(m)
    BY <1>0, <1>4, <1>5, <1>8 DEF Linking, Stored
  <2> QED BY <1>0, <1>3, <1>8, <2>1, <2>2, MapKept
<1> QED BY <1>6, <1>7, <1>9, <1>10 DEF Posted

\* A pool that changes its state.
LEMMA MovedStep ==
  ASSUME OperatorTypeOK, PoolInvariant, NEW a \in Admins, NEW p \in Pools, NEW d \in Documents, NEW w \in Works,
         p \in Stored, pools' = [pools EXCEPT ![p] = d], d.maps = pools[p].maps,
         work[a] = NoWork, Submitted(a), work' = [work EXCEPT ![a] = w], w.at = "pools", w.saves = {},
         w.all \/ p \in w.pools,
         Others(a), UNCHANGED <<maps, board, links, behind, refusals>>
  PROVE  OperatorTypeOK' /\ Apart' /\ Asked' /\ Posted'
<1>0. Closed(a) /\ form'[a] = Nil /\ submits' \in Nat /\ Worked(a, w)
  BY SubmitsForm DEF Worked
<1>3. work'[a] = w /\ (\A b \in Admins \ {a} : work'[b] = work[b])
  BY <1>0, WorkedOn
<1>5. /\ pools' \in [Pools -> Documents \cup {Nil}] /\ pools'[p] = d
      /\ \A q \in Pools \ {p} : pools'[q] = pools[q]
  BY DEF OperatorTypeOK
<1>6. /\ Apart' /\ Asked' /\ stale' \subseteq Admins
      /\ work' \in [Admins -> Works] /\ form' \in [Admins -> Forms \cup {Nil}]
  BY <1>0, OthersStep
<1>7. OperatorTypeOK'
  BY <1>0, <1>5, <1>6 DEF OperatorTypeOK
<1>8. Live' = Live /\ Stored' = Stored /\ \A q \in Pools \ {p} : Card(q)' = Card(q)
  <2>1. Live' = Live
    BY DEF Live
  <2>2. Stored' = Stored
    BY <1>5, PoolPanelsAssumption DEF Stored
  <2> QED BY <1>5, <2>1, <2>2 DEF Card
<1>9. ASSUME NEW q \in Pools PROVE PoolOK(q)'
  <2>1. PoolOK(q) /\ ~OwesAll(a) /\ ~OwesPool(a, q)
    BY IdleOwes, WorkShapes DEF PoolInvariant, Posted
  <2>2. CASE q = p
    <3>1. OwesPool(a, p)'
      BY <1>3 DEF OwesPool, OwesAll
    <3>2. p \in Stored' \ behind' /\ board[p] = Nil => \E b \in Admins : OwesAll(b)'
      BY <1>3, <1>8, <2>1, <2>2 DEF PoolOK, OwesAll
    <3> QED BY <2>2, <3>1, <3>2 DEF PoolOK
  <2>3. CASE q # p
    BY <1>3, <1>8, <2>1, <2>3, PoolKept
  <2> QED BY <2>2, <2>3
<1>10. ASSUME NEW m \in Maps PROVE MapOK(m)'
  <2>1. MapOK(m) /\ ~OwesMap(a, m)
    BY IdleOwes, WorkShapes DEF PoolInvariant, Posted
  <2>2. Linking(m)' = Linking(m)
    BY <1>5, <1>8 DEF Linking, Stored
  <2> QED BY <1>3, <1>8, <2>1, <2>2, MapKept
<1> QED BY <1>6, <1>7, <1>9, <1>10 DEF Posted

\* A form that is submitted in vain.
LEMMA InVainStep ==
  ASSUME OperatorTypeOK, PoolInvariant, NEW a \in Admins, work[a] = NoWork, InVain(a)
  PROVE  OperatorTypeOK' /\ Apart' /\ Asked' /\ Posted'
<1>1. /\ Closed(a) /\ form'[a] = Nil /\ submits' \in Nat /\ UNCHANGED work
      /\ UNCHANGED <<pools, maps, board, links, behind, refusals, stale>>
  BY SubmitsForm DEF InVain, store, posts
<1>2. Worked(a, NoWork)
  <2>1. work \in [Admins -> Works] /\ NoWork \in Works
    BY WorkShapes DEF OperatorTypeOK
  <2>2. work' = [work EXCEPT ![a] = NoWork]
    BY <1>1, <2>1
  <2> QED BY <2>1, <2>2 DEF Worked
<1>3. NoWork.at # "save" /\ \A s, r \in NoWork.saves : s[1] = r[1] => s = r
  BY WorkShapes
<1> QED BY <1>1, <1>2, <1>3, SavingStep

LEMMA ArchivedStep ==
  ASSUME OperatorTypeOK, PoolInvariant, NEW a \in Admins, NEW p \in Pools, NEW w, work[a] = NoWork,
         Archived(a, p, w), w \in Works, w.at = "pools", w.saves = {}, w.all \/ p \in w.pools
  PROVE  OperatorTypeOK' /\ Apart' /\ Asked' /\ Posted'
<1> DEFINE d == [pools[p] EXCEPT !.state = "closed", !.editable = FALSE]
<1>0. p \in Stored /\ pools[p] \in Documents
  BY StoreTyped DEF Archived, Active
<1>1. d \in Documents /\ d.maps = pools[p].maps
  BY <1>0 DEF Documents, States
<1>2. /\ pools' = [pools EXCEPT ![p] = d] /\ Submitted(a) /\ work' = [work EXCEPT ![a] = w]
      /\ Others(a) /\ UNCHANGED <<maps, board, links, behind, refusals>>
  BY DEF Archived, Then, posts
<1> HIDE DEF d
<1> QED BY <1>0, <1>1, <1>2, MovedStep

LEMMA DeletePoolStep ==
  ASSUME OperatorTypeOK, PoolInvariant, NEW a \in Admins, DeletePool(a)
  PROVE  OperatorTypeOK' /\ Apart' /\ Asked' /\ Posted'
<1> DEFINE p == form[a].on
           w == Refreshing({}, TRUE, {})
<1>1. work[a] = NoWork /\ p \in Pools
  BY DEF DeletePool, PoolInvariant, Apart, OperatorTypeOK, Forms
<1>2. w \in Works /\ w.at = "pools" /\ w.saves = {} /\ w.all
  BY DEF Refreshing, NoWork, Works
<1>3. Archived(a, p, w) \/ InVain(a)
  BY DEF DeletePool
<1> HIDE DEF p, w
<1> QED BY <1>1, <1>2, <1>3, ArchivedStep, InVainStep

LEMMA PoolSteps ==
  ASSUME OperatorTypeOK, PoolInvariant, NEW a \in Admins, NEW p \in Pools,
         \/ CreatePool(a, p) \/ (\E m \in Maps : NewPool(a, p, m))
         \/ (\E q \in Pools : CopyPool(a, p, q) \/ DuplicatePool(a, p, q))
         \/ (\E to \in {"draft", "published"} : Transition(a, p, to)) \/ Archive(a, p)
  PROVE  OperatorTypeOK' /\ Apart' /\ Asked' /\ Posted'
<1>1. CASE CreatePool(a, p)
  BY <1>1, CreatedStep DEF CreatePool
<1>2. ASSUME NEW m \in Maps, NewPool(a, p, m) PROVE OperatorTypeOK' /\ Apart' /\ Asked' /\ Posted'
  BY <1>2, CreatedStep DEF NewPool
<1>3. ASSUME NEW q \in Pools, CopyPool(a, p, q) \/ DuplicatePool(a, p, q)
      PROVE  OperatorTypeOK' /\ Apart' /\ Asked' /\ Posted'
  <2>1. pools[q].maps \in SUBSET Maps
    BY <1>3, StoreTyped DEF CopyPool, DuplicatePool, Copied
  <2> QED BY <1>3, <2>1, CreatedStep DEF CopyPool, DuplicatePool
<1>4. ASSUME NEW to \in {"draft", "published"}, Transition(a, p, to)
      PROVE  OperatorTypeOK' /\ Apart' /\ Asked' /\ Posted'
  <2> DEFINE d == Moved(pools[p], to)
             w == Refreshing({p}, FALSE, pools[p].maps)
  <2>0. p \in Stored /\ pools[p] \in Documents /\ pools[p].maps \in SUBSET Maps
    BY <1>4, StoreTyped DEF Transition
  <2>1. d \in Documents /\ d.maps = pools[p].maps
    BY <2>0 DEF Moved, Documents, States
  <2>2. w \in Works /\ w.at = "pools" /\ w.saves = {} /\ p \in w.pools
    BY <2>0 DEF Refreshing, NoWork, Works
  <2>3. /\ pools' = [pools EXCEPT ![p] = d] /\ work[a] = NoWork /\ Submitted(a) /\ work' = [work EXCEPT ![a] = w]
        /\ Others(a) /\ UNCHANGED <<maps, board, links, behind, refusals>>
    BY <1>4 DEF Transition, Free, Then, posts
  <2> HIDE DEF d, w
  <2> QED BY <2>0, <2>1, <2>2, <2>3, MovedStep
<1>6. CASE Archive(a, p)
  <2> DEFINE w == Refreshing({p}, FALSE, pools[p].maps)
  <2>0. work[a] = NoWork /\ pools[p].maps \in SUBSET Maps /\ Archived(a, p, w)
    BY <1>6, StoreTyped DEF Archive, Free
  <2>1. w \in Works /\ w.at = "pools" /\ w.saves = {} /\ p \in w.pools
    BY <2>0 DEF Refreshing, NoWork, Works
  <2> HIDE DEF w
  <2> QED BY <2>0, <2>1, ArchivedStep
<1> QED BY <1>1, <1>2, <1>3, <1>4, <1>6

LEMMA HardDeleteStep ==
  ASSUME OperatorTypeOK, PoolInvariant, NEW a \in Admins, HardDelete(a)
  PROVE  OperatorTypeOK' /\ Apart' /\ Asked' /\ Posted'
<1> DEFINE p == form[a].on
           w == Refreshing({}, FALSE, form[a].maps)
<1>0. /\ work[a] = NoWork /\ Closed(a) /\ form'[a] = Nil /\ submits' \in Nat
      /\ UNCHANGED <<maps, links, refusals>> /\ p \in Pools /\ form[a].maps \in SUBSET Maps
  BY SubmitsForm, StoreTyped DEF HardDelete, PoolInvariant, Apart, Forms
<1>1. CASE ~Erasable(p)
  <2>1. Worked(a, NoWork) /\ UNCHANGED <<pools, board, behind, stale>>
    BY <1>1, WorkShapes DEF HardDelete, Then, Worked
  <2>2. NoWork.at # "save" /\ \A s, r \in NoWork.saves : s[1] = r[1] => s = r
    BY WorkShapes
  <2> QED BY <1>0, <2>1, <2>2, SavingStep
<1>2. CASE Erasable(p)
  <2>0. /\ pools' = [pools EXCEPT ![p] = Nil] /\ board' = [board EXCEPT ![p] = Nil]
        /\ work' = [work EXCEPT ![a] = w] /\ behind' = (behind \ {p}) \cup (pools[p].maps \ form[a].maps)
        /\ Others(a) /\ p \in Stored
    BY <1>2 DEF HardDelete, Then, Erasable
  <2>1. w \in Works /\ w.at = "pools" /\ w.saves = {} /\ w.maps = form[a].maps
    BY <1>0 DEF Refreshing, NoWork, Works
  <2> HIDE DEF w
  <2>2. Worked(a, w)
    BY <2>0, <2>1 DEF Worked
  <2>3. work'[a] = w /\ (\A b \in Admins \ {a} : work'[b] = work[b])
    BY <2>2, WorkedOn
  <2>4. /\ Apart' /\ Asked' /\ stale' \subseteq Admins
        /\ work' \in [Admins -> Works] /\ form' \in [Admins -> Forms \cup {Nil}]
    BY <1>0, <2>0, <2>1, <2>2, OthersStep
  <2> HIDE DEF p
  <2>5. /\ pools' \in [Pools -> Documents \cup {Nil}] /\ pools'[p] = Nil
        /\ \A q \in Pools \ {p} : pools'[q] = pools[q] /\ board'[q] = board[q]
        /\ board' \in [Pools -> Cards \cup {Nil}]
    BY <1>0, <2>0 DEF OperatorTypeOK
  <2>6. pools[p].maps \subseteq Maps
    BY <2>0, StoreTyped
  <2>7. OperatorTypeOK'
    BY <1>0, <2>0, <2>4, <2>5, <2>6 DEF OperatorTypeOK
  <2>8. Live' = Live /\ p \notin Stored'
        /\ \A q \in Pools \ {p} : (q \in Stored' <=> q \in Stored) /\ Card(q)' = Card(q)
    <3>1. Live' = Live
      BY <1>0 DEF Live
    <3> QED BY <2>5, <3>1 DEF Stored, Card
  <2>9. ASSUME NEW q \in Pools PROVE PoolOK(q)'
    <3>1. CASE q = p
      BY <2>8, <3>1 DEF PoolOK
    <3>2. CASE q # p
      <4>1. PoolOK(q) /\ ~OwesAll(a) /\ ~OwesPool(a, q)
        BY <1>0, IdleOwes, WorkShapes DEF PoolInvariant, Posted
      <4>2. q \in behind => q \in behind'
        BY <2>0, <3>2
      <4> QED BY <2>3, <2>5, <2>8, <3>2, <4>1, <4>2, PoolKept
    <3> QED BY <3>1, <3>2
  <2>10. ASSUME NEW m \in Maps PROVE MapOK(m)'
    <3>1. MapOK(m) /\ ~OwesMap(a, m)
      BY <1>0, IdleOwes, WorkShapes DEF PoolInvariant, Posted
    <3>2. m # p /\ (m \in behind => m \in behind')
      BY <1>0, <2>0, PoolPanelsAssumption
    <3>3. CASE m \in form[a].maps
      <4>1. OwesMap(a, m)'
        BY <2>1, <2>3, <3>3 DEF OwesMap
      <4> QED BY <1>0, <2>8, <3>1, <4>1 DEF MapOK
    <3>4. CASE m \notin form[a].maps
      <4>1. m \notin behind' => Linking(m)' = Linking(m)
        BY <2>0, <2>5, <2>8, <3>4 DEF Linking, Stored
      <4> QED BY <1>0, <2>3, <2>8, <3>1, <3>2, <4>1, MapKept
    <3> QED BY <3>3, <3>4
  <2> QED BY <2>4, <2>7, <2>9, <2>10 DEF Posted
<1> QED BY <1>1, <1>2

\* Maps that appear, and maps that go.
LEMMA MapsStep ==
  ASSUME OperatorTypeOK, PoolInvariant, NEW a \in Admins, NEW ms \in SUBSET Maps,
         maps' \in [Maps -> {"none", "live", "archived"}], \A m \in Maps \ ms : maps'[m] = maps[m],
         links' \in [Maps -> {Nil} \cup SUBSET Pools], \A m \in Maps \ ms : links'[m] = links[m],
         \A m \in ms : links'[m] = Nil, UNCHANGED <<pools, board>>, behind' \subseteq Pools \cup Maps,
         behind \subseteq behind', \A m \in ms : Linking(m) \subseteq behind',
         work[a].at \notin {"save", "pools", "maps"}, \A b \in Admins \ {a} : work'[b] = work[b]
  PROVE  Posted'
<1>0. ~OwesAll(a) /\ (\A p : ~OwesPool(a, p)) /\ (\A m : ~OwesMap(a, m)) /\ Stored' = Stored
      /\ \A m : Linking(m)' = Linking(m)
  BY IdleOwes DEF Stored, Linking
<1>1. \A m \in Maps \ ms : m \in Live' <=> m \in Live
  BY DEF Live
<1>2. ASSUME NEW p \in Pools PROVE PoolOK(p)'
  <2>1. ASSUME p \in Stored' \ behind' PROVE Card(p)' = Card(p)
    <3>1. pools[p].maps \subseteq Maps /\ \A m \in ms : m \notin pools[p].maps
      BY <1>0, <2>1, StoreTyped DEF Linking
    <3> QED BY <1>1, <3>1 DEF Card, Live
  <2>2. PoolOK(p)
    BY DEF PoolInvariant, Posted
  <2> QED BY <1>0, <2>1, <2>2, PoolKept
<1>3. ASSUME NEW m \in Maps PROVE MapOK(m)'
  <2>1. CASE m \in ms
    BY <2>1 DEF MapOK
  <2>2. CASE m \notin ms
    <3>1. MapOK(m)
      BY DEF PoolInvariant, Posted
    <3> QED BY <1>0, <1>1, <2>2, <3>1, MapKept
  <2> QED BY <2>1, <2>2
<1> QED BY <1>2, <1>3 DEF Posted

LEMMA CreatedMapStep ==
  ASSUME OperatorTypeOK, PoolInvariant, NEW a \in Admins, NEW m \in Maps, NEW w, Worked(a, w),
         w.at # "save", w.saves = {}, work[a].at \notin {"save", "pools", "maps"}, form'[a] = Nil,
         Closed(a) \/ UNCHANGED form, submits' \in Nat, m \notin Live, maps' = [maps EXCEPT ![m] = "live"],
         behind' = behind \cup Linking(m), Others(a), UNCHANGED <<pools, board, links, refusals>>
  PROVE  OperatorTypeOK' /\ Apart' /\ Asked' /\ Posted'
<1>1. /\ Apart' /\ Asked' /\ stale' \subseteq Admins
      /\ work' \in [Admins -> Works] /\ form' \in [Admins -> Forms \cup {Nil}]
  BY OthersStep
<1>2. maps' \in [Maps -> {"none", "live", "archived"}] /\ \A n \in Maps \ {m} : maps'[n] = maps[n]
  BY DEF OperatorTypeOK
<1>3. behind' \subseteq Pools \cup Maps /\ links' \in [Maps -> {Nil} \cup SUBSET Pools]
  BY StoreTyped DEF OperatorTypeOK
<1>4. OperatorTypeOK'
  BY <1>1, <1>2, <1>3 DEF OperatorTypeOK
<1>5. links[m] = Nil
  BY DEF PoolInvariant, Posted, MapOK
<1>6. Posted'
  <2> DEFINE ms == {m}
  <2>1. ms \in SUBSET Maps /\ (\A n \in Maps \ ms : maps'[n] = maps[n] /\ links'[n] = links[n])
        /\ (\A n \in ms : links'[n] = Nil /\ Linking(n) \subseteq behind') /\ behind \subseteq behind'
    BY <1>2, <1>5
  <2> HIDE DEF ms
  <2>2. \A b \in Admins \ {a} : work'[b] = work[b]
    BY WorkedOn
  <2> QED BY <1>2, <1>3, <2>1, <2>2, MapsStep
<1> QED BY <1>1, <1>4, <1>6

LEMMA MapSteps ==
  ASSUME OperatorTypeOK, PoolInvariant, NEW a \in Admins, NEW m \in Maps,
         (work[a] = NoWork /\ Dropped(a, m)) \/ CreateMap(a, m) \/ ImportMap(a, m)
  PROVE  OperatorTypeOK' /\ Apart' /\ Asked' /\ Posted'
<1>0. work[a] = NoWork /\ Closed(a) /\ form'[a] = Nil /\ submits' \in Nat /\ NoWork.at = "idle" /\ NoWork.saves = {}
  BY SubmitsForm, WorkShapes DEF Dropped, CreateMap, ImportMap, Free
<1>1. UNCHANGED work => Worked(a, NoWork)
  <2>1. work \in [Admins -> Works] /\ NoWork \in Works
    BY WorkShapes DEF OperatorTypeOK
  <2>2. UNCHANGED work => work' = [work EXCEPT ![a] = NoWork]
    BY <1>0, <2>1
  <2> QED BY <2>1, <2>2 DEF Worked
<1>2. CASE CreateMap(a, m)
  <2>1. /\ UNCHANGED <<work, pools, board, links, refusals>> /\ Others(a) /\ behind' = behind \cup Linking(m)
        /\ m \notin Live /\ maps' = [maps EXCEPT ![m] = "live"]
    BY <1>2 DEF CreateMap, posts
  <2> QED BY <1>0, <1>1, <2>1, CreatedMapStep
<1>3. CASE ImportMap(a, m)
  <2> DEFINE w == [NoWork EXCEPT !.at = "import", !.maps = {m}]
  <2>1. /\ UNCHANGED <<pools, board, links, refusals>> /\ Others(a) /\ behind' = behind \cup Linking(m)
        /\ m \notin Live /\ maps' = [maps EXCEPT ![m] = "live"] /\ work' = [work EXCEPT ![a] = w]
    BY <1>3 DEF ImportMap, posts, Then
  <2>2. w \in Works /\ w.at = "import" /\ w.saves = {}
    BY DEF NoWork, Works
  <2> HIDE DEF w
  <2>3. Worked(a, w)
    BY <2>1, <2>2 DEF Worked
  <2> QED BY <1>0, <2>1, <2>2, <2>3, CreatedMapStep
<1>4. CASE Dropped(a, m)
  <2>1. /\ maps' = [maps EXCEPT ![m] = IF m \in OwnMaps THEN "none" ELSE "archived"]
        /\ links' = [links EXCEPT ![m] = Nil] /\ behind' = behind \cup Linking(m)
        /\ Others(a) /\ UNCHANGED <<pools, board, work, refusals>>
    BY <1>4 DEF Dropped
  <2>2. /\ Apart' /\ Asked' /\ stale' \subseteq Admins
        /\ work' \in [Admins -> Works] /\ form' \in [Admins -> Forms \cup {Nil}]
    BY <1>0, <1>1, <2>1, OthersStep
  <2>3. maps' \in [Maps -> {"none", "live", "archived"}] /\ (\A n \in Maps \ {m} : maps'[n] = maps[n])
        /\ links' \in [Maps -> {Nil} \cup SUBSET Pools] /\ (\A n \in Maps \ {m} : links'[n] = links[n])
        /\ links'[m] = Nil
    <3>1. maps' \in [Maps -> {"none", "live", "archived"}] /\ (\A n \in Maps \ {m} : maps'[n] = maps[n])
      BY <2>1 DEF OperatorTypeOK
    <3>2. links' \in [Maps -> {Nil} \cup SUBSET Pools] /\ (\A n \in Maps \ {m} : links'[n] = links[n])
          /\ links'[m] = Nil
      BY <2>1 DEF OperatorTypeOK
    <3> QED BY <3>1, <3>2
  <2>4. behind' \subseteq Pools \cup Maps
    BY <2>1, StoreTyped DEF OperatorTypeOK
  <2>5. OperatorTypeOK'
    BY <1>0, <2>1, <2>2, <2>3, <2>4 DEF OperatorTypeOK
  <2>6. Posted'
    <3> DEFINE ms == {m}
    <3>1. ms \in SUBSET Maps /\ (\A n \in Maps \ ms : maps'[n] = maps[n] /\ links'[n] = links[n])
          /\ (\A n \in ms : links'[n] = Nil /\ Linking(n) \subseteq behind') /\ behind \subseteq behind'
      BY <2>1, <2>3
    <3> HIDE DEF ms
    <3> QED BY <1>0, <2>1, <2>3, <2>4, <3>1, MapsStep
  <2> QED BY <2>2, <2>5, <2>6
<1> QED BY <1>2, <1>3, <1>4

LEMMA DeleteMapStep ==
  ASSUME OperatorTypeOK, PoolInvariant, NEW a \in Admins, DeleteMap(a)
  PROVE  OperatorTypeOK' /\ Apart' /\ Asked' /\ Posted'
<1> DEFINE m == form[a].on
<1>1. work[a] = NoWork /\ m \in Maps
  BY DEF DeleteMap, PoolInvariant, Apart, OperatorTypeOK, Forms
<1>2. Dropped(a, m) \/ InVain(a)
  BY DEF DeleteMap
<1> HIDE DEF m
<1> QED BY <1>1, <1>2, MapSteps, InVainStep

LEMMA ImportLineStep ==
  ASSUME OperatorTypeOK, PoolInvariant, NEW a \in Admins, ImportLine(a)
  PROVE  OperatorTypeOK' /\ Apart' /\ Asked' /\ Posted'
<1>0. /\ work[a] \in Works /\ work[a].maps \subseteq Maps /\ work[a].at \in {"lines", "created"}
      /\ UNCHANGED <<pools, board, links, form, submits, refusals>>
  BY StoreTyped DEF ImportLine, posts, Works
<1>1. form[a] = Nil
  BY <1>0, WorkShapes DEF PoolInvariant, Apart
<1>2. PICK m \in work[a].maps :
       \/ /\ m \notin Live /\ maps' = [maps EXCEPT ![m] = "live"] /\ behind' = behind \cup Linking(m)
          /\ Others(a)
       \/ UNCHANGED <<maps, behind, stale>>
  BY DEF ImportLine
<1>3. PICK w \in Works : Worked(a, w) /\ w.at \in {"lines", "created"} /\ w.saves = work[a].saves
  BY LineWork
<1>4. work'[a] = w
  BY <1>3, WorkedOn
<1>5. CASE UNCHANGED <<maps, behind, stale>>
  <2>1. Quiet(a)
    BY <1>0, <1>5, IdleForgets DEF Quiet
  <2>2. FormRead(a)' /\ SavesRead(a)'
    BY <1>0, <1>1, <1>3, <1>4 DEF FormRead, SavesRead
  <2>3. \A s, r \in w.saves : s[1] = r[1] => s = r
    BY <1>3 DEF PoolInvariant, Apart, SavesApart
  <2> QED BY <1>0, <1>1, <1>3, <1>5, <2>1, <2>2, <2>3, QuietStep DEF OperatorTypeOK
<1>6. CASE /\ m \notin Live /\ maps' = [maps EXCEPT ![m] = "live"] /\ behind' = behind \cup Linking(m)
           /\ Others(a)
  <2>0. m \in Maps
    BY <1>0
  <2>1. maps' \in [Maps -> {"none", "live", "archived"}] /\ \A n \in Maps \ {m} : maps'[n] = maps[n]
    BY <1>6 DEF OperatorTypeOK
  <2>2. behind' \subseteq Pools \cup Maps /\ links' \in [Maps -> {Nil} \cup SUBSET Pools]
    BY <1>0, <1>6, StoreTyped DEF OperatorTypeOK
  <2>3. links[m] = Nil
    BY <1>6, <2>0 DEF PoolInvariant, Posted, MapOK
  <2>4. Posted'
    <3> DEFINE ms == {m}
    <3>1. ms \in SUBSET Maps /\ (\A n \in Maps \ ms : maps'[n] = maps[n] /\ links'[n] = links[n])
          /\ (\A n \in ms : links'[n] = Nil /\ Linking(n) \subseteq behind') /\ behind \subseteq behind'
      BY <1>0, <1>6, <2>0, <2>1, <2>3
    <3> HIDE DEF ms
    <3>2. \A b \in Admins \ {a} : work'[b] = work[b]
      BY <1>3, WorkedOn
    <3> QED BY <1>0, <2>1, <2>2, <3>1, <3>2, MapsStep
  <2>5. stale' \subseteq Admins
    BY <1>6 DEF Others, OperatorTypeOK
  <2>6. OperatorTypeOK'
    BY <1>0, <1>3, <2>1, <2>2, <2>5, WorkedOn DEF OperatorTypeOK
  <2>7. Apart'
    BY <1>0, <1>1, <1>3, <1>4, WorkedOn DEF PoolInvariant, Apart, SavesApart
  <2>8. Asked'
    BY <1>0, <1>1, <1>3, <1>4, <1>6 DEF Others, Asked, FormRead, SavesRead
  <2> QED BY <2>4, <2>6, <2>7, <2>8
<1> QED BY <1>2, <1>5, <1>6

LEMMA ImportFailsStep ==
  ASSUME OperatorTypeOK, PoolInvariant, NEW a \in Admins, ImportFails(a)
  PROVE  OperatorTypeOK' /\ Apart' /\ Asked' /\ Posted'
<1>0. /\ work[a].maps \subseteq Maps /\ work[a].at = "import" /\ UNCHANGED <<pools, board, form, stale, submits>>
      /\ refusals' \in Nat /\ behind' = behind \cup UNION {Linking(m) : m \in work[a].maps}
      /\ maps' = [m \in Maps |-> IF m \in Droppable(a) THEN "none" ELSE maps[m]]
      /\ links' = [m \in Maps |-> IF m \in Droppable(a) THEN Nil ELSE links[m]]
      /\ work' = [work EXCEPT ![a] = NoWork] /\ NoWork.at = "idle" /\ NoWork.saves = {}
  <2>1. work[a].maps \subseteq Maps /\ refusals \in Nat
    BY StoreTyped DEF Works, OperatorTypeOK
  <2>2. NoWork.at = "idle" /\ NoWork.saves = {}
    BY WorkShapes
  <2>3. /\ work[a].at = "import" /\ UNCHANGED <<pools, board, form, stale, submits>>
        /\ refusals' = refusals + 1 /\ behind' = behind \cup UNION {Linking(m) : m \in work[a].maps}
        /\ maps' = [m \in Maps |-> IF m \in Droppable(a) THEN "none" ELSE maps[m]]
        /\ links' = [m \in Maps |-> IF m \in Droppable(a) THEN Nil ELSE links[m]]
        /\ work' = [work EXCEPT ![a] = NoWork]
    BY DEF ImportFails, Then
  <2>4. refusals' \in Nat
    BY <2>1, <2>3
  <2> QED BY <2>1, <2>2, <2>3, <2>4
<1>1. form[a] = Nil
  BY <1>0, WorkShapes DEF PoolInvariant, Apart
<1>2. Worked(a, NoWork)
  BY <1>0, WorkShapes DEF Worked
<1>3. work'[a] = NoWork /\ (\A b \in Admins \ {a} : work'[b] = work[b]) /\ work' \in [Admins -> Works]
  BY <1>2, WorkedOn
<1>4. /\ maps' \in [Maps -> {"none", "live", "archived"}] /\ links' \in [Maps -> {Nil} \cup SUBSET Pools]
      /\ Droppable(a) \subseteq work[a].maps
  <2>1. maps' \in [Maps -> {"none", "live", "archived"}]
    BY <1>0 DEF OperatorTypeOK
  <2>2. links' \in [Maps -> {Nil} \cup SUBSET Pools]
    BY <1>0 DEF OperatorTypeOK
  <2> QED BY <2>1, <2>2 DEF Droppable
<1>5. \A m \in work[a].maps : Linking(m) \subseteq behind'
  BY <1>0
<1>6. behind' \subseteq Pools \cup Maps
  BY <1>0, StoreTyped DEF OperatorTypeOK
<1>7. OperatorTypeOK'
  BY <1>0, <1>3, <1>4, <1>6 DEF OperatorTypeOK
<1>8. Posted'
  <2> DEFINE ms == Droppable(a)
  <2>1. ms \in SUBSET Maps /\ (\A m \in Maps \ ms : maps'[m] = maps[m] /\ links'[m] = links[m])
        /\ \A m \in ms : links'[m] = Nil /\ Linking(m) \subseteq behind'
    BY <1>0, <1>4, <1>5
  <2> HIDE DEF ms
  <2> QED BY <1>0, <1>3, <1>4, <1>6, <2>1, MapsStep
<1>9. Apart'
  BY <1>0, <1>1, <1>3 DEF PoolInvariant, Apart, SavesApart
<1>10. Asked'
  <2>1. Live' \subseteq Live
    BY <1>0 DEF Live
  <2>2. ASSUME NEW b \in Admins \ {a}, b \notin stale PROVE FormRead(b)' /\ SavesRead(b)'
    <3>1. FormRead(b) /\ SavesRead(b) /\ work'[b] = work[b] /\ form'[b] = form[b] /\ Stored' = Stored
          /\ AllListed' = AllListed
      BY <1>0, <1>3, <2>2 DEF PoolInvariant, Asked, Stored, Drafts, AllListed
    <3>2. FormRead(b)'
      BY <1>0, <3>1 DEF FormRead, Drafts, Linking, Stored
    <3>3. \A s : Removed(s)' \subseteq Removed(s) /\ Added(s)' \subseteq Added(s)
      BY <1>0, <2>1 DEF Removed, Added
    <3>4. SavesRead(b)'
      BY <3>1, <3>3 DEF SavesRead
    <3> QED BY <3>2, <3>4
  <2>3. FormRead(a)' /\ SavesRead(a)'
    BY <1>0, <1>1, <1>3 DEF FormRead, SavesRead
  <2> QED BY <1>0, <2>2, <2>3 DEF Asked
<1> QED BY <1>7, <1>8, <1>9, <1>10

\* A step that draws posts: the catalogue is as it was.
LEMMA DrawnStep ==
  ASSUME OperatorTypeOK, PoolInvariant, NEW a \in Admins, NEW w, Worked(a, w), w.at # "save", w.saves = {},
         UNCHANGED <<pools, maps, form, stale, refusals>>, form[a] = Nil, submits' \in Nat,
         board' \in [Pools -> Cards \cup {Nil}], links' \in [Maps -> {Nil} \cup SUBSET Pools],
         behind' \subseteq behind
  PROVE  OperatorTypeOK' /\ Apart' /\ Asked'
<1>1. work'[a] = w /\ (\A b \in Admins \ {a} : work'[b] = work[b]) /\ work' \in [Admins -> Works]
  BY WorkedOn
<1>2. OperatorTypeOK'
  BY <1>1 DEF OperatorTypeOK
<1>3. Apart'
  BY <1>1 DEF PoolInvariant, Apart, SavesApart
<1>4. ASSUME NEW b \in Admins \ {a}, b \notin stale PROVE FormRead(b)' /\ SavesRead(b)'
  <2>1. FormRead(b) /\ SavesRead(b)
    BY <1>4 DEF PoolInvariant, Asked
  <2>2. Drafts' = Drafts /\ (\A m : Linking(m)' = Linking(m)) /\ Live' = Live /\ Stored' = Stored
        /\ AllListed' = AllListed
    BY DEF Drafts, Linking, Live, Stored, AllListed
  <2>3. FormRead(b)'
    BY <2>1, <2>2 DEF FormRead
  <2>4. SavesRead(b)'
    BY <1>1, <2>1, <2>2 DEF SavesRead, Removed, Added
  <2> QED BY <2>3, <2>4
<1>5. FormRead(a)' /\ SavesRead(a)'
  BY <1>1 DEF FormRead, SavesRead
<1> QED BY <1>2, <1>3, <1>4, <1>5 DEF Asked

LEMMA PoolPostsStep ==
  ASSUME OperatorTypeOK, PoolInvariant, NEW a \in Admins, PoolPosts(a)
  PROVE  OperatorTypeOK' /\ Apart' /\ Asked' /\ Posted'
<1> DEFINE touched == IF work[a].all THEN Stored ELSE {p \in work[a].pools \cap Stored : board[p] # Nil}
<1>0. /\ work[a] \in Works /\ work[a].at = "pools" /\ UNCHANGED <<pools, maps, links, form, stale, submits, refusals>>
      /\ board' = [p \in Pools |-> IF p \in touched THEN Card(p) ELSE board[p]] /\ behind' = behind \ touched
      /\ touched \subseteq Stored
  BY StoreTyped DEF PoolPosts, store
<1>1. form[a] = Nil
  BY <1>0, WorkShapes DEF PoolInvariant, Apart
<1>2. PICK ms \in SUBSET Maps : work[a].maps \subseteq ms /\ Worked(a, [work[a] EXCEPT !.at = "maps", !.maps = ms])
  BY PostsWork
<1> DEFINE w == [work[a] EXCEPT !.at = "maps", !.maps = ms]
<1>3. w.at = "maps" /\ w.saves = work[a].saves /\ w.maps = ms /\ Worked(a, w)
  BY <1>0, <1>2 DEF Works
<1> HIDE DEF w
<1>4. work'[a] = w /\ (\A b \in Admins \ {a} : work'[b] = work[b]) /\ work' \in [Admins -> Works]
  BY <1>3, WorkedOn
<1>5. board' \in [Pools -> Cards \cup {Nil}]
  BY <1>0, StoreTyped DEF OperatorTypeOK
<1>6. OperatorTypeOK'
  BY <1>0, <1>4, <1>5 DEF OperatorTypeOK
<1>7. Apart'
  BY <1>0, <1>1, <1>3, <1>4 DEF PoolInvariant, Apart, SavesApart
<1>8. Asked'
  <2>1. Drafts' = Drafts /\ (\A m : Linking(m)' = Linking(m)) /\ Live' = Live /\ Stored' = Stored
        /\ AllListed' = AllListed
    BY <1>0 DEF Drafts, Linking, Live, Stored, AllListed
  <2>2. ASSUME NEW b \in Admins \ {a}, b \notin stale PROVE FormRead(b)' /\ SavesRead(b)'
    <3>1. FormRead(b) /\ SavesRead(b)
      BY <2>2 DEF PoolInvariant, Asked
    <3>2. FormRead(b)'
      BY <1>0, <2>1, <3>1 DEF FormRead
    <3>3. SavesRead(b)'
      BY <1>0, <1>4, <2>1, <3>1 DEF SavesRead, Removed, Added
    <3> QED BY <3>2, <3>3
  <2>3. FormRead(a)' /\ SavesRead(a)'
    BY <1>0, <1>1, <1>3, <1>4 DEF FormRead, SavesRead
  <2> QED BY <1>0, <2>2, <2>3 DEF Asked
<1>9. Stored' = Stored /\ Live' = Live /\ (\A p : Card(p)' = Card(p)) /\ (\A m : Linking(m)' = Linking(m))
  BY <1>0 DEF Stored, Live, Card, Linking
<1>10. ASSUME NEW p \in Pools PROVE PoolOK(p)'
  <2>1. PoolOK(p)
    BY DEF PoolInvariant, Posted
  <2>2. CASE p \in touched
    <3>1. board'[p] = Card(p) /\ Card(p) \in Cards
      BY <1>0, <2>2, StoreTyped
    <3> QED BY <1>9, <3>1, PoolPanelsAssumption DEF PoolOK
  <2>3. CASE p \notin touched
    <3>1. SUFFICES ASSUME p \in Stored \ behind
                   PROVE  /\ board[p] = Card(p) \/ \E b \in Admins : OwesPool(b, p)'
                          /\ board[p] = Nil => \E b \in Admins : OwesAll(b)'
      BY <1>0, <1>9, <2>3 DEF PoolOK
    <3>2. ~OwesAll(a) /\ (p \in work[a].pools => board[p] = Nil)
      BY <1>0, <2>3, <3>1 DEF OwesAll
    <3>3. board[p] = Nil => \E b \in Admins : OwesAll(b)'
      BY <1>4, <2>1, <3>1, <3>2 DEF PoolOK, OwesAll
    <3>4. ASSUME board[p] # Card(p) PROVE \E b \in Admins : OwesPool(b, p)'
      <4>1. CASE board[p] = Nil
        BY <3>3, <4>1 DEF OwesPool
      <4>2. CASE board[p] # Nil
        <5>1. PICK b \in Admins : OwesPool(b, p)
          BY <2>1, <3>1, <3>4 DEF PoolOK
        <5>2. b # a
          BY <1>0, <3>2, <4>2, <5>1 DEF OwesPool
        <5> QED BY <1>4, <5>1, <5>2 DEF OwesPool, OwesAll
      <4> QED BY <4>1, <4>2
    <3> QED BY <3>3, <3>4
  <2> QED BY <2>2, <2>3
<1>11. ASSUME NEW m \in Maps PROVE MapOK(m)'
  <2>1. MapOK(m)
    BY DEF PoolInvariant, Posted
  <2>2. OwesMap(a, m) => OwesMap(a, m)'
    BY <1>2, <1>3, <1>4 DEF OwesMap
  <2>3. m \notin touched
    BY <1>0, StoreTyped, PoolPanelsAssumption
  <2> QED BY <1>0, <1>4, <1>9, <2>1, <2>2, <2>3, MapKept
<1> QED BY <1>6, <1>7, <1>8, <1>10, <1>11 DEF Posted

LEMMA MapPostsStep ==
  ASSUME OperatorTypeOK, PoolInvariant, NEW a \in Admins, MapPosts(a)
  PROVE  OperatorTypeOK' /\ Apart' /\ Asked' /\ Posted'
<1> DEFINE drawn == Refreshed(work[a].maps)
<1>0. /\ work[a] \in Works /\ work[a].at = "maps" /\ UNCHANGED <<pools, maps, board, form, stale, submits, refusals>>
      /\ links' = [m \in Maps |-> IF m \in drawn THEN Linking(m) ELSE links[m]] /\ behind' = behind \ drawn
      /\ work' = [work EXCEPT ![a] = NoWork] /\ drawn \subseteq Maps /\ \A m \in drawn : links[m] # Nil
  BY StoreTyped DEF MapPosts, store, Then, Refreshed
<1>1. form[a] = Nil
  BY <1>0, WorkShapes DEF PoolInvariant, Apart
<1>2. Worked(a, NoWork) /\ NoWork.at = "idle" /\ NoWork.saves = {}
  BY <1>0, WorkShapes DEF Worked
<1>3. work'[a] = NoWork /\ (\A b \in Admins \ {a} : work'[b] = work[b])
  BY <1>2, WorkedOn
<1>4. links' \in [Maps -> {Nil} \cup SUBSET Pools] /\ board \in [Pools -> Cards \cup {Nil}] /\ submits \in Nat
  BY <1>0, StoreTyped DEF OperatorTypeOK
<1>5. OperatorTypeOK' /\ Apart' /\ Asked'
  BY <1>0, <1>1, <1>2, <1>4, DrawnStep
<1>6. Stored' = Stored /\ Live' = Live /\ (\A p : Card(p)' = Card(p)) /\ (\A m : Linking(m)' = Linking(m))
  BY <1>0 DEF Stored, Live, Card, Linking
<1>7. ASSUME NEW p \in Pools PROVE PoolOK(p)'
  <2>1. PoolOK(p) /\ ~OwesAll(a) /\ ~OwesPool(a, p) /\ p \notin drawn
    BY <1>0, PoolPanelsAssumption DEF PoolInvariant, Posted, OwesAll, OwesPool
  <2> QED BY <1>0, <1>3, <1>6, <2>1, PoolKept
<1>8. ASSUME NEW m \in Maps PROVE MapOK(m)'
  <2>1. MapOK(m)
    BY DEF PoolInvariant, Posted
  <2>2. CASE m \in drawn
    BY <1>0, <1>6, <2>1, <2>2 DEF MapOK
  <2>3. CASE m \notin drawn
    <3>1. links'[m] = links[m] /\ (m \in behind => m \in behind')
      BY <1>0, <2>3
    <3>2. CASE links[m] = Nil \/ m \notin Live
      BY <1>6, <2>1, <3>1, <3>2 DEF MapOK
    <3>3. CASE links[m] # Nil /\ m \in Live
      <4>1. ~OwesMap(a, m)
        BY <2>3, <3>3, StoreTyped DEF OwesMap, Refreshed
      <4> QED BY <1>3, <1>6, <2>1, <3>1, <4>1, MapKept
    <3> QED BY <3>2, <3>3
  <2> QED BY <2>2, <2>3
<1> QED BY <1>5, <1>7, <1>8 DEF Posted

LEMMA SyncMapsStep ==
  ASSUME OperatorTypeOK, PoolInvariant, NEW a \in Admins, SyncMaps(a)
  PROVE  OperatorTypeOK' /\ Apart' /\ Asked' /\ Posted'
<1>0. /\ UNCHANGED <<pools, maps, board, form, stale, refusals>> /\ links' = Shown /\ behind' = behind \ Live
      /\ work' = [work EXCEPT ![a] = NoWork] /\ NoWork.at = "idle" /\ NoWork.saves = {}
      /\ submits' = IF Free(a) THEN submits + 1 ELSE submits
      /\ work[a].at \in {"import", "sync"} \/ Free(a)
  BY WorkShapes DEF SyncMaps, store, Then
<1>1. submits' \in Nat
  BY <1>0 DEF OperatorTypeOK
<1>2. Worked(a, NoWork)
  BY <1>0, WorkShapes DEF Worked
<1>3. work'[a] = NoWork /\ (\A b \in Admins \ {a} : work'[b] = work[b])
  BY <1>2, WorkedOn
<1>4. form[a] = Nil /\ work[a].at \notin {"save", "pools", "maps"}
  BY <1>0 DEF PoolInvariant, Apart, Free
<1>5. links' \in [Maps -> {Nil} \cup SUBSET Pools] /\ board \in [Pools -> Cards \cup {Nil}]
  BY <1>0, StoreTyped DEF OperatorTypeOK, Shown
<1>6. OperatorTypeOK' /\ Apart' /\ Asked'
  BY <1>0, <1>1, <1>2, <1>4, <1>5, DrawnStep
<1>7. Stored' = Stored /\ Live' = Live /\ (\A p : Card(p)' = Card(p)) /\ (\A m : Linking(m)' = Linking(m))
  BY <1>0 DEF Stored, Live, Card, Linking
<1>8. ASSUME NEW p \in Pools PROVE PoolOK(p)'
  <2>1. PoolOK(p) /\ ~OwesAll(a) /\ ~OwesPool(a, p) /\ p \notin Live
    BY <1>4, IdleOwes, PoolPanelsAssumption DEF PoolInvariant, Posted, Live
  <2> QED BY <1>0, <1>3, <1>7, <2>1, PoolKept
<1>9. ASSUME NEW m \in Maps PROVE MapOK(m)'
  <2>1. MapOK(m)
    BY DEF PoolInvariant, Posted
  <2>2. links'[m] = IF m \in Live THEN Linking(m) ELSE links[m]
    BY <1>0 DEF Shown
  <2> QED BY <1>7, <2>1, <2>2 DEF MapOK
<1> QED BY <1>6, <1>8, <1>9 DEF Posted

LEMMA OperatorStep ==
  ASSUME OperatorTypeOK, PoolInvariant, [OperatorNext]_operatorVars
  PROVE  OperatorTypeOK' /\ PoolInvariant'
<1> SUFFICES OperatorTypeOK' /\ Apart' /\ Asked' /\ Posted'
  BY DEF PoolInvariant
<1>1. CASE UNCHANGED operatorVars
  <2>1. UNCHANGED <<pools, maps, board, links, form, work, stale, behind, submits, refusals>>
    BY <1>1 DEF operatorVars, store, posts
  <2>2. OperatorTypeOK' /\ Apart'
    BY <2>1 DEF OperatorTypeOK, PoolInvariant, Apart, SavesApart
  <2>3. /\ Stored' = Stored /\ Drafts' = Drafts /\ Live' = Live /\ (\A m : Linking(m)' = Linking(m))
        /\ (\A p : Card(p)' = Card(p)) /\ AllListed' = AllListed
    BY <2>1 DEF Stored, Drafts, Live, Linking, Card, AllListed
  <2>4. Asked'
    <3>1. ASSUME NEW a \in Admins \ stale PROVE FormRead(a)' /\ SavesRead(a)'
      <4>1. FormRead(a) /\ SavesRead(a)
        BY DEF PoolInvariant, Asked
      <4>2. FormRead(a)'
        BY <2>1, <2>3, <4>1 DEF FormRead
      <4>3. SavesRead(a)'
        BY <2>1, <2>3, <4>1 DEF SavesRead, Removed, Added
      <4> QED BY <4>2, <4>3
    <3> QED BY <2>1, <3>1 DEF Asked
  <2>5. Posted'
    BY <2>1, <2>3 DEF PoolInvariant, Posted, PoolOK, MapOK, OwesAll, OwesPool, OwesMap
  <2> QED BY <2>2, <2>4, <2>5
<1>2. ASSUME NEW a \in Admins, NEW m \in Maps,
             OpenEditor(a, m) \/ OpenMapDelete(a, m) \/ CreateMap(a, m) \/ ImportMap(a, m)
      PROVE  OperatorTypeOK' /\ Apart' /\ Asked' /\ Posted'
  BY <1>2, FormSteps, MapSteps
<1>3. ASSUME NEW a \in Admins, NEW p \in Pools, OpenCompose(a, p) \/ OpenHardDelete(a, p) \/ OpenDelete(a, p)
      PROVE  OperatorTypeOK' /\ Apart' /\ Asked' /\ Posted'
  BY <1>3, FormSteps
<1>4. ASSUME NEW a \in Admins, NEW p \in Pools, NEW m \in Maps, AddById(a, p, m) \/ Pick(a, p, m)
      PROVE  OperatorTypeOK' /\ Apart' /\ Asked' /\ Posted'
  BY <1>4, AddByIdStep DEF Pick
<1>5. ASSUME NEW a \in Admins, NEW p \in Pools,
             \/ CreatePool(a, p) \/ (\E m \in Maps : NewPool(a, p, m))
             \/ (\E q \in Pools : CopyPool(a, p, q) \/ DuplicatePool(a, p, q))
             \/ (\E to \in {"draft", "published"} : Transition(a, p, to)) \/ Archive(a, p)
      PROVE  OperatorTypeOK' /\ Apart' /\ Asked' /\ Posted'
  BY <1>5, PoolSteps
<1>6. ASSUME NEW a \in Admins,
             SubmitEditor(a) \/ SubmitCompose(a) \/ HardDelete(a) \/ DeletePool(a) \/ DeleteMap(a) \/ Shut(a)
      PROVE  OperatorTypeOK' /\ Apart' /\ Asked' /\ Posted'
  BY <1>6, SubmitEditorStep, SubmitComposeStep, HardDeleteStep, DeletePoolStep, DeleteMapStep, FormSteps
<1>7. ASSUME NEW a \in Admins, Save(a) \/ PoolPosts(a) \/ MapPosts(a) \/ RefreshFails(a)
      PROVE  OperatorTypeOK' /\ Apart' /\ Asked' /\ Posted'
  BY <1>7, SaveStep, PoolPostsStep, MapPostsStep, RefreshFailsStep
<1>8. ASSUME NEW a \in Admins, (\E ms \in SUBSET Maps : ImportList(a, ms)) \/ ListEnds(a) \/ SyncFails(a)
      PROVE  OperatorTypeOK' /\ Apart' /\ Asked' /\ Posted'
  BY <1>8, ListSteps
<1>9. ASSUME NEW a \in Admins, ImportLine(a) \/ SyncMaps(a) \/ ImportFails(a)
      PROVE  OperatorTypeOK' /\ Apart' /\ Asked' /\ Posted'
  BY <1>9, ImportLineStep, SyncMapsStep, ImportFailsStep
<1>10. ASSUME NEW a \in Admins, NEW ms \in SUBSET (Maps \ OwnMaps), ImportList(a, ms)
      PROVE  OperatorTypeOK' /\ Apart' /\ Asked' /\ Posted'
  <2>1. ms \in SUBSET Maps
    OBVIOUS
  <2> QED BY <1>8, <1>10, <2>1
<1>11. ASSUME NEW a \in Admins, NEW p \in Pools,
              \/ OpenCompose(a, p) \/ OpenHardDelete(a, p) \/ OpenDelete(a, p)
              \/ \E m \in Maps : AddById(a, p, m) \/ Pick(a, p, m) \/ NewPool(a, p, m)
              \/ CreatePool(a, p) \/ \E q \in Pools : CopyPool(a, p, q) \/ DuplicatePool(a, p, q)
              \/ \E to \in {"draft", "published"} : Transition(a, p, to)
              \/ Archive(a, p)
      PROVE  OperatorTypeOK' /\ Apart' /\ Asked' /\ Posted'
  BY <1>3, <1>4, <1>5, <1>11
<1>12. CASE OperatorNext
  <2>1. PICK a \in Admins :
    \/ \E m \in Maps : OpenEditor(a, m) \/ OpenMapDelete(a, m) \/ CreateMap(a, m) \/ ImportMap(a, m)
    \/ \E p \in Pools :
         \/ OpenCompose(a, p) \/ OpenHardDelete(a, p) \/ OpenDelete(a, p)
         \/ \E m \in Maps : AddById(a, p, m) \/ Pick(a, p, m) \/ NewPool(a, p, m)
         \/ CreatePool(a, p) \/ \E q \in Pools : CopyPool(a, p, q) \/ DuplicatePool(a, p, q)
         \/ \E s \in {"draft", "published"} : Transition(a, p, s)
         \/ Archive(a, p)
    \/ SubmitEditor(a) \/ SubmitCompose(a) \/ HardDelete(a) \/ DeletePool(a) \/ DeleteMap(a) \/ Shut(a)
    \/ Save(a) \/ PoolPosts(a) \/ MapPosts(a) \/ RefreshFails(a)
    \/ \E ms \in SUBSET (Maps \ OwnMaps) : ms # {} /\ ImportList(a, ms)
    \/ ImportLine(a) \/ ListEnds(a) \/ SyncMaps(a) \/ ImportFails(a) \/ SyncFails(a)
    BY <1>12 DEF OperatorNext
  <2> QED BY <1>2, <1>6, <1>7, <1>8, <1>9, <1>10, <1>11, <2>1
<1> QED BY <1>1, <1>12

LEMMA OperatorInits == OperatorInit => OperatorTypeOK /\ PoolInvariant
<1> SUFFICES ASSUME OperatorInit PROVE OperatorTypeOK /\ PoolInvariant
  OBVIOUS
<1>1. pools \in [Pools -> Documents \cup {Nil}]
  <2>1. \A ms \in SUBSET Maps : Fresh(ms) \in Documents
    BY DEF Fresh, Documents, States
  <2>2. {Nil} \cup {Fresh(ms) : ms \in SUBSET Maps} \subseteq Documents \cup {Nil}
    BY <2>1
  <2> HIDE DEF Documents
  <2>3. pools \in [Pools -> {Nil} \cup {Fresh(ms) : ms \in SUBSET Maps}]
    BY DEF OperatorInit
  <2> QED BY <2>2, <2>3
<1>2. maps \in [Maps -> {"none", "live", "archived"}] /\ Live = Maps
  BY DEF OperatorInit, Live
<1>3. links \in [Maps -> {Nil} \cup SUBSET Pools] /\ \A m \in Maps : links[m] = Linking(m)
  BY DEF OperatorInit, Linking, Stored
<1>4. \A p \in Stored : Card(p) \in Cards
  BY <1>1 DEF Card, Cards, Stored, Documents
<1>5. board \in [Pools -> Cards \cup {Nil}] /\ \A p \in Stored : board[p] = Card(p)
  BY <1>4 DEF OperatorInit, Stored
<1>6. form \in [Admins -> Forms \cup {Nil}] /\ work \in [Admins -> Works] /\ stale = {} /\ behind = {}
      /\ submits = 0 /\ refusals = 0 /\ \A a \in Admins : form[a] = Nil /\ work[a] = NoWork
  BY WorkShapes DEF OperatorInit
<1>7. OperatorTypeOK
  BY <1>1, <1>2, <1>3, <1>5, <1>6 DEF OperatorTypeOK
<1>8. Apart /\ Asked
  BY <1>6, WorkShapes DEF Apart, SavesApart, Asked, FormRead, SavesRead
<1>9. Posted
  BY <1>2, <1>3, <1>4, <1>5, PoolPanelsAssumption DEF Posted, PoolOK, MapOK
<1> QED BY <1>7, <1>8, <1>9 DEF PoolInvariant

\* What forms, pools, maps and refreshes under way hold is always what
\* PoolInvariant says.
THEOREM OperatorTypeCorrect == OperatorSpec => [](OperatorTypeOK /\ PoolInvariant)
<1> QED BY OperatorInits, OperatorStep, PTL DEF OperatorSpec

\* However many operators, pools and maps there are: while nobody is at work, every post
\* of a pool or of a map shows what is stored, but for those a flow left to the next sync.
THEOREM PostsAlwaysFollow == OperatorSpec => []PostsFollow
<1>1. PoolInvariant => PostsFollow
  <2> SUFFICES ASSUME PoolInvariant, \A a \in Admins : work[a] = NoWork
               PROVE  /\ \A p \in Stored \ behind : board[p] = Card(p)
                      /\ \A m \in Live \ behind : links[m] # Nil => links[m] = Linking(m)
    BY DEF PostsFollow
  <2>1. \A a \in Admins : (\A p : ~OwesPool(a, p)) /\ (\A m : ~OwesMap(a, m))
    BY IdleOwes, WorkShapes
  <2> QED BY <2>1 DEF PoolInvariant, Posted, PoolOK, MapOK, Stored, Live
<1> QED BY <1>1, OperatorTypeCorrect, PTL

LEMMA AskedStep ==
  ASSUME OperatorTypeOK, PoolInvariant, [OperatorNext]_operatorVars,
         NEW a \in Admins \ stale, NEW p \in Pools, work[a].at = "save", work'[a] # work[a],
         pools[p] # Nil, pools'[p] # Nil, NEW m \in (pools[p].maps \ pools'[p].maps) \cap Live
  PROVE  <<p, m>> \in work[a].asked \/ (p \in work[a].hidden /\ ~AllListed)
<1>0. form[a] = Nil /\ work[a] # NoWork
  BY WorkShapes DEF PoolInvariant, Apart
<1>1. Save(a)
  <2>0. OperatorNext
    BY DEF operatorVars
  <2>1. ASSUME NEW b \in Admins, NEW n \in Maps,
               OpenEditor(b, n) \/ OpenMapDelete(b, n) \/ CreateMap(b, n) \/ ImportMap(b, n)
        PROVE  work'[a] = work[a]
    BY <1>0, <2>1 DEF OpenEditor, Open, OpenMapDelete, CreateMap, ImportMap, Then, Free, OperatorTypeOK
  <2>2. ASSUME NEW b \in Admins, NEW q \in Pools,
               \/ OpenCompose(b, q) \/ OpenHardDelete(b, q) \/ OpenDelete(b, q)
               \/ \E n \in Maps : AddById(b, q, n) \/ Pick(b, q, n) \/ NewPool(b, q, n)
               \/ CreatePool(b, q) \/ \E r \in Pools : CopyPool(b, q, r) \/ DuplicatePool(b, q, r)
               \/ \E to \in {"draft", "published"} : Transition(b, q, to)
               \/ Archive(b, q)
        PROVE  work'[a] = work[a]
    <3>1. CASE OpenCompose(b, q) \/ OpenHardDelete(b, q) \/ OpenDelete(b, q)
      BY <3>1 DEF OpenCompose, OpenHardDelete, OpenDelete, Open
    <3>2. CASE \E n \in Maps : AddById(b, q, n) \/ Pick(b, q, n) \/ NewPool(b, q, n)
      BY <1>0, <3>2 DEF AddById, Pick, NewPool, Created, Then, Free, OperatorTypeOK
    <3>3. CASE CreatePool(b, q) \/ \E r \in Pools : CopyPool(b, q, r) \/ DuplicatePool(b, q, r)
      BY <1>0, <3>3 DEF CreatePool, CopyPool, DuplicatePool, Created, Then, Free, OperatorTypeOK
    <3>4. CASE (\E to \in {"draft", "published"} : Transition(b, q, to)) \/ Archive(b, q)
      BY <1>0, <3>4 DEF Transition, Archive, Archived, Then, Free, OperatorTypeOK
    <3> QED BY <2>2, <3>1, <3>2, <3>3, <3>4
  <2>3. ASSUME NEW b \in Admins,
               SubmitEditor(b) \/ SubmitCompose(b) \/ HardDelete(b) \/ DeletePool(b) \/ DeleteMap(b)
        PROVE  work'[a] = work[a]
    <3>1. b # a
      BY <1>0, <2>3 DEF SubmitEditor, SubmitCompose, HardDelete, DeletePool, DeleteMap
    <3>2. CASE SubmitEditor(b)
      BY <3>1, <3>2, EditorWork, WorkedOn
    <3>3. CASE SubmitCompose(b)
      BY <3>1, <3>3, ComposeWork, WorkedOn
    <3>4. CASE HardDelete(b)
      BY <3>1, <3>4 DEF HardDelete, Then, OperatorTypeOK
    <3>5. CASE DeletePool(b) \/ DeleteMap(b)
      BY <3>1, <3>5 DEF DeletePool, DeleteMap, Archived, Dropped, InVain, Then, OperatorTypeOK
    <3> QED BY <2>3, <3>2, <3>3, <3>4, <3>5
  <2>4. ASSUME NEW b \in Admins, Shut(b) \/ PoolPosts(b) \/ MapPosts(b) \/ RefreshFails(b) PROVE work'[a] = work[a]
    BY <2>4 DEF Shut, PoolPosts, MapPosts, RefreshFails, Then, OperatorTypeOK
  <2>5. ASSUME NEW b \in Admins,
               \/ \E ms \in SUBSET (Maps \ OwnMaps) : ms # {} /\ ImportList(b, ms)
               \/ ImportLine(b) \/ ListEnds(b) \/ SyncMaps(b) \/ ImportFails(b) \/ SyncFails(b)
        PROVE  work'[a] = work[a]
    <3>1. b # a
      BY <1>0, <2>5 DEF ImportList, ImportLine, ListEnds, SyncMaps, ImportFails, SyncFails, Free
    <3> QED BY <2>5, <3>1 DEF ImportList, ImportLine, ListEnds, SyncMaps, ImportFails, SyncFails, Then, OperatorTypeOK
  <2>6. ASSUME NEW b \in Admins, b # a, Save(b) PROVE work'[a] = work[a]
    BY <2>6, SaveWork, WorkedOn
  <2> QED BY <2>0, <2>1, <2>2, <2>3, <2>4, <2>5, <2>6 DEF OperatorNext
<1>2. PICK s \in work[a].saves : pools' = [pools EXCEPT ![s[1]].maps = s[2]]
  BY <1>1, SaveWork
<1>3. work[a].saves \subseteq Pools \X SUBSET Maps /\ pools[p] \in Documents
  BY StoreTyped DEF Works, Stored
<1>4. p = s[1]
  BY <1>2, <1>3 DEF OperatorTypeOK
<1>5. m \in Removed(s)
  <2>1. pools'[p] = [pools[p] EXCEPT !.maps = s[2]]
    BY <1>2, <1>4 DEF OperatorTypeOK
  <2>2. pools'[p].maps = s[2]
    BY <1>3, <2>1 DEF Documents
  <2> QED BY <1>4, <2>2 DEF Removed
<1> QED BY <1>2, <1>4, <1>5 DEF PoolInvariant, Asked, SavesRead

\* However many forms stay open while others save: a submit takes no live map out of a
\* pool that its operator did not ask to take out, unless somebody saved in between, or
\* the pool is a draft that the form of the map had no room to list.
THEOREM AlwaysAskedOnly == OperatorSpec => AskedOnly
<1>1. OperatorTypeOK /\ PoolInvariant /\ [OperatorNext]_operatorVars =>
        [\A a \in Admins \ stale, p \in Pools :
           work[a].at = "save" /\ work'[a] # work[a] /\ pools[p] # Nil /\ pools'[p] # Nil =>
             \A m \in (pools[p].maps \ pools'[p].maps) \cap Live :
               <<p, m>> \in work[a].asked \/ (p \in work[a].hidden /\ ~AllListed)]_operatorVars
  BY AskedStep
<1> QED BY <1>1, OperatorTypeCorrect, PTL DEF OperatorSpec, AskedOnly
=============================================================================
