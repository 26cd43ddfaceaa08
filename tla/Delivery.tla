------------------------------ MODULE Delivery ------------------------------
(***************************************************************************)
(* NotificationPipeline of kingdoms.core.services.delivery: intents queued *)
(* per destination, coalesced by key, flushed in batches by drain().       *)
(*                                                                         *)
(* enqueue() is synchronous.  drain() gives way only while it awaits the   *)
(* sink, so batches in flight, later enqueues and other drains interleave. *)
(* A payload is the number of its enqueue; consecutive_failures, which     *)
(* only lengthens the backoff, and the backoff's length are left out.      *)
(***************************************************************************)
EXTENDS Naturals, Sequences

CONSTANTS
  Destinations, Keys,   \* destinations; coalescing keys
  Drains,               \* drain() calls that may be in flight at once
  NoDestination,        \* a drain() call that awaits no send
  MaxEnqueues           \* bound on the enqueues

VARIABLES
  queued,     \* queued[d][k]: the queued payload, 0 when there is none
  order,      \* order[d]: the keys of the next batch, oldest first
  limited,    \* destinations inside their backoff
  drain,      \* drain[p]: the progress of one drain() call
  latest,     \* history: the last payload enqueued for d, k
  delivered,  \* history: the last payload the sink accepted for d, k
  joined,     \* history: the enqueue by which k joined the queue of d
  tangled,    \* history: destinations where an enqueue fell into a send that
              \* then failed, or where two sends were in flight at once
  clock       \* number of enqueues so far

deliveryVars == <<queued, order, limited, drain, latest, delivered, joined, tangled, clock>>

ASSUME DeliveryAssumption ==
  MaxEnqueues \in Nat /\ NoDestination \notin Destinations

Payloads == [Keys -> 0..MaxEnqueues]
Nothing == [k \in Keys |-> 0]
\* todo: destinations still to visit; at: the one whose send is awaited; the
\* batch is keys, in order, with the payloads in load.
DrainStates == [todo : SUBSET Destinations, at : Destinations \cup {NoDestination},
                keys : Seq(Keys), load : Payloads]
Asleep == [todo |-> {}, at |-> NoDestination, keys |-> <<>>, load |-> Nothing]

DeliveryInit ==
  /\ queued = [d \in Destinations |-> Nothing]
  /\ latest = queued /\ delivered = queued /\ joined = queued
  /\ order = [d \in Destinations |-> <<>>]
  /\ limited = {} /\ tangled = {}
  /\ drain = [p \in Drains |-> Asleep]
  /\ clock = 0

\* The decisions of the code; a name ending in _bug or _lost is a mutated
\* form, kept to show that a property notices.

\* The keys after an enqueue of k: a key already queued keeps its place.
Queued_bug(d, k) == Append(order[d], k)
Queued(d, k) == IF queued[d][k] = 0 THEN Append(order[d], k) ELSE order[d]
\* The payloads after an enqueue of k: the last write wins.
Overwritten_bug(d, k) == IF queued[d][k] = 0 THEN [queued[d] EXCEPT ![k] = clock + 1] ELSE queued[d]
Overwritten(d, k) == [queued[d] EXCEPT ![k] = clock + 1]
\* What a failed send puts back: its payloads over those queued meanwhile,
\* and its keys in place of the whole order.
Restored(p, d) == [k \in Keys |-> IF drain[p].load[k] # 0 THEN drain[p].load[k] ELSE queued[d][k]]
Requeued_bug(p) == [i \in 1..Len(drain[p].keys) |-> drain[p].keys[Len(drain[p].keys) + 1 - i]]
Requeued_lost(p) == <<>>
Requeued_doubled(p) == drain[p].keys \o order[drain[p].at]
Requeued(p) == drain[p].keys

Enqueue(d, k) ==
  /\ clock < MaxEnqueues
  /\ clock' = clock + 1
  /\ order' = [order EXCEPT ![d] = Queued(d, k)]
  /\ queued' = [queued EXCEPT ![d] = Overwritten(d, k)]
  /\ latest' = [latest EXCEPT ![d][k] = clock + 1]
  /\ joined' = IF queued[d][k] = 0 THEN [joined EXCEPT ![d][k] = clock + 1] ELSE joined
  /\ UNCHANGED <<limited, drain, delivered, tangled>>

\* drain(): a snapshot of the destinations known so far, one after the other.
Seen == {d \in Destinations : latest[d] # Nothing}
Drain(p) ==
  /\ drain[p] = Asleep
  /\ drain' = [drain EXCEPT ![p].todo = Seen]
  /\ UNCHANGED <<queued, order, limited, latest, delivered, joined, tangled, clock>>

\* A destination with nothing queued, or inside its backoff, is passed over.
Due(d) == order[d] # <<>> /\ d \notin limited
Skip(p, d) ==
  /\ drain[p].at = NoDestination /\ d \in drain[p].todo
  /\ ~Due(d)
  /\ drain' = [drain EXCEPT ![p].todo = @ \ {d}]
  /\ UNCHANGED <<queued, order, limited, latest, delivered, joined, tangled, clock>>

\* A batch pops the payloads of the keys the order names.  A key whose place a
\* failed send has overwritten is not among them: it stays queued, and Queued
\* gives it no new place.
InOrder(d, k) == \E i \in 1..Len(order[d]) : order[d][i] = k
Popped(d) == [k \in Keys |-> IF InOrder(d, k) THEN queued[d][k] ELSE 0]
Stuck(d) == [k \in Keys |-> IF InOrder(d, k) THEN 0 ELSE queued[d][k]]

\* The batch leaves the queue before the send is awaited.
Take(p, d) ==
  /\ drain[p].at = NoDestination /\ d \in drain[p].todo
  /\ Due(d)
  /\ drain' = [drain EXCEPT ![p] = [todo |-> @.todo \ {d}, at |-> d,
                                    keys |-> order[d], load |-> Popped(d)]]
  /\ order' = [order EXCEPT ![d] = <<>>]
  /\ queued' = [queued EXCEPT ![d] = Stuck(d)]
  /\ tangled' = IF \E q \in Drains : drain[q].at = d THEN tangled \cup {d} ELSE tangled
  /\ UNCHANGED <<limited, latest, delivered, joined, clock>>

Done(p) == [Asleep EXCEPT !.todo = drain[p].todo]

Sent(p, d) ==
  /\ drain[p].at = d
  /\ delivered' = [delivered EXCEPT ![d] = [k \in Keys |->
                     IF drain[p].load[k] # 0 THEN drain[p].load[k] ELSE @[k]]]
  /\ drain' = [drain EXCEPT ![p] = Done(p)]
  /\ UNCHANGED <<queued, order, limited, latest, joined, tangled, clock>>

\* The send raises; RateLimitedError also opens a backoff.
Failed(p, d) ==
  /\ drain[p].at = d
  /\ queued' = [queued EXCEPT ![d] = Restored(p, d)]
  /\ order' = [order EXCEPT ![d] = Requeued(p)]
  /\ limited' \in {limited, limited \cup {d}}
  /\ drain' = [drain EXCEPT ![p] = Done(p)]
  /\ tangled' = IF order[d] # <<>> THEN tangled \cup {d} ELSE tangled
  /\ UNCHANGED <<latest, delivered, joined, clock>>

Rearmed_bug(d) == limited
Rearmed(d) == limited \ {d}
BackoffElapses(d) ==
  /\ d \in limited
  /\ limited' = Rearmed(d)
  /\ UNCHANGED <<queued, order, drain, latest, delivered, joined, tangled, clock>>

DeliveryNext ==
  \/ \E d \in Destinations, k \in Keys : Enqueue(d, k)
  \/ \E p \in Drains : Drain(p)
  \/ \E p \in Drains, d \in Destinations : Skip(p, d) \/ Take(p, d) \/ Sent(p, d) \/ Failed(p, d)
  \/ \E d \in Destinations : BackoffElapses(d)

DeliverySpec == DeliveryInit /\ [][DeliveryNext]_deliveryVars

\* A ticker keeps calling drain(), backoffs elapse, and a destination whose
\* sends are retried for ever is not refused for ever.
DeliveryFairness ==
  /\ \A p \in Drains : WF_deliveryVars(Drain(p))
  /\ \A p \in Drains, d \in Destinations :
       WF_deliveryVars(Skip(p, d) \/ Take(p, d)) /\ WF_deliveryVars(Sent(p, d) \/ Failed(p, d))
  /\ \A d \in Destinations :
       SF_deliveryVars(\E p \in Drains : Sent(p, d)) /\ WF_deliveryVars(BackoffElapses(d))

DeliveryFairSpec == DeliverySpec /\ DeliveryFairness

-----------------------------------------------------------------------------
\* Every variable keeps its type.
DeliveryTypeOK ==
  /\ queued \in [Destinations -> Payloads] /\ order \in [Destinations -> Seq(Keys)]
  /\ limited \subseteq Destinations /\ tangled \subseteq Destinations
  /\ drain \in [Drains -> DrainStates]
  /\ latest \in [Destinations -> Payloads] /\ delivered \in [Destinations -> Payloads]
  /\ joined \in [Destinations -> Payloads]
  /\ clock \in 0..MaxEnqueues

\* The order never names a key that is not queued, nor one twice, so the
\* pops that build a batch never raise, however drains, failures and enqueues
\* overlap, also beside keys that are queued and have lost their place
\* ("enqueue never raises", "ladder business never blocks").
OrderConsistent ==
  \A d \in Destinations :
    /\ \A i \in 1..Len(order[d]) : queued[d][order[d][i]] # 0
    /\ \A i, j \in 1..Len(order[d]) : order[d][i] = order[d][j] => i = j

InFlight(d, k) == \E p \in Drains : drain[p].at = d /\ drain[p].load[k] = latest[d][k]

\* Unless an overlap has tangled its destination, "an intent is either
\* delivered, or queued for the next drain" (or in the batch of a send in
\* progress); "the latest payload for a burst wins", also after a failed send
\* put its batch back; nothing waits outside the order, where no drain would
\* find it; and "per-destination FIFO": keys wait in the order in which they
\* joined.
NoIntentLost ==
  \A d \in Destinations \ tangled :
    /\ \A k \in Keys : latest[d][k] # 0 =>
         delivered[d][k] = latest[d][k] \/ InFlight(d, k) \/ InOrder(d, k)
    /\ \A k \in Keys : queued[d][k] # 0 => queued[d][k] = latest[d][k] /\ InOrder(d, k)
    /\ \A i, j \in 1..Len(order[d]) : i < j => joined[d][order[d][i]] < joined[d][order[d][j]]

\* When enqueues cease, all that was enqueued last has been delivered in the
\* end, and a degraded destination does not hold back another one; only a
\* tangled destination may fail to get there.
EventuallyDelivered ==
  \A d \in Destinations : <>[](d \in tangled \/ delivered[d] = latest[d])
=============================================================================
