--------------------------- MODULE ManagedChannel ---------------------------
(***************************************************************************)
(* A channel the bot provides for itself in a guild, found by its name,    *)
(* created when there is none, remembered in MongoDB and in Redis:         *)
(* ManagedChannelService (the home) and AdminChannelService (the admins'   *)
(* channel).  Each step is one awaited call of an operation.               *)
(***************************************************************************)
EXTENDS Naturals

CONSTANTS
  Channels, NoChannel,
  Others,      \* the channels of other names that exist from the beginning
  Callers,     \* the tasks that may run an operation
  MaxRoutes,   \* bound on the calls of set_channel
  MaxCrashes   \* bound on restarts of the bot and refused calls

ASSUME ManagedAssumption ==
  /\ NoChannel \notin Channels /\ Others \subseteq Channels
  /\ {MaxRoutes, MaxCrashes} \subseteq Nat

VARIABLES
  fresh,           \* the channels that were never created
  alive,           \* the channels that exist
  named,           \* those among them that carry the name
  cached, stored,  \* the remembered channel, or NoChannel
  pc, target,      \* per caller: where its operation is, and the channel it holds
  lapped,          \* history: an operation began before another one was over
  routes, crashes

channelVars == <<fresh, alive, named, cached, stored, pc, target, lapped, routes, crashes>>
guild == <<fresh, alive, named>>
calls == <<pc, target>>

ChannelInit ==
  /\ fresh = Channels \ Others /\ alive = Others /\ named = {}
  /\ cached = NoChannel /\ stored = NoChannel
  /\ pc = [c \in Callers |-> "idle"] /\ target = [c \in Callers |-> NoChannel]
  /\ lapped = FALSE /\ routes = 0 /\ crashes = 0

Quiet == \A c \in Callers : pc[c] = "idle"
Go(c, next) == pc' = [pc EXCEPT ![c] = next]
Hold(c, ch, next) == Go(c, next) /\ target' = [target EXCEPT ![c] = ch]
Enter(c) == pc[c] = "idle" /\ lapped' = (lapped \/ ~Quiet)

-----------------------------------------------------------------------------
(* resolve_channel.  A name ending in _bug is a mutated form.               *)

Cache(c) ==
  /\ Enter(c)
  /\ IF cached \in alive THEN Hold(c, cached, "policy") ELSE Hold(c, NoChannel, "mongo")
  /\ UNCHANGED <<guild, cached, stored, routes, crashes>>

\* A stored channel that is gone is forgotten first.
Mongo(c) ==
  /\ pc[c] = "mongo"
  /\ \/ stored \in alive /\ Hold(c, stored, "fill")
     \/ stored \notin alive \cup {NoChannel} /\ Go(c, "forget") /\ UNCHANGED target
     \/ stored = NoChannel /\ Go(c, "adopt") /\ UNCHANGED target
  /\ UNCHANGED <<guild, cached, stored, lapped, routes, crashes>>

Forget(c) ==
  /\ pc[c] = "forget" /\ stored' = NoChannel /\ Go(c, "adopt")
  /\ UNCHANGED <<guild, cached, target, lapped, routes, crashes>>

\* A channel of the name is adopted; without one it is created.
Found_bug == {}
Found == named \cap alive
Adopt(c) ==
  /\ pc[c] = "adopt"
  /\ \/ \E ch \in Found : Hold(c, ch, "persist")
     \/ Found = {} /\ Go(c, "create") /\ UNCHANGED target
  /\ UNCHANGED <<guild, cached, stored, lapped, routes, crashes>>

Create(c) ==
  /\ pc[c] = "create"
  /\ \E ch \in fresh :
       /\ fresh' = fresh \ {ch} /\ alive' = alive \cup {ch} /\ named' = named \cup {ch}
       /\ Hold(c, ch, "persist")
  /\ UNCHANGED <<cached, stored, lapped, routes, crashes>>

-----------------------------------------------------------------------------
(* set_channel, and what both have in common.                               *)

Route(c) ==
  /\ Enter(c) /\ routes < MaxRoutes /\ routes' = routes + 1
  /\ \E ch \in alive : Hold(c, ch, "persist")
  /\ UNCHANGED <<guild, cached, stored, crashes>>

Persisted(c) == target[c]
Persist(c) ==
  /\ pc[c] = "persist" /\ stored' = Persisted(c) /\ Go(c, "fill")
  /\ UNCHANGED <<guild, cached, target, lapped, routes, crashes>>

\* The write to the cache is best-effort.
Fill(c) ==
  /\ pc[c] = "fill" /\ cached' = target[c] /\ Go(c, "policy")
  /\ UNCHANGED <<guild, stored, target, lapped, routes, crashes>>

\* The visibility policy is applied; a failure is only logged.
Policy(c) ==
  /\ pc[c] = "policy" /\ Go(c, "idle")
  /\ UNCHANGED <<guild, cached, stored, target, lapped, routes, crashes>>

-----------------------------------------------------------------------------
(* The surroundings: restarts, lost cache writes, the TTL, and the admins   *)
(* who delete or rename channels by hand.                                   *)

Restart ==
  /\ crashes < MaxCrashes /\ crashes' = crashes + 1 /\ ~Quiet
  /\ pc' = [c \in Callers |-> "idle"]
  /\ UNCHANGED <<guild, cached, stored, target, lapped, routes>>

LostWrite(c) ==
  /\ crashes < MaxCrashes /\ crashes' = crashes + 1
  /\ pc[c] = "fill" /\ Go(c, "policy")
  /\ UNCHANGED <<guild, cached, stored, target, lapped, routes>>

Expires_bug == FALSE
Expires == cached # NoChannel
Expire ==
  /\ Expires /\ cached' = NoChannel
  /\ UNCHANGED <<guild, stored, calls, lapped, routes, crashes>>

Delete(ch) ==
  /\ ch \in alive /\ alive' = alive \ {ch} /\ named' = named \ {ch}
  /\ UNCHANGED <<fresh, cached, stored, calls, lapped, routes, crashes>>

Rename(ch) ==
  /\ ch \in named /\ named' = named \ {ch}
  /\ UNCHANGED <<fresh, alive, cached, stored, calls, lapped, routes, crashes>>

Continue(c) ==
  \/ Mongo(c) \/ Forget(c) \/ Adopt(c) \/ Create(c) \/ Persist(c) \/ Fill(c) \/ Policy(c)

ChannelNext ==
  \/ \E c \in Callers : Cache(c) \/ Route(c) \/ Continue(c) \/ LostWrite(c)
  \/ \E ch \in Channels : Delete(ch) \/ Rename(ch)
  \/ Restart \/ Expire

ChannelSpec == ChannelInit /\ [][ChannelNext]_channelVars

\* An operation that has begun goes on; a cache entry lives 300 seconds.
ChannelFairness == WF_channelVars(Expire) /\ \A c \in Callers : WF_channelVars(Continue(c))
ChannelFairSpec == ChannelSpec /\ ChannelFairness

-----------------------------------------------------------------------------
\* Every variable keeps its type.
ChannelTypeOK ==
  /\ {fresh, alive, named} \subseteq SUBSET Channels
  /\ {cached, stored} \subseteq Channels \cup {NoChannel}
  /\ pc \in [Callers -> {"idle", "mongo", "forget", "adopt", "create", "persist", "fill", "policy"}]
  /\ target \in [Callers -> Channels \cup {NoChannel}] /\ lapped \in BOOLEAN

Single == \A a, b \in named : a = b

\* While operations take turns there is never a second channel of the name:
\* what a restart left created but not recorded is found again by its name.
OneNamed == ~lapped => Single

\* In the end the cache names the channel on record or none: no overlap, no
\* restart and no lost write diverts the messages for good.
CacheSettles == <>[](cached \in {NoChannel, stored})
=============================================================================
