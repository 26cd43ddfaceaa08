---------------------------- MODULE LogsChannel ----------------------------
(***************************************************************************)
(* The bot's log channel of one guild: where the events are routed (Redis, *)
(* then MongoDB), who may see that channel (the access policy on record    *)
(* and the overwrites on the platform), and the operations of LogService   *)
(* that change either, one awaited call per step.                          *)
(***************************************************************************)
EXTENDS Naturals, FiniteSets

CONSTANTS
  Channels, Roles, NoChannel,
  Tasks,     \* the tasks that may run an operation
  MaxFaults   \* bound on restarts, refused calls, lost cache writes and deleted channels

ASSUME LogsAssumption == NoChannel \notin Channels /\ MaxFaults \in Nat

VARIABLES
  cached, stored,  \* the routed channel, or NoChannel
  alive,           \* the channels that exist
  policy,          \* the policy on record; the default one when there is none
  everyone,        \* per channel, the @everyone overwrite: "unset", "open", "closed"
  me,              \* the channels with an overwrite that lets the bot in
  views,           \* per channel, the roles with a view overwrite
  work,            \* per task NoWork or the operation under way
  overlapped,          \* history: an operation began before another one was over
  faults

logsVars == <<cached, stored, alive, policy, everyone, me, views, work, overlapped, faults>>
route == <<cached, stored>>
platform == <<everyone, me, views>>

default_policy == [default |-> "admin_only", roles |-> {}]
NoWork == [kind |-> "idle", pc |-> "idle", policy |-> default_policy, grants |-> {}, target |-> NoChannel]
Policies == [default : {"admin_only", "public"}, roles : SUBSET Roles]

LogsInit ==
  /\ cached = NoChannel /\ stored = NoChannel /\ alive = Channels
  /\ policy = default_policy
  /\ everyone = [ch \in Channels |-> "unset"] /\ me = {} /\ views = [ch \in Channels |-> {}]
  /\ work = [c \in Tasks |-> NoWork]
  /\ overlapped = FALSE /\ faults = 0

Still == \A c \in Tasks : work[c] = NoWork
At(c, pc) == work[c].pc = pc
Goto(c, pc) == work' = [work EXCEPT ![c].pc = pc]
End(c) == work' = [work EXCEPT ![c] = NoWork]
Faulty == faults + Cardinality(Channels \ alive) < MaxFaults
Fault == Faulty /\ faults' = faults + 1
IsPublic(c) == work[c].policy.default = "public"

-----------------------------------------------------------------------------
(* The operations start by reading: the policy, or the route.              *)

Begin(c, kind, pc, read, grants, target) ==
  /\ work[c] = NoWork /\ overlapped' = (overlapped \/ ~Still)
  /\ work' = [work EXCEPT ![c] =
       [kind |-> kind, pc |-> pc, policy |-> read, grants |-> grants, target |-> target]]
  /\ UNCHANGED <<route, alive, policy, platform, faults>>

set_visibility(c) == \E v \in {"admin_only", "public"} :
  Begin(c, "visibility", "persist", [policy EXCEPT !.default = v], policy.roles, NoChannel)
reapply_default_policy(c) == Begin(c, "reset", "persist", default_policy, {}, NoChannel)
grant_role_view_access(c) == \E r \in Roles :
  Begin(c, "grant", "persist", [policy EXCEPT !.roles = @ \cup {r}], {r}, NoChannel)
log_event(c) == Begin(c, "event", "cache", policy, {}, NoChannel)

\* A channel that is already routed to is left as it is.
set_channel(c) == \E ch \in alive :
  stored # ch /\ Begin(c, "route", "upsert", policy, policy.roles, ch)

\* The policy is recorded first, the platform's overwrites follow.
Persist(c) ==
  /\ At(c, "persist")
  /\ policy' = work[c].policy
  /\ Goto(c, "cache")
  /\ UNCHANGED <<route, alive, platform, overlapped, faults>>

-----------------------------------------------------------------------------
(* resolve_channel: Redis, then MongoDB.  A name ending in _bug is mutated. *)

\* What follows once the channel is known; without one the operation ends.
Found(c, ch) ==
  IF ch = NoChannel \/ work[c].kind = "event" THEN End(c)
  ELSE work' = [work EXCEPT ![c].target = ch,
                            ![c].pc = IF work[c].kind = "grant" THEN "roles" ELSE "self"]

Cache(c) ==
  /\ At(c, "cache")
  /\ \/ cached \in alive /\ Found(c, cached)
     \/ cached \notin alive \cup {NoChannel} /\ Goto(c, "drop")
     \/ cached = NoChannel /\ Goto(c, "stored")
  /\ UNCHANGED <<route, alive, policy, platform, overlapped, faults>>

\* _drop_caches: the cached channel is gone, and so is the stored one, be it
\* the same or another.
DropCached(c) ==
  /\ At(c, "drop") /\ cached' = NoChannel /\ Goto(c, "purge")
  /\ UNCHANGED <<stored, alive, policy, platform, overlapped, faults>>

Purge(c) ==
  /\ At(c, "purge") /\ stored' = NoChannel /\ Goto(c, "stored")
  /\ UNCHANGED <<cached, alive, policy, platform, overlapped, faults>>

Forget(c) ==
  /\ At(c, "forget") /\ stored' = NoChannel /\ End(c)
  /\ UNCHANGED <<cached, alive, policy, platform, overlapped, faults>>

Stored(c) ==
  /\ At(c, "stored")
  /\ \/ stored \in alive /\ work' = [work EXCEPT ![c].target = stored, ![c].pc = "fill"]
     \/ stored \notin alive \cup {NoChannel} /\ Goto(c, "forget")
     \/ stored = NoChannel /\ Found(c, NoChannel)
  /\ UNCHANGED <<route, alive, policy, platform, overlapped, faults>>

\* _cache; LostWrite below is its failure.
Kept_bug(ch) == IF cached = NoChannel THEN ch ELSE cached
Kept(ch) == ch

Fill(c) ==
  /\ At(c, "fill")
  /\ cached' = Kept(work[c].target)
  /\ Found(c, work[c].target)
  /\ UNCHANGED <<stored, alive, policy, platform, overlapped, faults>>

-----------------------------------------------------------------------------
(* set_channel writes the route.                                            *)

Reroute(c) ==
  /\ At(c, "upsert") /\ stored' = work[c].target /\ Goto(c, "recache")
  /\ UNCHANGED <<cached, alive, policy, platform, overlapped, faults>>

Recache(c) ==
  /\ At(c, "recache") /\ cached' = Kept(work[c].target) /\ Goto(c, "self")
  /\ UNCHANGED <<stored, alive, policy, platform, overlapped, faults>>

-----------------------------------------------------------------------------
(* The overwrites, one call to the platform each.  A channel that is gone is *)
(* skipped; one the bot cannot see refuses the edit, which ends the           *)
(* operation.                                                                *)

Target(c) == work[c].target
Locked(c) == Target(c) \notin me /\ everyone[Target(c)] = "closed"
Gone(c) == Target(c) \notin alive

\* The bot lets itself in first: "denying @everyone first would lock the bot
\* out of its own channel".
LetIn_bug(ch) == me
LetIn(ch) == me \cup {ch}
Admit(c) ==
  /\ At(c, "self")
  /\ \/ Gone(c) /\ Goto(c, "everyone") /\ UNCHANGED me
     \/ ~Gone(c) /\ ~Locked(c) /\ Goto(c, "everyone") /\ me' = LetIn(Target(c))
  /\ UNCHANGED <<route, alive, policy, everyone, views, overlapped, faults>>

\* The public policy and the reset grant no role.
Visibility(c) == IF IsPublic(c) THEN "open" ELSE "closed"
Everyone(c) ==
  /\ At(c, "everyone")
  /\ everyone' = IF Gone(c) THEN everyone ELSE [everyone EXCEPT ![Target(c)] = Visibility(c)]
  /\ IF work[c].kind = "reset" \/ (work[c].kind = "visibility" /\ IsPublic(c)) THEN End(c) ELSE Goto(c, "roles")
  /\ UNCHANGED <<route, alive, policy, me, views, overlapped, faults>>

Grants_bug(c) == {}
Grants(c) == work[c].grants
Grant(c) ==
  /\ At(c, "roles") /\ End(c)
  /\ views' = IF Gone(c) THEN views ELSE [views EXCEPT ![Target(c)] = @ \cup Grants(c)]
  /\ UNCHANGED <<route, alive, policy, everyone, me, overlapped, faults>>

\* The platform refuses a call.
Refused(c) ==
  /\ Fault /\ work[c].pc \in {"self", "everyone", "roles"} /\ End(c)
  /\ UNCHANGED <<route, alive, policy, platform, overlapped>>

-----------------------------------------------------------------------------
(* The surroundings.                                                        *)

ProcessRestarts ==
  /\ Fault /\ ~Still /\ work' = [c \in Tasks |-> NoWork]
  /\ UNCHANGED <<route, alive, policy, platform, overlapped>>

\* A failed write to the cache is only logged.
LostWrite(c) ==
  /\ Fault
  /\ \/ At(c, "fill") /\ Found(c, Target(c))
     \/ At(c, "recache") /\ Goto(c, "self")
  /\ UNCHANGED <<route, alive, policy, platform, overlapped>>

Delete(ch) ==
  /\ ch \in alive /\ Faulty
  /\ alive' = alive \ {ch}
  /\ UNCHANGED <<route, policy, platform, work, overlapped, faults>>

Expire ==
  /\ cached # NoChannel /\ cached' = NoChannel
  /\ UNCHANGED <<stored, alive, policy, platform, work, overlapped, faults>>

Operate(c) ==
  \/ set_visibility(c) \/ reapply_default_policy(c) \/ grant_role_view_access(c)
  \/ set_channel(c) \/ log_event(c)
Continue(c) ==
  \/ Persist(c) \/ Cache(c) \/ DropCached(c) \/ Purge(c) \/ Forget(c) \/ Stored(c) \/ Fill(c)
  \/ Reroute(c) \/ Recache(c) \/ Admit(c) \/ Everyone(c) \/ Grant(c) \/ Refused(c) \/ LostWrite(c)

LogsNext == (\E c \in Tasks : Operate(c) \/ Continue(c)) \/ (\E ch \in Channels : Delete(ch)) \/ ProcessRestarts \/ Expire

LogsSpec == LogsInit /\ [][LogsNext]_logsVars

-----------------------------------------------------------------------------
\* Every variable keeps its type.
LogsTypeOK ==
  /\ {cached, stored} \subseteq Channels \cup {NoChannel} /\ alive \subseteq Channels
  /\ policy \in Policies
  /\ everyone \in [Channels -> {"unset", "open", "closed"}]
  /\ me \subseteq Channels /\ views \in [Channels -> SUBSET Roles]
  /\ \A c \in Tasks : work[c].policy \in Policies /\ work[c].target \in Channels \cup {NoChannel}

\* No step locks the bot out of a channel.
BotSees == \A ch \in Channels : everyone[ch] = "closed" => ch \in me

\* When nothing is under way, and as long as no operation overlapped another
\* and nothing failed, the channel the record routes to shows what the policy
\* on record says, to everyone and to the roles.
PolicyFollows ==
  (~overlapped /\ faults = 0 /\ Still /\ stored \in alive) =>
    /\ everyone[stored] = IF policy.default = "public" THEN "open" ELSE "closed"
    /\ policy.default = "admin_only" => policy.roles \subseteq views[stored]

\* Whatever fails, an operation opens a channel only while the record says
\* public, as long as no operation overlapped another.
OpenedOnRecord ==
  [][\A ch \in Channels :
      (~overlapped' /\ everyone'[ch] = "open" /\ everyone[ch] # "open") => policy.default = "public"]_logsVars

\* The record of a channel that exists is only ever replaced, as long as no
\* operation overlapped another and nothing failed.
RouteKept ==
  [][(~overlapped' /\ faults = 0 /\ stored \in alive /\ stored' # stored) => stored' # NoChannel]_logsVars
=============================================================================
