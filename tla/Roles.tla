------------------------------- MODULE Roles -------------------------------
(***************************************************************************)
(* The roles of a guild: the role of the bot's administrators and those    *)
(* the mods declare.  Synchronisations provision them, each click resolves *)
(* them, the members of the guild delete and rename them.  What is known   *)
(* of a role lives in three places: the guild, MongoDB (its mapping) and   *)
(* Redis.  The client's view of the guild is taken as current.  A name     *)
(* ending in _bug is a mutated form.                                       *)
(***************************************************************************)
EXTENDS FiniteSets, Naturals

CONSTANTS
  RoleKeys, Admin,     \* the roles the mods declare; that of the administrators
  Roles, Operators, NoRole, Deleted, Other, RoleCallers,
  MaxCalls, MaxRefusals, MaxMeddlings  \* bounds: calls, failed calls, acts of the members

Names == RoleKeys \cup {Admin}

ASSUME RolesAssumption ==
  /\ Admin \notin RoleKeys
  /\ {NoRole, Deleted, Other} \cap (Names \cup Roles) = {}
  /\ NoRole # Deleted /\ NoRole # Other /\ Deleted # Other
  /\ NoRole \notin {"mods", "bot", "channel", "edit"}
  /\ {MaxCalls, MaxRefusals, MaxMeddlings} \subseteq Nat

VARIABLES
  name,        \* each role: its name (Other: one no code looks for)
  holders,     \* each role: the operators that hold it
  visible,     \* the roles that see the channel of the administrators
  mapping,     \* MongoDB: the role of each key
  roleCache,   \* Redis: the role of each name, until it expires
  setup, names, asked, role,  \* per caller: step, names left, name and role in hand
  call,        \* per caller: what it was called for
  healed,      \* history: the calls made since anything disturbed them or the guild
  tainted,     \* history: calls overlapped, failed or were cut off by a restart
  calls, refusals, meddlings

roleGuild == <<name, holders, visible>>
roleStores == <<mapping, roleCache>>
roleLocals == <<setup, names, asked, role, call>>
roleHistory == <<healed, tainted>>
roleCounts == <<calls, refusals, meddlings>>
roleVars == <<roleGuild, roleStores, roleLocals, roleHistory, roleCounts>>

RolesInit ==
  /\ name = [r \in Roles |-> NoRole] /\ holders = [r \in Roles |-> {}] /\ visible = {}
  /\ mapping = [k \in RoleKeys |-> NoRole] /\ roleCache = [n \in Names |-> NoRole]
  /\ setup = [c \in RoleCallers |-> "idle"] /\ names = [c \in RoleCallers |-> {}]
  /\ asked = [c \in RoleCallers |-> NoRole] /\ role = [c \in RoleCallers |-> NoRole]
  /\ call = [c \in RoleCallers |-> NoRole]
  /\ healed = {} /\ tainted = FALSE /\ calls = 0 /\ refusals = 0 /\ meddlings = 0

Live == {r \in Roles : name[r] \notin {NoRole, Deleted}}
Working == {c \in RoleCallers : setup[c] # "idle"}
Bearing(n) == {r \in Live : name[r] = n}

Refusal == refusals < MaxRefusals /\ refusals' = refusals + 1 /\ healed' = {} /\ tainted' = TRUE
Unhindered == UNCHANGED <<refusals, roleHistory>>
Goes(c, step, n, r) ==
  /\ setup' = [setup EXCEPT ![c] = step]
  /\ asked' = [asked EXCEPT ![c] = n] /\ role' = [role EXCEPT ![c] = r]
Ends(c) ==
  /\ Goes(c, "idle", NoRole, NoRole)
  /\ names' = [names EXCEPT ![c] = {}] /\ call' = [call EXCEPT ![c] = NoRole]
\* The write of a cache entry is best effort.
Caches(n, r) ==
  \/ roleCache' = [roleCache EXCEPT ![n] = r] /\ Unhindered
  \/ UNCHANGED roleCache /\ Refusal

-----------------------------------------------------------------------------
(* Provisioning.                                                            *)

\* The synchronisation of the mods, that of the bot's own scope, or a resolution
\* of the channel of the administrators: one that names the operators (a message
\* is sent) or one that names none (a message is edited).
Call(c, what) ==
  /\ setup[c] = "idle" /\ calls < MaxCalls /\ calls' = calls + 1
  /\ setup' = [setup EXCEPT ![c] = "next"] /\ call' = [call EXCEPT ![c] = what]
  /\ names' = [names EXCEPT ![c] = IF what = "mods" THEN RoleKeys ELSE {Admin}]
  /\ healed' = (IF Working = {} THEN healed \cup {what} ELSE {})
  /\ tainted' = (tainted \/ Working # {})
  /\ UNCHANGED <<roleGuild, roleStores, asked, role, refusals, meddlings>>

\* The mapped role, if it lives; otherwise the one of that name; otherwise a
\* role is to be created.
Mapped_bug(k) == mapping[k] # NoRole
Mapped(k) == mapping[k] # NoRole /\ mapping[k] \in Live
Named_bug(n) == {r \in Bearing(n) : n \in RoleKeys}
Named(n) == Bearing(n)
LookUp(c) ==
  /\ setup[c] = "next"
  /\ \E n \in names[c] : /\ names' = [names EXCEPT ![c] = @ \ {n}]
       /\ IF n \in RoleKeys /\ Mapped(n) THEN Goes(c, "cache", n, mapping[n])
          ELSE IF Named(n) = {} THEN Goes(c, "create", n, NoRole)
          ELSE \E r \in Named(n) : Goes(c, IF n \in RoleKeys THEN "store" ELSE "cache", n, r)
  /\ Unhindered /\ UNCHANGED <<roleGuild, roleStores, call, calls, meddlings>>

\* The role of the administrators is cached, once created, under a key of no
\* guild, that nothing reads.
CreateRole(c) ==
  /\ setup[c] = "create"
  /\ \E r \in Roles :
       /\ name[r] = NoRole /\ name' = [name EXCEPT ![r] = asked[c]]
       /\ Goes(c, IF asked[c] \in RoleKeys THEN "store" ELSE "serve", asked[c], r)
  /\ Unhindered /\ UNCHANGED <<holders, visible, roleStores, names, call, calls, meddlings>>

\* A role that cannot be read, created or mapped ends the call.
Fails(c) ==
  /\ setup[c] \in {"next", "create", "store", "serve"} /\ Refusal /\ Ends(c)
  /\ UNCHANGED <<roleGuild, roleStores, calls, meddlings>>

Store(c) ==
  /\ setup[c] = "store" /\ mapping' = [mapping EXCEPT ![asked[c]] = role[c]]
  /\ Goes(c, "cache", asked[c], role[c])
  /\ Unhindered /\ UNCHANGED <<roleGuild, roleCache, names, call, calls, meddlings>>

Cache(c) ==
  /\ setup[c] = "cache" /\ Caches(asked[c], role[c])
  /\ IF asked[c] = Admin THEN Goes(c, "serve", Admin, role[c]) ELSE Goes(c, "next", NoRole, NoRole)
  /\ UNCHANGED <<roleGuild, mapping, names, call, calls, meddlings>>

\* The role of the administrators is given to the operators the call names, one
\* by one and as far as Discord agrees, and then sees the channel; no other
\* loses sight of it.
Granted_bug(r, P) == [holders EXCEPT ![r] = IF r \in Live \ visible THEN @ \cup P ELSE @]
Granted(r, P) == [holders EXCEPT ![r] = IF r \in Live THEN @ \cup P ELSE @]
NamedBy(c) == IF call[c] = "channel" THEN Operators ELSE {}
ServeRole(c) ==
  /\ setup[c] = "serve" /\ call[c] \in {"channel", "edit"}
  /\ \E P \in SUBSET NamedBy(c) :
       /\ IF P = NamedBy(c) THEN Unhindered ELSE Refusal
       /\ holders' = Granted(role[c], P)
  /\ Goes(c, "policy", Admin, role[c])
  /\ UNCHANGED <<name, visible, roleStores, names, call, calls, meddlings>>

Policy(c) ==
  /\ setup[c] = "policy" /\ Ends(c)
  /\ \/ Unhindered /\ visible' = visible \cup ({role[c]} \cap Live)
     \/ Refusal /\ UNCHANGED visible
  /\ UNCHANGED <<name, holders, roleStores, calls, meddlings>>

Done(c) ==
  /\ \/ setup[c] = "next" /\ names[c] = {}
     \/ setup[c] = "serve" /\ call[c] = "bot"
  /\ Ends(c) /\ Unhindered /\ UNCHANGED <<roleGuild, roleStores, calls, meddlings>>

-----------------------------------------------------------------------------
(* Resolution, at each click.                                               *)

\* Cache, then mapping, then name; what the last two answer is cached, alive
\* or not.
Answers(n) ==
  IF n \in RoleKeys /\ mapping[n] # NoRole THEN {mapping[n]}
  ELSE IF Bearing(n) = {} THEN {NoRole} ELSE Bearing(n)
ResolveRole(c, n) ==
  /\ setup[c] = "idle" /\ roleCache[n] = NoRole /\ calls < MaxCalls /\ calls' = calls + 1
  /\ \E r \in Answers(n) \ {NoRole} : Goes(c, "fill", n, r)
  /\ healed' = (IF Working = {} THEN healed ELSE {}) /\ tainted' = (tainted \/ Working # {})
  /\ UNCHANGED <<roleGuild, roleStores, names, call, refusals, meddlings>>

Fill(c) ==
  /\ setup[c] = "fill" /\ Caches(asked[c], role[c]) /\ Ends(c)
  /\ UNCHANGED <<roleGuild, mapping, calls, meddlings>>

EntryExpires(n) ==
  /\ roleCache[n] # NoRole /\ roleCache' = [roleCache EXCEPT ![n] = NoRole]
  /\ UNCHANGED <<roleGuild, mapping, roleLocals, roleHistory, roleCounts>>

\* The members of the guild delete a role, or rename it.
Alter(x) ==
  /\ meddlings < MaxMeddlings /\ meddlings' = meddlings + 1 /\ healed' = {}
  /\ \E r \in Live :
       /\ name[r] # x /\ name' = [name EXCEPT ![r] = x]
       /\ visible' = IF x = Deleted THEN visible \ {r} ELSE visible
       /\ holders' = IF x = Deleted THEN [holders EXCEPT ![r] = {}] ELSE holders
  /\ tainted' = (tainted \/ Working # {})
  /\ UNCHANGED <<roleStores, roleLocals, calls, refusals>>

\* ... or take it from an operator.
Strip ==
  /\ meddlings < MaxMeddlings /\ meddlings' = meddlings + 1 /\ healed' = {}
  /\ \E r \in Live : \E o \in holders[r] : holders' = [holders EXCEPT ![r] = @ \ {o}]
  /\ UNCHANGED <<name, visible, roleStores, roleLocals, tainted, calls, refusals>>

RoleRestart ==
  /\ Working # {} /\ Refusal
  /\ setup' = [c \in RoleCallers |-> "idle"] /\ names' = [c \in RoleCallers |-> {}]
  /\ asked' = [c \in RoleCallers |-> NoRole] /\ role' = [c \in RoleCallers |-> NoRole]
  /\ call' = [c \in RoleCallers |-> NoRole]
  /\ UNCHANGED <<roleGuild, roleStores, calls, meddlings>>

RolesNext ==
  \/ \E c \in RoleCallers :
       \/ \E what \in {"mods", "bot", "channel", "edit"} : Call(c, what)
       \/ LookUp(c) \/ CreateRole(c) \/ Fails(c) \/ Store(c) \/ Cache(c)
       \/ ServeRole(c) \/ Policy(c) \/ Done(c) \/ Fill(c)
       \/ \E n \in Names : ResolveRole(c, n)
  \/ \E n \in Names : EntryExpires(n)
  \/ \E x \in {Deleted, Other} : Alter(x)
  \/ Strip \/ RoleRestart

RolesSpec == RolesInit /\ [][RolesNext]_roleVars

-----------------------------------------------------------------------------
RolesTypeOK ==
  /\ name \in [Roles -> Names \cup {NoRole, Deleted, Other}]
  /\ holders \in [Roles -> SUBSET Operators] /\ visible \subseteq Roles
  /\ mapping \in [RoleKeys -> Roles \cup {NoRole}] /\ roleCache \in [Names -> Roles \cup {NoRole}]
  /\ setup \in [RoleCallers -> {"idle", "next", "create", "store", "cache", "serve", "policy",
                               "fill"}]
  /\ names \in [RoleCallers -> SUBSET Names] /\ asked \in [RoleCallers -> Names \cup {NoRole}]
  /\ role \in [RoleCallers -> Roles \cup {NoRole}]
  /\ call \in [RoleCallers -> {NoRole, "mods", "bot", "channel", "edit"}]
  /\ healed \subseteq {"mods", "bot", "channel", "edit"} /\ tainted \in BOOLEAN
  /\ {calls, refusals, meddlings} \subseteq Nat

\* What runs undisturbed heals, whatever was deleted, cut off or left half
\* done before: after a setup of the mods each key is mapped to a role that
\* lives, and the cache names no other; once the channel of the administrators
\* was resolved, a role of their name sees it; and once it was resolved for
\* operators, every one of them holds that role, those too that a member of the
\* guild had taken it from, and no edit of a message undoes that.  (So says
\* admin_channel.py:140, "a manual un-sync never survives a resolution"; for the
\* resolution of an edit, which names no operator, it says too much, and
\* roles_platform.py:155, "an operator manually stripped from the role is not
\* re-added here", is not what the code does.)  And roles are adopted, not
\* doubled: as long as calls neither overlapped nor failed, no two roles of the
\* guild bear the same declared name, even when the members deleted or renamed
\* those that did.
SetupHeals ==
  /\ Working = {} =>
       /\ "mods" \in healed =>
            \A k \in RoleKeys : mapping[k] \in Live /\ roleCache[k] \in {NoRole, mapping[k]}
       /\ healed \cap {"channel", "edit"} # {} => Bearing(Admin) \cap visible # {}
       /\ "channel" \in healed =>
            \E r \in Bearing(Admin) \cap visible : holders[r] = Operators
  /\ ~tainted => \A n \in Names : Cardinality(Bearing(n)) <= 1
=============================================================================
