------------------------- MODULE LogsChannelProofs -------------------------
(***************************************************************************)
(* What LogsChannel keeps for every set of channels, roles and callers and *)
(* every number of mishaps: its types, the bot's own access, and the       *)
(* record that an opening needs.                                           *)
(***************************************************************************)
EXTENDS LogsChannel, TLAPS

-----------------------------------------------------------------------------
(* Types.                                                                   *)

Points == {"idle", "persist", "cache", "drop", "purge", "forget", "stored", "fill",
           "upsert", "recache", "self", "everyone", "roles"}
Operations == [kind : {"idle", "visibility", "reset", "grant", "event", "route"}, pc : Points,
               policy : Policies, grants : SUBSET Roles, target : Channels \cup {NoChannel}]

\* The types with those of the operations under way.
Typed ==
  /\ LogsTypeOK
  /\ work \in [Tasks -> Operations]

LEMMA DefaultPolicy == default_policy \in Policies /\ NoWork \in Operations
BY DEF default_policy, Policies, NoWork, Operations, Points

\* An operation that ends, or goes on at another point, keeps its type.
LEMMA EndType ==
  ASSUME Typed, NEW c \in Tasks, End(c)
  PROVE  work' \in [Tasks -> Operations]
BY DefaultPolicy DEF Typed, End

LEMMA GotoType ==
  ASSUME Typed, NEW c \in Tasks, NEW pc \in Points, Goto(c, pc)
  PROVE  work' \in [Tasks -> Operations]
BY DEF Typed, Goto, Operations

LEMMA FoundType ==
  ASSUME Typed, NEW c \in Tasks, NEW ch \in Channels \cup {NoChannel}, Found(c, ch)
  PROVE  work' \in [Tasks -> Operations]
<1>1. CASE ch = NoChannel \/ work[c].kind = "event"
  BY <1>1, EndType DEF Found
<1>2. CASE ~(ch = NoChannel \/ work[c].kind = "event")
  BY <1>2 DEF Found, Typed, Operations, Points
<1> QED BY <1>1, <1>2

\* An operation that holds the stored channel.
LEMMA StoredType ==
  ASSUME Typed, NEW c \in Tasks, NEW ch \in Channels \cup {NoChannel},
         work' = [work EXCEPT ![c].target = ch, ![c].pc = "fill"]
  PROVE  work' \in [Tasks -> Operations]
<1> DEFINE op == [work[c] EXCEPT !.target = ch, !.pc = "fill"]
<1>1. op \in Operations
  BY DEF Typed, Operations, Points
<1>2. work' = [work EXCEPT ![c] = op]
  BY DEF Typed, Operations
<1> QED BY <1>1, <1>2 DEF Typed

\* What Begin puts down.
LEMMA BeginType ==
  ASSUME Typed, NEW c \in Tasks, NEW kind \in {"visibility", "reset", "grant", "event", "route"},
         NEW pc \in Points, NEW read \in Policies, NEW grants \in SUBSET Roles,
         NEW target \in Channels \cup {NoChannel}, Begin(c, kind, pc, read, grants, target)
  PROVE  Typed'
<1>1. [kind |-> kind, pc |-> pc, policy |-> read, grants |-> grants, target |-> target] \in Operations
  BY DEF Operations
<1>2. work' \in [Tasks -> Operations]
  BY <1>1 DEF Begin, Typed
<1>3. \A o \in Tasks : work'[o].policy \in Policies /\ work'[o].target \in Channels \cup {NoChannel}
  BY <1>2 DEF Operations
<1> QED BY <1>2, <1>3 DEF Typed, LogsTypeOK, Begin, route, platform

\* The record and the operations of a typed state.
LEMMA CallType ==
  ASSUME work \in [Tasks -> Operations]
  PROVE  \A o \in Tasks : work[o].policy \in Policies /\ work[o].target \in Channels \cup {NoChannel}
BY DEF Operations

\* The operations that begin.
LEMMA OperateType ==
  ASSUME Typed, NEW c \in Tasks, Operate(c)
  PROVE  Typed'
<1> USE DefaultPolicy DEF Points
<1>p. policy \in Policies /\ policy.roles \in SUBSET Roles
  BY DEF Typed, LogsTypeOK, Policies
<1>1. CASE set_visibility(c)
  <2>1. PICK v \in {"admin_only", "public"} :
          Begin(c, "visibility", "persist", [policy EXCEPT !.default = v], policy.roles, NoChannel)
    BY <1>1 DEF set_visibility
  <2>2. [policy EXCEPT !.default = v] \in Policies
    BY <1>p DEF Policies
  <2> QED BY <2>1, <2>2, <1>p, BeginType
<1>2. CASE reapply_default_policy(c)
  BY <1>2, BeginType DEF reapply_default_policy
<1>3. CASE grant_role_view_access(c)
  <2>1. PICK r \in Roles :
          Begin(c, "grant", "persist", [policy EXCEPT !.roles = @ \cup {r}], {r}, NoChannel)
    BY <1>3 DEF grant_role_view_access
  <2>2. [policy EXCEPT !.roles = @ \cup {r}] \in Policies
    BY <1>p DEF Policies
  <2> QED BY <2>1, <2>2, BeginType
<1>4. CASE set_channel(c)
  <2>1. PICK ch \in alive : Begin(c, "route", "upsert", policy, policy.roles, ch)
    BY <1>4 DEF set_channel
  <2>2. ch \in Channels \cup {NoChannel}
    BY DEF Typed, LogsTypeOK
  <2> QED BY <2>1, <2>2, <1>p, BeginType
<1>5. CASE log_event(c)
  BY <1>5, <1>p, BeginType DEF log_event
<1> QED BY <1>1, <1>2, <1>3, <1>4, <1>5 DEF Operate

\* The steps of an operation under way.
LEMMA ContinueType ==
  ASSUME Typed, NEW c \in Tasks, Continue(c)
  PROVE  Typed'
<1>1. work' \in [Tasks -> Operations]
  <2> USE EndType, GotoType, FoundType DEF Points
  <2>t. cached \in Channels \cup {NoChannel} /\ stored \in Channels \cup {NoChannel} /\ Target(c) \in Channels \cup {NoChannel}
    BY DEF Typed, LogsTypeOK, Target
  <2>1. CASE Persist(c) BY <2>1 DEF Persist
  <2>2. CASE Cache(c) BY <2>2, <2>t DEF Cache
  <2>3. CASE DropCached(c) \/ Purge(c) \/ Forget(c) BY <2>3 DEF DropCached, Purge, Forget
  <2>4. CASE Stored(c)
    <3>1. CASE stored \in alive /\ work' = [work EXCEPT ![c].target = stored, ![c].pc = "fill"]
      BY <3>1, <2>t, StoredType
    <3>2. CASE Goto(c, "forget") BY <3>2
    <3>3. CASE Found(c, NoChannel) BY <3>3
    <3> QED BY <2>4, <3>1, <3>2, <3>3 DEF Stored
  <2>5. CASE Fill(c) BY <2>5, <2>t DEF Fill, Target
  <2>6. CASE Reroute(c) \/ Recache(c) \/ Admit(c) BY <2>6 DEF Reroute, Recache, Admit
  <2>7. CASE Everyone(c) BY <2>7 DEF Everyone
  <2>8. CASE Grant(c) \/ Refused(c) BY <2>8 DEF Grant, Refused
  <2>9. CASE LostWrite(c) BY <2>9, <2>t DEF LostWrite
  <2> QED BY <2>1, <2>2, <2>3, <2>4, <2>5, <2>6, <2>7, <2>8, <2>9 DEF Continue
<1>2. (\A o \in Tasks : work[o].policy \in Policies /\ work[o].target \in Channels \cup {NoChannel})'
  BY <1>1, CallType DEF Operations
<1> SUFFICES (/\ {cached, stored} \subseteq Channels \cup {NoChannel} /\ alive \subseteq Channels
              /\ policy \in Policies
              /\ everyone \in [Channels -> {"unset", "open", "closed"}]
              /\ me \subseteq Channels /\ views \in [Channels -> SUBSET Roles])'
  BY <1>1, <1>2 DEF Typed, LogsTypeOK
<1> USE DEF Typed, LogsTypeOK, route, platform
<1>3. CASE Persist(c) BY <1>3 DEF Persist
<1>4. CASE Cache(c) BY <1>4 DEF Cache
<1>5. CASE DropCached(c) BY <1>5 DEF DropCached
<1>6. CASE Purge(c) BY <1>6 DEF Purge
<1>7. CASE Forget(c) BY <1>7 DEF Forget
<1>8. CASE Stored(c) BY <1>8 DEF Stored
<1>9. CASE Fill(c) BY <1>9 DEF Fill, Kept
<1>10. CASE Reroute(c) BY <1>10 DEF Reroute
<1>11. CASE Recache(c) BY <1>11 DEF Recache, Kept
<1>12. CASE Admit(c) BY <1>12 DEF Admit, LetIn, Gone, Target
<1>13. CASE Everyone(c) BY <1>13 DEF Everyone, Visibility
<1>14. CASE Grant(c)
  <2>1. work[c].grants \in SUBSET Roles
    BY DEF Operations
  <2> QED BY <1>14, <2>1 DEF Grant, Grants
<1>15. CASE Refused(c) BY <1>15 DEF Refused
<1>16. CASE LostWrite(c) BY <1>16 DEF LostWrite
<1> QED BY <1>3, <1>4, <1>5, <1>6, <1>7, <1>8, <1>9, <1>10, <1>11, <1>12, <1>13, <1>14, <1>15, <1>16 DEF Continue

LEMMA TypedStep == Typed /\ [LogsNext]_logsVars => Typed'
<1> SUFFICES ASSUME Typed, [LogsNext]_logsVars PROVE Typed'
  OBVIOUS
<1>1. ASSUME NEW c \in Tasks, Operate(c) \/ Continue(c) PROVE Typed'
  BY <1>1, OperateType, ContinueType
<1>2. ASSUME NEW ch \in Channels, Delete(ch) PROVE Typed'
  BY <1>2 DEF Delete, Typed, LogsTypeOK, route, platform
<1>3. CASE ProcessRestarts
  <2>1. work' \in [Tasks -> Operations]
    BY <1>3, DefaultPolicy DEF ProcessRestarts
  <2>2. (\A o \in Tasks : work[o].policy \in Policies /\ work[o].target \in Channels \cup {NoChannel})'
    BY <2>1 DEF Operations
  <2> QED BY <1>3, <2>1, <2>2 DEF ProcessRestarts, Typed, LogsTypeOK, route, platform
<1>4. CASE Expire
  BY <1>4 DEF Expire, Typed, LogsTypeOK, platform
<1>5. CASE UNCHANGED logsVars
  BY <1>5 DEF logsVars, Typed, LogsTypeOK
<1> QED BY <1>1, <1>2, <1>3, <1>4, <1>5 DEF LogsNext

LEMMA TypedInit == LogsInit => Typed
BY DefaultPolicy, LogsAssumption DEF LogsInit, Typed, LogsTypeOK, NoWork, Operations

\* LogsChannel keeps its types, whatever overlaps and fails.
THEOREM TypeCorrect == LogsSpec => []LogsTypeOK
<1>1. Typed => LogsTypeOK
  BY DEF Typed
<1> QED BY <1>1, TypedInit, TypedStep, PTL DEF LogsSpec

-----------------------------------------------------------------------------
(* What a step of an operation does to the operations.                      *)

\* The operation of c goes on with what it has read, at one of the points S,
\* or is over; the others stay where they are.
Moved(c, S) ==
  /\ \A d \in Tasks \ {c} : work'[d] = work[d]
  /\ work'[c] = NoWork \/ (work'[c].policy = work[c].policy /\ work'[c].pc \in S)

LEMMA EndMoves ==
  ASSUME Typed, NEW c \in Tasks, NEW S, End(c)
  PROVE  Moved(c, S)
BY DEF Typed, End, Moved

LEMMA GotoMoves ==
  ASSUME Typed, NEW c \in Tasks, NEW S, NEW pc \in S, Goto(c, pc)
  PROVE  Moved(c, S)
BY DEF Typed, Goto, Moved, Operations

LEMMA FoundMoves ==
  ASSUME Typed, NEW c \in Tasks, NEW ch, Found(c, ch)
  PROVE  Moved(c, Points \ {"everyone"})
<1>1. CASE ch = NoChannel \/ work[c].kind = "event"
  BY <1>1, EndMoves DEF Found
<1>2. CASE ~(ch = NoChannel \/ work[c].kind = "event")
  <2> DEFINE op == [work[c] EXCEPT !.target = ch, !.pc = IF work[c].kind = "grant" THEN "roles" ELSE "self"]
  <2>1. op.policy = work[c].policy /\ op.pc \in {"roles", "self"}
    BY DEF Typed, Operations
  <2>2. work' = [work EXCEPT ![c] = op]
    BY <1>2 DEF Typed, Operations, Found
  <2> QED BY <2>1, <2>2 DEF Typed, Moved, Points
<1> QED BY <1>1, <1>2

LEMMA StoredMoves ==
  ASSUME Typed, NEW c \in Tasks, NEW ch, work' = [work EXCEPT ![c].target = ch, ![c].pc = "fill"]
  PROVE  Moved(c, Points \ {"everyone"})
<1> DEFINE op == [work[c] EXCEPT !.target = ch, !.pc = "fill"]
<1>1. op.policy = work[c].policy /\ op.pc = "fill"
  BY DEF Typed, Operations
<1>2. work' = [work EXCEPT ![c] = op]
  BY DEF Typed, Operations
<1> QED BY <1>1, <1>2 DEF Typed, Moved, Points

\* Only Admit leads to the point where @everyone is touched.
LEMMA Moves ==
  ASSUME Typed, NEW c \in Tasks, Continue(c)
  PROVE  Moved(c, IF Admit(c) THEN {"everyone"} ELSE Points \ {"everyone"})
<1> DEFINE S == Points \ {"everyone"}
<1>1. CASE Admit(c)
  BY <1>1, GotoMoves DEF Admit
<1>2. CASE ~Admit(c)
  <2> SUFFICES Moved(c, S)
    BY <1>2
  <2> USE EndMoves, GotoMoves, FoundMoves DEF Points
  <2>1. CASE Persist(c) BY <2>1 DEF Persist
  <2>2. CASE Cache(c)
    <3>1. CASE Found(c, cached) BY <3>1
    <3>2. CASE Goto(c, "drop") \/ Goto(c, "stored") BY <3>2
    <3> QED BY <2>2, <3>1, <3>2 DEF Cache
  <2>3. CASE DropCached(c) \/ Purge(c) \/ Forget(c) BY <2>3 DEF DropCached, Purge, Forget
  <2>4. CASE Stored(c)
    <3>1. CASE Found(c, NoChannel) BY <3>1
    <3>2. CASE Goto(c, "forget") BY <3>2
    <3>3. CASE work' = [work EXCEPT ![c].target = stored, ![c].pc = "fill"] BY <3>3, StoredMoves
    <3> QED BY <2>4, <3>1, <3>2, <3>3 DEF Stored
  <2>5. CASE Fill(c) BY <2>5 DEF Fill
  <2>6. CASE Reroute(c) \/ Recache(c) BY <2>6 DEF Reroute, Recache
  <2>7. CASE Everyone(c) BY <2>7 DEF Everyone
  <2>8. CASE Grant(c) \/ Refused(c) BY <2>8 DEF Grant, Refused
  <2>9. CASE LostWrite(c) BY <2>9 DEF LostWrite
  <2> QED BY <1>2, <2>1, <2>2, <2>3, <2>4, <2>5, <2>6, <2>7, <2>8, <2>9 DEF Continue
<1> QED BY <1>1, <1>2

\* An operation begins in its turn, or laps another one.
LEMMA Begins ==
  ASSUME Typed, NEW c \in Tasks, Operate(c)
  PROVE  /\ overlapped' = (overlapped \/ ~Still) /\ UNCHANGED <<alive, policy, everyone, me>>
         /\ \A d \in Tasks \ {c} : work'[d] = work[d]
         /\ work'[c].pc = "persist" \/ (work'[c].pc \in {"cache", "upsert"} /\ work'[c].policy = policy)
BY DEF Typed, Operations, Operate, set_visibility, reapply_default_policy, grant_role_view_access,
       set_channel, log_event, Begin, platform

-----------------------------------------------------------------------------
(* The bot's own access.                                                    *)

\* Before an operation touches @everyone it has let the bot in.
Inside == \A c \in Tasks : At(c, "everyone") /\ ~Gone(c) => Target(c) \in me

\* BotSees, Inside and the types are inductive.
SeesInv == Typed /\ BotSees /\ Inside

LEMMA SeesStep == SeesInv /\ [LogsNext]_logsVars => SeesInv'
<1> SUFFICES ASSUME SeesInv, [LogsNext]_logsVars PROVE SeesInv'
  OBVIOUS
<1>t. Typed'
  BY TypedStep DEF SeesInv
<1> SUFFICES (BotSees /\ Inside)'
  BY <1>t DEF SeesInv
<1> USE DEF SeesInv, Typed, BotSees, Inside, At, Gone, Target, route, platform
<1>1. ASSUME NEW c \in Tasks, Operate(c) PROVE (BotSees /\ Inside)'
  BY <1>1, Begins
<1>2. ASSUME NEW c \in Tasks, Continue(c) PROVE (BotSees /\ Inside)'
  <2>m. Moved(c, IF Admit(c) THEN {"everyone"} ELSE Points \ {"everyone"})
    BY <1>2, Moves
  <2>1. CASE Admit(c)
    <3>1. UNCHANGED <<alive, everyone>> /\ me \subseteq me' /\ (~Gone(c) => Target(c) \in me')
      BY <2>1 DEF Admit, LetIn
    <3>2. Target(c)' = Target(c)
      BY <2>1 DEF Admit, Goto, Operations
    <3> QED BY <2>m, <3>1, <3>2 DEF Moved
  <2>2. CASE Everyone(c)
    <3>1. \A ch \in Channels : everyone'[ch] = "closed" => ch \in me
      BY <2>2 DEF Everyone, LogsTypeOK
    <3>2. UNCHANGED <<alive, me>> /\ ~Admit(c)
      BY <2>2 DEF Everyone, Admit
    <3> QED BY <2>m, <3>1, <3>2 DEF Moved, NoWork
  <2>3. CASE ~Admit(c) /\ ~Everyone(c)
    <3>1. UNCHANGED <<alive, everyone, me>>
      BY <1>2, <2>3 DEF Continue, Persist, Cache, DropCached, Purge, Forget, Stored, Fill, Reroute,
                        Recache, Grant, Refused, LostWrite
    <3> QED BY <2>m, <2>3, <3>1 DEF Moved, NoWork
  <2> QED BY <2>1, <2>2, <2>3
<1>3. ASSUME NEW ch \in Channels, Delete(ch) PROVE (BotSees /\ Inside)'
  BY <1>3 DEF Delete
<1>4. CASE ProcessRestarts
  BY <1>4 DEF ProcessRestarts, NoWork
<1>5. CASE Expire \/ UNCHANGED logsVars
  BY <1>5 DEF Expire, logsVars
<1> QED BY <1>1, <1>2, <1>3, <1>4, <1>5 DEF LogsNext

\* Whatever overlaps, is refused, restarts or is deleted, a channel that is
\* closed to everyone is open to the bot.
THEOREM BotAlwaysSees == LogsSpec => []BotSees
<1>1. LogsInit => SeesInv
  BY TypedInit DEF LogsInit, SeesInv, BotSees, Inside, At, NoWork
<1>2. SeesInv => BotSees
  BY DEF SeesInv
<1> QED BY <1>1, <1>2, SeesStep, PTL DEF LogsSpec

-----------------------------------------------------------------------------
(* An opening is on record.                                                 *)

\* While operations take turns, one at most is under way, and once past its
\* first write it acts on the policy on record.
Turns ==
  /\ \A c, d \in Tasks : work[c] # NoWork /\ work[d] # NoWork => c = d
  /\ \A c \in Tasks : work[c].pc \notin {"idle", "persist"} => work[c].policy = policy
TurnsInv == Typed /\ (~overlapped => Turns)

LEMMA TurnsStep == TurnsInv /\ [LogsNext]_logsVars => TurnsInv'
<1> SUFFICES ASSUME TurnsInv, [LogsNext]_logsVars PROVE TurnsInv'
  OBVIOUS
<1>t. Typed /\ Typed'
  BY TypedStep DEF TurnsInv
<1> SUFFICES ASSUME ~overlapped' PROVE Turns'
  BY <1>t DEF TurnsInv
<1>1. ASSUME NEW c \in Tasks, Operate(c) PROVE Turns'
  <2>1. Still /\ policy' = policy
    BY <1>1, <1>t, Begins
  <2>2. \A d \in Tasks \ {c} : work'[d] = NoWork
    BY <1>1, <1>t, <2>1, Begins DEF Still
  <2>3. work'[c].pc \notin {"idle", "persist"} => work'[c].policy = policy'
    BY <1>1, <1>t, <2>1, Begins
  <2> QED BY <2>2, <2>3 DEF Turns, NoWork
<1>2. ASSUME NEW c \in Tasks, Continue(c) PROVE Turns'
  <2>1. Moved(c, IF Admit(c) THEN {"everyone"} ELSE Points \ {"everyone"})
    BY <1>2, <1>t, Moves
  <2>2. overlapped' = overlapped /\ work[c].pc # "idle"
    BY <1>2 DEF Continue, Persist, Cache, DropCached, Purge, Forget, Stored, Fill, Reroute, Recache,
                Admit, Everyone, Grant, Refused, LostWrite, At
  <2>3. Turns
    BY <2>2 DEF TurnsInv
  <2>4. \A d \in Tasks \ {c} : work'[d] = NoWork
    <3>1. work[c] # NoWork
      BY <2>2 DEF NoWork
    <3>2. \A d \in Tasks \ {c} : work[d] = NoWork
      BY <2>3, <3>1 DEF Turns
    <3> QED BY <2>1, <3>2 DEF Moved
  <2>5. CASE Persist(c)
    BY <2>1, <2>4, <2>5 DEF Turns, Moved, Persist, NoWork
  <2>6. CASE ~Persist(c)
    <3>1. work[c].pc # "persist" /\ policy' = policy
      BY <1>2, <2>6 DEF Continue, Cache, DropCached, Purge, Forget, Stored, Fill, Reroute, Recache,
                        Admit, Everyone, Grant, Refused, LostWrite, At
    <3>2. work[c].policy = policy
      BY <2>2, <2>3, <3>1 DEF Turns
    <3>3. work'[c].pc \notin {"idle", "persist"} => work'[c].policy = policy'
      BY <2>1, <3>1, <3>2 DEF Moved, NoWork
    <3> QED BY <2>4, <3>3 DEF Turns, NoWork
  <2> QED BY <2>5, <2>6
<1>3. ASSUME NEW ch \in Channels, Delete(ch) PROVE Turns'
  BY <1>3 DEF Delete, TurnsInv, Turns
<1>4. CASE ProcessRestarts
  BY <1>4 DEF ProcessRestarts, Turns, NoWork
<1>5. CASE Expire \/ UNCHANGED logsVars
  BY <1>5 DEF Expire, logsVars, TurnsInv, Turns
<1> QED BY <1>1, <1>2, <1>3, <1>4, <1>5 DEF LogsNext

\* As long as operations take turns, no channel opens to everyone while the
\* record says otherwise, whatever fails or is deleted on the way.
THEOREM TurnsOpenOnRecord == LogsSpec => OpenedOnRecord
<1> DEFINE Opens == \A ch \in Channels :
      (~overlapped' /\ everyone'[ch] = "open" /\ everyone[ch] # "open") => policy.default = "public"
<1>1. LogsInit => TurnsInv
  BY TypedInit DEF LogsInit, TurnsInv, Turns, NoWork
<1>2. ASSUME TurnsInv, [LogsNext]_logsVars PROVE Opens \/ UNCHANGED logsVars
  <2> SUFFICES ASSUME NEW ch \in Channels, ~overlapped', everyone'[ch] = "open", everyone[ch] # "open"
               PROVE  policy.default = "public"
    OBVIOUS
  <2>1. PICK c \in Tasks : Everyone(c)
    BY <1>2, Begins DEF LogsNext, TurnsInv, Continue, Persist, Cache, DropCached, Purge, Forget, Stored, Fill,
       Reroute, Recache, Admit, Grant, Refused, LostWrite, ProcessRestarts, Delete, Expire, logsVars, platform
  <2>2. ~overlapped /\ work[c].policy = policy
    BY <1>2, <2>1 DEF Everyone, TurnsInv, Turns, At
  <2>3. IsPublic(c)
    BY <1>2, <2>1 DEF Everyone, Visibility, TurnsInv, Typed, LogsTypeOK
  <2> QED BY <2>2, <2>3 DEF IsPublic
<1>3. TurnsInv /\ [LogsNext]_logsVars => [Opens]_logsVars
  BY <1>2
<1> QED BY <1>1, <1>3, TurnsStep, PTL DEF LogsSpec, OpenedOnRecord

-----------------------------------------------------------------------------
(***************************************************************************)
(* The platform follows the record.  While operations take turns and none  *)
(* fails, the cached route is the stored one, and an operation under way   *)
(* either rewrites the routed channel's @everyone overwrite or found it    *)
(* right, and it grants what the roles still lack.                         *)
(***************************************************************************)

Shown(ch) == everyone[ch] = IF policy.default = "public" THEN "open" ELSE "closed"
Lacking(ch, S) == policy.default = "admin_only" => policy.roles \subseteq views[ch] \cup S

Agree == cached # NoChannel => cached = stored \/ \E c \in Tasks : At(c, "recache")
Follows == stored \in alive => Shown(stored) /\ Lacking(stored, {})

\* Where an operation of each kind may be, and what it then holds.
Route(o) ==
  /\ o.kind = "route" => o.pc \in {"upsert", "recache", "self", "everyone", "roles"}
  /\ o.kind # "route" => o.pc \notin {"upsert", "recache"}
  /\ o.kind = "event" => o.pc \notin {"persist", "self", "everyone", "roles"}
  /\ o.kind = "grant" => o.pc \notin {"self", "everyone"}
  /\ o.kind = "reset" => o.pc # "roles"
  /\ o.kind # "idle" /\ o.pc # "idle"
  /\ o.pc \in {"fill", "recache", "self", "everyone", "roles"} => o.target = stored
  /\ o.pc \in {"purge", "stored", "forget"} => cached = NoChannel
Copy(o) ==
  /\ o.kind \in {"visibility", "route"} => o.policy.roles \subseteq o.grants
  /\ o.kind = "reset" => o.policy.roles = {}
  /\ o.kind = "grant" /\ o.pc = "persist" =>
       o.policy.default = policy.default /\ o.policy.roles \subseteq policy.roles \cup o.grants
  /\ o.kind = "event" => o.grants = {}
Due(o) ==
  stored \in alive =>
    /\ (o.kind \in {"visibility", "reset", "route"} /\ o.pc # "roles") \/ Shown(stored)
    /\ o.kind \in {"grant", "event"} => Lacking(stored, o.grants)
Ready(o) == Route(o) /\ Copy(o) /\ Due(o)

Clean == Agree /\ (Still => Follows) /\ \A c \in Tasks : work[c] # NoWork => Ready(work[c])
CleanInv == faults \in Nat /\ (~overlapped /\ faults = 0 => Clean)

\* The operation of c goes on at a point, with a target, and is otherwise what
\* it was.
Goes(c, pc, target) ==
  /\ (work'[c]).kind = work[c].kind /\ (work'[c]).policy = work[c].policy
  /\ (work'[c]).grants = work[c].grants
  /\ (work'[c]).pc = pc /\ (work'[c]).target = target

LEMMA GotoGoes ==
  ASSUME Typed, NEW c \in Tasks, NEW pc, Goto(c, pc)
  PROVE  Goes(c, pc, Target(c))
BY DEF Typed, Goto, Goes, Target, Operations

LEMMA EndEnds ==
  ASSUME Typed, NEW c \in Tasks, End(c)
  PROVE  work'[c] = NoWork
BY DEF Typed, End

LEMMA StoredGoes ==
  ASSUME Typed, NEW c \in Tasks, NEW ch, NEW pc, work' = [work EXCEPT ![c].target = ch, ![c].pc = pc]
  PROVE  Goes(c, pc, ch)
<1> DEFINE op == [work[c] EXCEPT !.target = ch, !.pc = pc]
<1>1. /\ op.kind = work[c].kind /\ op.policy = work[c].policy /\ op.grants = work[c].grants
      /\ op.pc = pc /\ op.target = ch
  BY DEF Typed, Operations
<1>2. work' = [work EXCEPT ![c] = op]
  BY DEF Typed, Operations
<1> QED BY <1>1, <1>2 DEF Typed, Goes

LEMMA FoundGoes ==
  ASSUME Typed, NEW c \in Tasks, NEW ch, Found(c, ch)
  PROVE  /\ ch = NoChannel \/ work[c].kind = "event" => work'[c] = NoWork
         /\ ~(ch = NoChannel \/ work[c].kind = "event") =>
              Goes(c, IF work[c].kind = "grant" THEN "roles" ELSE "self", ch)
<1>1. CASE ch = NoChannel \/ work[c].kind = "event"
  BY <1>1, EndEnds DEF Found
<1>2. CASE ~(ch = NoChannel \/ work[c].kind = "event")
  BY <1>2, StoredGoes DEF Found
<1> QED BY <1>1, <1>2

\* With one operation under way, the new state has to be looked at for it.
LEMMA CleanFor ==
  ASSUME NEW c \in Tasks, \A d \in Tasks \ {c} : work'[d] = NoWork,
         cached' # NoChannel => cached' = stored' \/ (work'[c]).pc = "recache",
         work'[c] = NoWork => Follows', work'[c] # NoWork => Ready(work[c])'
  PROVE  Clean'
<1>1. Agree'
  BY DEF Agree, At
<1>2. (Still => Follows)'
  BY DEF Still
<1>3. \A d \in Tasks : (work[d] # NoWork => Ready(work[d]))'
  OBVIOUS
<1> QED BY <1>1, <1>2, <1>3 DEF Clean

\* Each step of an operation leaves what the next one relies on, and the last
\* one leaves the platform as the record says.
LEMMA CleanContinue ==
  ASSUME Typed, Turns, Clean, NEW c \in Tasks, Continue(c), faults' = faults, faults = 0
  PROVE  Clean'
<1> DEFINE o == work[c]
<1>1. \A d \in Tasks \ {c} : work'[d] = NoWork /\ work[d] = NoWork
  <2>1. o # NoWork
    BY DEF Continue, Persist, Cache, DropCached, Purge, Forget, Stored, Fill, Reroute, Recache,
           Admit, Everyone, Grant, Refused, LostWrite, Fault, At, NoWork
  <2> QED BY <2>1, Moves DEF Turns, Moved
<1>2. o \in Operations /\ alive \subseteq Channels /\ NoChannel \notin alive
  BY LogsAssumption DEF Typed, LogsTypeOK
<1>3. o.pc # "idle" => Ready(o) /\ (o.pc # "persist" => o.policy = policy)
  BY DEF Clean, NoWork, Turns
<1>4. cached # NoChannel => cached = stored \/ o.pc = "recache"
  BY <1>1 DEF Clean, Agree, At, NoWork
<1> USE DEF At, Target, Gone, route, platform
<1>5. CASE Persist(c)
  <2>1. /\ Goes(c, "cache", o.target) /\ policy' = o.policy /\ o.pc = "persist"
        /\ UNCHANGED <<cached, stored, alive, everyone, views>>
    BY <1>5, GotoGoes DEF Persist
  <2>2. Route(o) /\ Copy(o) /\ Due(o)
    BY <1>3, <2>1 DEF Ready
  <2>3. Route(work[c])' /\ Copy(work[c])'
    BY <2>1, <2>2 DEF Route, Copy, Goes
  <2>4. Due(work[c])'
    <3>1. o.kind \in {"visibility", "reset", "grant"}
      BY <1>2, <2>1, <2>2 DEF Route, Operations
    <3>2. CASE o.kind = "grant"
      BY <2>1, <2>2, <3>2 DEF Due, Copy, Goes, Shown, Lacking
    <3>3. CASE o.kind \in {"visibility", "reset"}
      BY <2>1, <3>3 DEF Due, Goes
    <3> QED BY <3>1, <3>2, <3>3
  <2>5. (work'[c]).pc = "cache"
    BY <2>1 DEF Goes
  <2> QED BY <1>1, <1>4, <2>1, <2>3, <2>4, <2>5, CleanFor DEF Ready, NoWork
<1>6. CASE Cache(c)
  <2>1. o.pc = "cache" /\ UNCHANGED <<cached, stored, alive, policy, everyone, views>>
    BY <1>6 DEF Cache
  <2>2. Route(o) /\ Copy(o) /\ Due(o)
    BY <1>3, <2>1 DEF Ready
  <2>3. CASE cached \in alive /\ Found(c, cached)
    <3>1. cached = stored /\ cached # NoChannel
      BY <1>2, <1>4, <2>1, <2>3
    <3>2. CASE o.kind = "event"
      BY <1>1, <1>4, <2>1, <2>2, <2>3, <3>1, <3>2, FoundGoes, CleanFor
         DEF Due, Copy, Follows, Shown, Lacking
    <3>3. CASE o.kind # "event"
      <4>1. Goes(c, IF o.kind = "grant" THEN "roles" ELSE "self", stored)
        BY <2>3, <3>1, <3>3, FoundGoes
      <4>2. Ready(work[c])'
        BY <1>2, <2>1, <2>2, <3>3, <4>1 DEF Ready, Route, Copy, Due, Goes, Shown, Lacking, Operations
      <4>3. (work'[c]).pc # "idle"
        BY <4>1 DEF Goes
      <4> QED BY <1>1, <2>1, <3>1, <4>2, <4>3, CleanFor DEF NoWork
    <3> QED BY <3>2, <3>3
  <2>4. ASSUME NEW pc \in {"drop", "stored"}, Goto(c, pc), pc = "stored" => cached = NoChannel PROVE Clean'
    <3>1. Goes(c, pc, o.target)
      BY <2>4, GotoGoes
    <3>2. Ready(work[c])'
      BY <2>1, <2>2, <2>4, <3>1 DEF Ready, Route, Copy, Due, Goes, Shown, Lacking
    <3>3. (work'[c]).pc # "idle"
      BY <3>1 DEF Goes
    <3> QED BY <1>1, <1>4, <2>1, <3>2, <3>3, CleanFor DEF NoWork
  <2> QED BY <1>6, <2>3, <2>4 DEF Cache
<1>7. CASE DropCached(c) \/ Purge(c)
  <2>1. o.pc \in {"drop", "purge"} /\ cached' = NoChannel /\ UNCHANGED <<alive, policy, everyone, views>>
    BY <1>3, <1>7 DEF DropCached, Purge, Ready, Route
  <2>2. Route(o) /\ Copy(o) /\ Due(o)
    BY <1>3, <2>1 DEF Ready
  <2>3. PICK pc \in {"purge", "stored"} : Goes(c, pc, o.target)
    BY <1>7, GotoGoes DEF DropCached, Purge
  <2>4. stored' = stored \/ stored' = NoChannel
    BY <1>7 DEF DropCached, Purge
  <2>5. Due(work[c])'
    BY <1>2, <2>1, <2>2, <2>3, <2>4 DEF Due, Goes, Shown, Lacking
  <2>6. Route(work[c])' /\ Copy(work[c])'
    BY <2>1, <2>2, <2>3 DEF Route, Copy, Goes
  <2>7. (work'[c]).pc # "idle"
    BY <2>3 DEF Goes
  <2> QED BY <1>1, <2>1, <2>5, <2>6, <2>7, CleanFor DEF Ready, NoWork
<1>8. CASE Forget(c)
  <2>1. cached = NoChannel /\ cached' = NoChannel /\ stored' = NoChannel /\ alive' = alive /\ work'[c] = NoWork
    BY <1>3, <1>8, EndEnds DEF Forget, Ready, Route
  <2> QED BY <1>1, <1>2, <2>1, CleanFor DEF Follows
<1>9. CASE Stored(c)
  <2>1. o.pc = "stored" /\ UNCHANGED <<cached, stored, alive, policy, everyone, views>>
    BY <1>9 DEF Stored
  <2>2. Route(o) /\ Copy(o) /\ Due(o) /\ cached = NoChannel
    BY <1>3, <2>1 DEF Ready, Route
  <2>3. ASSUME NEW pc \in {"fill", "forget"}, NEW ch, Goes(c, pc, ch), pc = "fill" => ch = stored PROVE Clean'
    <3>1. Ready(work[c])'
      BY <2>1, <2>2, <2>3 DEF Ready, Route, Copy, Due, Goes, Shown, Lacking
    <3>2. (work'[c]).pc # "idle"
      BY <2>3 DEF Goes
    <3> QED BY <1>1, <2>1, <2>2, <3>1, <3>2, CleanFor DEF NoWork
  <2>4. CASE stored \in alive /\ work' = [work EXCEPT ![c].target = stored, ![c].pc = "fill"]
    BY <2>3, <2>4, StoredGoes
  <2>5. CASE Goto(c, "forget")
    BY <2>3, <2>5, GotoGoes
  <2>6. CASE stored = NoChannel /\ Found(c, NoChannel)
    BY <1>1, <1>2, <2>1, <2>2, <2>6, FoundGoes, CleanFor DEF Follows
  <2> QED BY <1>9, <2>4, <2>5, <2>6 DEF Stored
<1>10. CASE Fill(c)
  <2>1. /\ o.pc = "fill" /\ cached' = o.target /\ Found(c, o.target)
        /\ UNCHANGED <<stored, alive, policy, everyone, views>>
    BY <1>10 DEF Fill, Kept
  <2>2. Route(o) /\ Copy(o) /\ Due(o) /\ o.target = stored
    BY <1>3, <2>1 DEF Ready, Route
  <2>3. CASE stored = NoChannel \/ o.kind = "event"
    BY <1>1, <1>2, <2>1, <2>2, <2>3, FoundGoes, CleanFor DEF Due, Copy, Follows, Shown, Lacking
  <2>4. CASE ~(stored = NoChannel \/ o.kind = "event")
    <3>1. Goes(c, IF o.kind = "grant" THEN "roles" ELSE "self", stored)
      BY <2>1, <2>2, <2>4, FoundGoes
    <3>2. Ready(work[c])'
      BY <1>2, <2>1, <2>2, <2>4, <3>1 DEF Ready, Route, Copy, Due, Goes, Shown, Lacking, Operations
    <3>3. (work'[c]).pc # "idle"
      BY <3>1 DEF Goes
    <3> QED BY <1>1, <2>1, <2>2, <3>2, <3>3, CleanFor DEF NoWork
  <2> QED BY <2>3, <2>4
<1>11. CASE Reroute(c)
  <2>1. o.pc = "upsert" /\ stored' = o.target /\ Goes(c, "recache", o.target)
        /\ UNCHANGED <<cached, alive, policy, everyone, views>>
    BY <1>11, GotoGoes DEF Reroute
  <2>2. Route(o) /\ Copy(o) /\ o.kind = "route"
    BY <1>3, <2>1 DEF Ready, Route
  <2>3. Ready(work[c])'
    BY <2>1, <2>2 DEF Ready, Route, Copy, Due, Goes
  <2>4. (work'[c]).pc = "recache"
    BY <2>1 DEF Goes
  <2> QED BY <1>1, <2>3, <2>4, CleanFor DEF NoWork
<1>12. CASE Recache(c)
  <2>1. o.pc = "recache" /\ cached' = o.target /\ Goes(c, "self", o.target)
        /\ UNCHANGED <<stored, alive, policy, everyone, views>>
    BY <1>12, GotoGoes DEF Recache, Kept
  <2>2. Route(o) /\ Copy(o) /\ o.kind = "route" /\ o.target = stored
    BY <1>3, <2>1 DEF Ready, Route
  <2>3. Ready(work[c])'
    BY <2>1, <2>2 DEF Ready, Route, Copy, Due, Goes
  <2>4. (work'[c]).pc = "self"
    BY <2>1 DEF Goes
  <2> QED BY <1>1, <2>1, <2>2, <2>3, <2>4, CleanFor DEF NoWork
<1>13. CASE Admit(c)
  <2>1. o.pc = "self" /\ Goes(c, "everyone", o.target)
        /\ UNCHANGED <<cached, stored, alive, policy, everyone, views>>
    BY <1>13, GotoGoes DEF Admit
  <2>2. Route(o) /\ Copy(o) /\ o.kind \in {"visibility", "reset", "route"}
    BY <1>2, <1>3, <2>1 DEF Ready, Route, Operations
  <2>3. Ready(work[c])'
    BY <2>1, <2>2 DEF Ready, Route, Copy, Due, Goes
  <2>4. (work'[c]).pc = "everyone"
    BY <2>1 DEF Goes
  <2> QED BY <1>1, <1>4, <2>1, <2>3, <2>4, CleanFor DEF NoWork
<1>14. CASE Everyone(c)
  <2>1. o.pc = "everyone" /\ UNCHANGED <<cached, stored, alive, policy, views>>
    BY <1>14 DEF Everyone
  <2>2. /\ Route(o) /\ Copy(o) /\ o.target = stored /\ o.policy = policy
        /\ o.kind \in {"visibility", "reset", "route"}
    BY <1>2, <1>3, <2>1 DEF Ready, Route, Operations
  <2>3. stored \in alive => Shown(stored)'
    BY <1>2, <1>14, <2>1, <2>2 DEF Everyone, Shown, Visibility, IsPublic, Typed, LogsTypeOK
  <2>4. CASE o.kind = "reset" \/ (o.kind = "visibility" /\ IsPublic(c))
    <3>1. work'[c] = NoWork
      BY <1>14, <2>4, EndEnds DEF Everyone
    <3>2. Lacking(stored, {})
      BY <2>2, <2>4 DEF Copy, Lacking, IsPublic
    <3> QED BY <1>1, <1>4, <2>1, <2>3, <3>1, <3>2, CleanFor DEF Follows, Lacking
  <2>5. CASE ~(o.kind = "reset" \/ (o.kind = "visibility" /\ IsPublic(c)))
    <3>1. Goes(c, "roles", o.target)
      BY <1>14, <2>5, GotoGoes DEF Everyone
    <3>2. Ready(work[c])'
      BY <2>1, <2>2, <2>3, <2>5, <3>1 DEF Ready, Route, Copy, Due, Goes, Shown
    <3>3. (work'[c]).pc = "roles"
      BY <3>1 DEF Goes
    <3> QED BY <1>1, <1>4, <2>1, <3>2, <3>3, CleanFor DEF NoWork
  <2> QED BY <2>4, <2>5
<1>15. CASE Grant(c)
  <2>1. o.pc = "roles" /\ work'[c] = NoWork /\ UNCHANGED <<cached, stored, alive, policy, everyone>>
    BY <1>15, EndEnds DEF Grant
  <2>2. /\ Copy(o) /\ Due(o) /\ o.target = stored /\ o.policy = policy
        /\ o.kind \in {"visibility", "route", "grant"}
    BY <1>2, <1>3, <2>1 DEF Ready, Route, Operations
  <2>3. stored \in alive => Shown(stored) /\ Lacking(stored, o.grants)
    BY <2>1, <2>2 DEF Copy, Due, Lacking
  <2>4. stored \in alive => views'[stored] = views[stored] \cup o.grants
    BY <1>2, <1>15, <2>2 DEF Grant, Grants, Typed, LogsTypeOK
  <2> QED BY <1>1, <1>4, <2>1, <2>3, <2>4, CleanFor DEF Follows, Shown, Lacking
<1>16. ~Refused(c) /\ ~LostWrite(c)
  BY DEF Refused, LostWrite, Fault
<1> QED BY <1>5, <1>6, <1>7, <1>8, <1>9, <1>10, <1>11, <1>12, <1>13, <1>14, <1>15, <1>16 DEF Continue

\* An operation begins when nothing is under way and the platform is right.
LEMMA CleanOperate ==
  ASSUME Typed, Clean, Still, NEW c \in Tasks, Operate(c)
  PROVE  Clean'
<1> USE DEF route, platform
<1>1. UNCHANGED <<cached, stored, alive, policy, everyone, views>>
  BY DEF Operate, set_visibility, reapply_default_policy, grant_role_view_access, set_channel, log_event,
         Begin
<1>2. \A d \in Tasks \ {c} : work'[d] = NoWork
  BY Begins DEF Still
<1>3. Follows /\ (cached # NoChannel => cached = stored)
  BY DEF Clean, Agree, Still, At, NoWork
<1>4. ASSUME NEW kind \in {"visibility", "reset", "grant", "event", "route"}, NEW pc \in {"persist", "cache", "upsert"},
             NEW read, NEW grants, NEW target, Begin(c, kind, pc, read, grants, target)
      PROVE  /\ (work'[c]).kind = kind /\ (work'[c]).pc = pc /\ (work'[c]).policy = read
             /\ (work'[c]).grants = grants /\ (work'[c]).target = target
  BY <1>4 DEF Begin, Typed
<1>5. Ready(work[c])' /\ (work'[c]).pc # "idle"
  <2> DEFINE n == work'[c]
  <2>1. CASE set_visibility(c)
    <3>1. PICK v \in {"admin_only", "public"} :
            Begin(c, "visibility", "persist", [policy EXCEPT !.default = v], policy.roles, NoChannel)
      BY <2>1 DEF set_visibility
    <3>2. [policy EXCEPT !.default = v].roles = policy.roles
      BY DEF Typed, LogsTypeOK, Policies
    <3>3. n.kind = "visibility" /\ n.pc = "persist" /\ n.policy.roles = n.grants
      BY <1>4, <3>1, <3>2
    <3> QED BY <3>3 DEF Ready, Route, Copy, Due
  <2>2. CASE reapply_default_policy(c)
    <3>1. Begin(c, "reset", "persist", default_policy, {}, NoChannel)
      BY <2>2 DEF reapply_default_policy
    <3>2. n.kind = "reset" /\ n.pc = "persist" /\ n.policy = default_policy
      BY <1>4, <3>1
    <3>3. n.policy.roles = {}
      BY <3>2 DEF default_policy
    <3> QED BY <3>2, <3>3 DEF Ready, Route, Copy, Due
  <2>3. CASE grant_role_view_access(c)
    <3>1. PICK r \in Roles :
            Begin(c, "grant", "persist", [policy EXCEPT !.roles = @ \cup {r}], {r}, NoChannel)
      BY <2>3 DEF grant_role_view_access
    <3>2. /\ [policy EXCEPT !.roles = @ \cup {r}].roles = policy.roles \cup {r}
          /\ [policy EXCEPT !.roles = @ \cup {r}].default = policy.default
      BY DEF Typed, LogsTypeOK, Policies
    <3>3. /\ n.kind = "grant" /\ n.pc = "persist" /\ n.grants = {r}
          /\ n.policy.roles = policy.roles \cup {r} /\ n.policy.default = policy.default
      BY <1>4, <3>1, <3>2
    <3> QED BY <1>1, <1>3, <3>3 DEF Ready, Route, Copy, Due, Follows, Shown, Lacking
  <2>4. CASE set_channel(c)
    <3>1. PICK ch \in alive : Begin(c, "route", "upsert", policy, policy.roles, ch)
      BY <2>4 DEF set_channel
    <3>2. n.kind = "route" /\ n.pc = "upsert" /\ n.policy.roles = n.grants
      BY <1>4, <3>1
    <3> QED BY <3>2 DEF Ready, Route, Copy, Due
  <2>5. CASE log_event(c)
    <3>1. Begin(c, "event", "cache", policy, {}, NoChannel)
      BY <2>5 DEF log_event
    <3>2. n.kind = "event" /\ n.pc = "cache" /\ n.grants = {}
      BY <1>4, <3>1
    <3> QED BY <1>1, <1>3, <3>2 DEF Ready, Route, Copy, Due, Follows, Shown, Lacking
  <2> QED BY <2>1, <2>2, <2>3, <2>4, <2>5 DEF Operate
<1> QED BY <1>1, <1>2, <1>3, <1>5, CleanFor DEF NoWork

LEMMA CleanStep == TurnsInv /\ CleanInv /\ [LogsNext]_logsVars => CleanInv'
<1> SUFFICES ASSUME TurnsInv, CleanInv, [LogsNext]_logsVars PROVE CleanInv'
  OBVIOUS
<1>t. Typed
  BY DEF TurnsInv
<1>1. faults' \in Nat /\ (faults' = 0 => faults' = faults)
  <2>1. faults' = faults \/ faults' = faults + 1
    BY DEF LogsNext, Operate, set_visibility, reapply_default_policy, grant_role_view_access, set_channel,
           log_event, Begin, Continue, Persist, Cache, DropCached, Purge, Forget, Stored, Fill, Reroute,
           Recache, Admit, Everyone, Grant, Refused, LostWrite, Fault, Delete, ProcessRestarts, Expire, logsVars
  <2> QED BY <2>1 DEF CleanInv
<1> SUFFICES ASSUME ~overlapped', faults' = 0 PROVE Clean'
  BY <1>1 DEF CleanInv
<1>2. ASSUME NEW c \in Tasks, Operate(c) PROVE Clean'
  <2>1. Still /\ ~overlapped
    BY <1>t, <1>2, Begins
  <2> QED BY <1>t, <1>1, <1>2, <2>1, CleanOperate DEF CleanInv
<1>3. ASSUME NEW c \in Tasks, Continue(c) PROVE Clean'
  <2>1. overlapped' = overlapped
    BY <1>3 DEF Continue, Persist, Cache, DropCached, Purge, Forget, Stored, Fill, Reroute, Recache,
                Admit, Everyone, Grant, Refused, LostWrite
  <2>2. Turns /\ Clean /\ faults' = faults /\ faults = 0
    BY <1>1, <2>1 DEF TurnsInv, CleanInv
  <2> QED BY <1>t, <1>3, <2>2, CleanContinue
<1>4. ASSUME NEW ch \in Channels, Delete(ch) PROVE Clean'
  <2>1. Clean /\ alive' \subseteq alive /\ UNCHANGED <<cached, stored, policy, everyone, views, work>>
    BY <1>1, <1>4 DEF Delete, CleanInv, route, platform
  <2>2. Agree' /\ (Still => Follows)'
    BY <2>1 DEF Clean, Agree, At, Still, Follows, Shown, Lacking
  <2>3. ASSUME NEW c \in Tasks, work[c] # NoWork PROVE Ready(work[c])'
    BY <2>1, <2>3 DEF Clean, Ready, Route, Copy, Due, Shown, Lacking
  <2> QED BY <2>1, <2>2, <2>3 DEF Clean
<1>5. CASE ProcessRestarts
  BY <1>1, <1>5 DEF ProcessRestarts, Fault, CleanInv
<1>6. CASE Expire \/ UNCHANGED logsVars
  <2>1. /\ Clean /\ (cached' = cached \/ cached' = NoChannel)
        /\ UNCHANGED <<stored, alive, policy, everyone, views, work>>
    BY <1>1, <1>6 DEF Expire, logsVars, CleanInv, platform
  <2>2. Agree' /\ (Still => Follows)'
    BY <2>1 DEF Clean, Agree, At, Still, Follows, Shown, Lacking
  <2>3. ASSUME NEW c \in Tasks, work[c] # NoWork PROVE Ready(work[c])'
    BY <2>1, <2>3 DEF Clean, Ready, Route, Copy, Due, Shown, Lacking
  <2> QED BY <2>1, <2>2, <2>3 DEF Clean
<1> QED BY <1>2, <1>3, <1>4, <1>5, <1>6 DEF LogsNext

\* As long as operations take turns and none fails, the routed channel shows
\* what the policy on record says once nothing is under way, whichever
\* channels are deleted and cached routes expire meanwhile.
THEOREM TurnsFollowPolicy == LogsSpec => []PolicyFollows
<1>1. LogsInit => TurnsInv /\ CleanInv
  <2> SUFFICES ASSUME LogsInit PROVE TurnsInv /\ CleanInv
    OBVIOUS
  <2>1. TurnsInv
    BY TypedInit DEF LogsInit, TurnsInv, Turns, NoWork
  <2>2. Clean
    BY LogsAssumption DEF LogsInit, Clean, Agree, Follows
  <2> QED BY <2>1, <2>2 DEF CleanInv, LogsInit
<1>2. CleanInv => PolicyFollows
  BY DEF CleanInv, Clean, Follows, Shown, Lacking, PolicyFollows
<1> QED BY <1>1, <1>2, TurnsStep, CleanStep, PTL DEF LogsSpec

-----------------------------------------------------------------------------
(* The record is dropped only for a channel that is gone.                   *)

\* An operation about to drop the record has seen that its channel is gone;
\* one about to replace it has a channel.
Grounds ==
  \A c \in Tasks :
    /\ work[c].pc \in {"drop", "purge", "forget"} => stored \notin alive
    /\ work[c].pc = "upsert" => Target(c) # NoChannel
RouteInv == ~overlapped /\ faults = 0 => Grounds

\* A step of an operation has the grounds that the next one needs.
LEMMA RouteContinue ==
  ASSUME Typed, Turns, Clean, Grounds, NEW c \in Tasks, Continue(c), faults' = faults
  PROVE  Grounds'
<1> DEFINE o == work[c]
           n == work'[c]
           Fine == /\ n.pc \in {"drop", "purge", "forget"} => stored' \notin alive'
                   /\ n.pc = "upsert" => n.target # NoChannel
<1>1. \A d \in Tasks \ {c} : work'[d] = NoWork /\ work[d] = NoWork
  <2>1. o # NoWork
    BY DEF Continue, Persist, Cache, DropCached, Purge, Forget, Stored, Fill, Reroute, Recache,
           Admit, Everyone, Grant, Refused, LostWrite, Fault, At, NoWork
  <2> QED BY <2>1, Moves DEF Turns, Moved
<1>2. SUFFICES Fine
  BY <1>1 DEF Grounds, NoWork, Target
<1>3. ASSUME NEW pc, NEW t, Goes(c, pc, t), pc \notin {"drop", "purge", "forget", "upsert"}
      PROVE  Fine
  BY <1>3 DEF Goes
<1>4. ASSUME n = NoWork PROVE Fine
  BY <1>4 DEF NoWork
<1>5. ASSUME NEW ch, Found(c, ch) PROVE Fine
  BY <1>3, <1>4, <1>5, FoundGoes
<1> HIDE DEF Fine
<1> USE DEF At, route
<1>6. CASE Persist(c) \/ Purge(c) \/ Reroute(c) \/ Recache(c) \/ Admit(c)
  BY <1>3, <1>6, GotoGoes DEF Persist, Purge, Reroute, Recache, Admit
<1>7. CASE Forget(c) \/ Grant(c) \/ Refused(c)
  BY <1>4, <1>7, EndEnds DEF Forget, Grant, Refused
<1>8. CASE Fill(c)
  BY <1>5, <1>8 DEF Fill
<1>9. CASE LostWrite(c)
  BY <1>3, <1>5, <1>9, GotoGoes DEF LostWrite
<1>10. CASE Everyone(c)
  BY <1>3, <1>4, <1>10, GotoGoes, EndEnds DEF Everyone
<1>11. CASE Cache(c)
  <2>1. CASE Found(c, cached)
    BY <1>5, <2>1
  <2>2. CASE cached \notin alive \cup {NoChannel} /\ Goto(c, "drop")
    <3>1. o.pc = "cache" /\ stored' = stored /\ alive' = alive
      BY <1>11 DEF Cache
    <3>2. cached = stored
      BY <1>1, <2>2, <3>1 DEF Clean, Agree, NoWork
    <3>3. n.pc = "drop"
      BY <2>2, GotoGoes DEF Goes
    <3> QED BY <2>2, <3>1, <3>2, <3>3 DEF Fine
  <2>3. CASE Goto(c, "stored")
    BY <1>3, <2>3, GotoGoes
  <2> QED BY <1>11, <2>1, <2>2, <2>3 DEF Cache
<1>12. CASE DropCached(c)
  <2>1. o.pc = "drop" /\ stored' = stored /\ alive' = alive /\ Goto(c, "purge")
    BY <1>12 DEF DropCached
  <2>2. n.pc = "purge" /\ stored \notin alive
    BY <2>1, GotoGoes DEF Goes, Grounds
  <2> QED BY <2>1, <2>2 DEF Fine
<1>13. CASE Stored(c)
  <2>1. stored' = stored /\ alive' = alive
    BY <1>13 DEF Stored
  <2>2. CASE work' = [work EXCEPT ![c].target = stored, ![c].pc = "fill"]
    BY <1>3, <2>2, StoredGoes
  <2>3. CASE stored \notin alive \cup {NoChannel} /\ Goto(c, "forget")
    <3>1. n.pc = "forget"
      BY <2>3, GotoGoes DEF Goes
    <3> QED BY <2>1, <2>3, <3>1 DEF Fine
  <2>4. CASE Found(c, NoChannel)
    BY <1>5, <2>4
  <2> QED BY <1>13, <2>2, <2>3, <2>4 DEF Stored
<1> QED BY <1>6, <1>7, <1>8, <1>9, <1>10, <1>11, <1>12, <1>13 DEF Continue

LEMMA RouteStep == TurnsInv /\ CleanInv /\ RouteInv /\ [LogsNext]_logsVars => RouteInv'
<1> SUFFICES ASSUME TurnsInv, CleanInv, RouteInv, [LogsNext]_logsVars, ~overlapped', faults' = 0 PROVE Grounds'
  BY DEF RouteInv
<1>t. Typed
  BY DEF TurnsInv
<1>1. ASSUME NEW c \in Tasks, Operate(c) PROVE Grounds'
  <2>1. Still /\ \A d \in Tasks \ {c} : work'[d] = NoWork
    BY <1>t, <1>1, Begins DEF Still
  <2>2. work'[c].pc \in {"persist", "cache", "upsert"}
    BY <1>t, <1>1, Begins
  <2>3. work'[c].pc = "upsert" => work'[c].target # NoChannel
    BY <1>t, <1>1, LogsAssumption
       DEF Operate, set_visibility, reapply_default_policy, grant_role_view_access, set_channel,
           log_event, Begin, Typed, LogsTypeOK
  <2> QED BY <2>1, <2>2, <2>3 DEF Grounds, Target, NoWork
<1>2. ASSUME NEW c \in Tasks, Continue(c) PROVE Grounds'
  <2>1. overlapped' = overlapped /\ (faults' = faults \/ faults' = faults + 1)
    BY <1>2 DEF Continue, Persist, Cache, DropCached, Purge, Forget, Stored, Fill, Reroute, Recache,
                Admit, Everyone, Grant, Refused, LostWrite, Fault
  <2>2. faults' = faults /\ faults = 0 /\ Turns /\ Clean /\ Grounds
    BY <2>1 DEF TurnsInv, CleanInv, RouteInv
  <2> QED BY <1>t, <1>2, <2>2, RouteContinue
<1>3. CASE (\E ch \in Channels : Delete(ch)) \/ Expire \/ UNCHANGED logsVars
  <2>1. /\ stored' = stored /\ work' = work /\ overlapped' = overlapped /\ faults' = faults
        /\ alive' \subseteq alive
    BY <1>3 DEF Delete, Expire, logsVars, route
  <2> QED BY <2>1 DEF RouteInv, Grounds, Target
<1>4. CASE ProcessRestarts
  BY <1>4 DEF ProcessRestarts, Grounds, NoWork
<1> QED BY <1>1, <1>2, <1>3, <1>4 DEF LogsNext

\* As long as operations take turns and none fails, the record of a channel
\* that exists is only replaced, never dropped: what an operation read of the
\* route before still holds when it acts on it.
THEOREM TurnsKeepRoute == LogsSpec => RouteKept
<1> DEFINE Replaced == (~overlapped' /\ faults = 0 /\ stored \in alive /\ stored' # stored) => stored' # NoChannel
<1>1. LogsInit => TurnsInv /\ CleanInv /\ RouteInv
  <2> SUFFICES ASSUME LogsInit PROVE TurnsInv /\ CleanInv /\ RouteInv
    OBVIOUS
  <2>1. TurnsInv
    BY TypedInit DEF LogsInit, TurnsInv, Turns, NoWork
  <2>2. Clean
    BY LogsAssumption DEF LogsInit, Clean, Agree, Follows
  <2> QED BY <2>1, <2>2 DEF CleanInv, RouteInv, Grounds, LogsInit, NoWork
<1>2. ASSUME TurnsInv, RouteInv, [LogsNext]_logsVars PROVE Replaced
  <2> SUFFICES ASSUME ~overlapped', faults = 0, stored \in alive, stored' # stored PROVE stored' # NoChannel
    OBVIOUS
  <2>1. PICK c \in Tasks : Purge(c) \/ Forget(c) \/ Reroute(c)
    BY <1>2 DEF LogsNext, Operate, set_visibility, reapply_default_policy, grant_role_view_access,
       set_channel, log_event, Begin, Continue, Persist, Cache, DropCached, Stored, Fill, Recache,
       Admit, Everyone, Grant, Refused, LostWrite, ProcessRestarts, Delete, Expire, logsVars, route
  <2>2. ~overlapped
    BY <2>1 DEF Purge, Forget, Reroute
  <2> QED BY <1>2, <2>1, <2>2 DEF RouteInv, Grounds, Purge, Forget, Reroute, At, Target
<1>3. TurnsInv /\ RouteInv /\ [LogsNext]_logsVars => [Replaced]_logsVars
  BY <1>2
<1> QED BY <1>1, <1>3, TurnsStep, CleanStep, RouteStep, PTL DEF LogsSpec, RouteKept
=============================================================================
