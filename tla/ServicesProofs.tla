--------------------------- MODULE ServicesProofs ---------------------------
(***************************************************************************)
(* Theorems about the three components that MCServices checks together:    *)
(* the sync of the enrollments, the live feed and the managed channels,    *)
(* for every set of profiles, users, matches, channels and callers and     *)
(* every number of faults.                                                 *)
(***************************************************************************)
EXTENDS EnrollmentSync, LiveFeed, ManagedChannel, FiniteSetTheorems, TLAPS

-----------------------------------------------------------------------------
(* The sync of the enrollments: maps from profiles to users.                *)

\* A function on some of the profiles is one of the maps the loop sends.
LEMMA MapIntro ==
  ASSUME NEW S \in SUBSET Profiles, NEW f \in [S -> Users]
  PROVE  f \in Maps
BY DEF Maps

\* A map names profiles only.
LEMMA MapDomain ==
  ASSUME NEW f \in Maps
  PROVE  DOMAIN f \in SUBSET Profiles
<1>1. PICK S \in SUBSET Profiles : f \in [S -> Users]
  BY DEF Maps
<1> QED BY <1>1

\* The empty map, which every process starts with.
LEMMA EmptyMap == Empty \in Maps /\ DOMAIN Empty = {}
<1>1. Empty \in [{} -> Users] /\ {} \in SUBSET Profiles
  BY DEF Empty
<1> QED BY <1>1, MapIntro DEF Empty

\* What refresh_bindings loads.
LEMMA BindingsMap ==
  ASSUME bound \in [Profiles -> Users \cup {NoUser}]
  PROVE  Bindings \in Maps /\ DOMAIN Bindings = Bound
<1>1. Bound \in SUBSET Profiles /\ Bindings \in [Bound -> Users]
  BY DEF Bound, Bindings
<1> QED BY <1>1, MapIntro DEF Bindings

-----------------------------------------------------------------------------
(* Types.                                                                   *)

\* One step keeps the types.
LEMMA SyncTypeStep == SyncTypeOK /\ [SyncNext]_syncVars => SyncTypeOK'
<1> SUFFICES ASSUME SyncTypeOK, [SyncNext]_syncVars PROVE SyncTypeOK'
  OBVIOUS
<1> USE EmptyMap, BindingsMap, MapDomain DEF SyncTypeOK
<1>1. CASE \E p \in Profiles : Unlink(p)
  BY <1>1 DEF Unlink, Rebind
<1>2. CASE \E p \in Profiles, u \in Users : Bind(p, u)
  BY <1>2 DEF Bind, Rebind
<1>3. CASE Load
  BY <1>3 DEF Load
<1>4. CASE Rest
  BY <1>4 DEF Rest
<1>5. CASE Push
  BY <1>5 DEF Push, Roster
<1>6. CASE Subscribed
  BY <1>6 DEF Subscribed, Pushed, Filter
<1>7. CASE CallFails
  BY <1>7 DEF CallFails, Fault
<1>8. CASE AnswerLost
  BY <1>8 DEF AnswerLost, Fault, Filter
<1>9. CASE CoreRestarts
  BY <1>9 DEF CoreRestarts, Fault
<1>10. CASE GameServiceRestarts
  BY <1>10 DEF GameServiceRestarts, Fault
<1>11. CASE ProviderRestarts
  BY <1>11 DEF ProviderRestarts, Fault
<1>12. CASE SessionCloses \/ SessionOpens
  BY <1>12 DEF SessionCloses, SessionOpens, Fault
<1>13. CASE UNCHANGED syncVars
  BY <1>13 DEF syncVars
<1> QED BY <1>1, <1>2, <1>3, <1>4, <1>5, <1>6, <1>7, <1>8, <1>9, <1>10, <1>11, <1>12, <1>13 DEF SyncNext

\* EnrollmentSync keeps its types: the maps stay maps of profiles to users,
\* the pushed ids a set of profiles.
THEOREM SyncTypeCorrect == SyncSpec => []SyncTypeOK
<1>1. SyncInit => SyncTypeOK
  BY EmptyMap DEF SyncInit, SyncTypeOK
<1> QED BY <1>1, SyncTypeStep, PTL DEF SyncSpec

-----------------------------------------------------------------------------
(* What is taken as pushed is served.                                       *)

\* Without an unlink the lists only grow: what was pushed is in what is known,
\* what is known is bound, and the push under way has reached the roster.
Grows ==
  "unlink" \notin hurt =>
    /\ DOMAIN known \subseteq Bound
    /\ last # None => last \subseteq DOMAIN known
Reached == step = "pushing" => roster = known
SyncInv == SyncTypeOK /\ Grows /\ Reached /\ LastIsServed

\* One step keeps it.
LEMMA SyncInvStep == SyncInv /\ [SyncNext]_syncVars => SyncInv'
<1> SUFFICES ASSUME SyncInv, [SyncNext]_syncVars PROVE SyncInv'
  OBVIOUS
<1>t. SyncTypeOK'
  BY SyncTypeStep DEF SyncInv
<1> SUFFICES (Grows /\ Reached /\ LastIsServed)'
  BY <1>t DEF SyncInv
<1> USE EmptyMap, BindingsMap, MapDomain, <1>t DEF SyncInv, SyncTypeOK, Grows, Reached, LastIsServed, Spared
<1>1. CASE \E p \in Profiles : Unlink(p)
  BY <1>1 DEF Unlink, Rebind
<1>2. CASE \E p \in Profiles, u \in Users : Bind(p, u)
  BY <1>2 DEF Bind, Rebind, Bound
<1>3. CASE Load
  BY <1>3 DEF Load, Bound
<1>4. CASE Rest
  BY <1>4 DEF Rest, Bound
<1>5. CASE Push
  BY <1>5 DEF Push, Roster, Bound
<1>6. CASE Subscribed
  BY <1>6 DEF Subscribed, Pushed, Filter, Bound
<1>7. CASE CallFails
  BY <1>7 DEF CallFails, Fault, Bound
<1>8. CASE AnswerLost
  BY <1>8 DEF AnswerLost, Fault, Filter, Bound
<1>9. CASE CoreRestarts
  BY <1>9 DEF CoreRestarts, Fault, Bound
<1>10. CASE GameServiceRestarts
  BY <1>10 DEF GameServiceRestarts, Fault, Bound
<1>11. CASE ProviderRestarts
  BY <1>11 DEF ProviderRestarts, Fault, Bound
<1>12. CASE SessionCloses \/ SessionOpens
  BY <1>12 DEF SessionCloses, SessionOpens, Fault, Bound
<1>13. CASE UNCHANGED syncVars
  BY <1>13 DEF syncVars, Bound
<1> QED BY <1>1, <1>2, <1>3, <1>4, <1>5, <1>6, <1>7, <1>8, <1>9, <1>10, <1>11, <1>12, <1>13 DEF SyncNext

\* What svc-core takes as pushed is what the provider filters by and what the
\* game service has in its roster, whatever fails, until one of them restarts or
\* takes a later push without an acknowledgement; without unlinks that push
\* leaves them no less.
THEOREM PushedIsServed == SyncSpec => []LastIsServed
<1>1. SyncInit => SyncInv
  BY EmptyMap DEF SyncInit, SyncInv, SyncTypeOK, Grows, Reached, LastIsServed
<1>2. SyncInv => LastIsServed
  BY DEF SyncInv
<1> QED BY <1>1, <1>2, SyncInvStep, PTL DEF SyncSpec

-----------------------------------------------------------------------------
(* The managed channel: types.                                              *)

PCs == {"idle", "mongo", "forget", "adopt", "create", "persist", "fill", "policy"}

\* A caller that holds a channel holds a channel of the guild.
Holding == \A c \in Callers : pc[c] \in {"persist", "fill", "policy"} => target[c] \in Channels

ChannelTyped == ChannelTypeOK /\ Holding

LEMMA ChannelTypedInit == ChannelInit => ChannelTyped
<1> SUFFICES ASSUME ChannelInit PROVE ChannelTyped OBVIOUS
<1>1. lapped \in BOOLEAN BY DEF ChannelInit
<1> QED BY <1>1, ManagedAssumption DEF ChannelInit, ChannelTyped, ChannelTypeOK, Holding

\* An operation that begins notes whether another one is under way.
LEMMA EnterType == ASSUME NEW c \in Callers, Enter(c) PROVE lapped' \in BOOLEAN
BY DEF Enter

\* Moving one caller on keeps the type of the calls.
LEMMA HoldType ==
  ASSUME ChannelTyped, NEW c \in Callers, NEW ch \in Channels \cup {NoChannel}, NEW next \in PCs, Hold(c, ch, next),
         next \in {"persist", "fill", "policy"} => ch \in Channels
  PROVE  pc' \in [Callers -> PCs] /\ target' \in [Callers -> Channels \cup {NoChannel}] /\ Holding'
BY DEF ChannelTyped, ChannelTypeOK, Holding, Hold, Go, PCs

LEMMA GoType ==
  ASSUME ChannelTyped, NEW c \in Callers, NEW next \in PCs, Go(c, next), target' = target,
         next \in {"persist", "fill", "policy"} => target[c] \in Channels
  PROVE  pc' \in [Callers -> PCs] /\ target' \in [Callers -> Channels \cup {NoChannel}] /\ Holding'
BY DEF ChannelTyped, ChannelTypeOK, Holding, Go, PCs

LEMMA ChannelTypedStep == ChannelTyped /\ [ChannelNext]_channelVars => ChannelTyped'
<1> SUFFICES ASSUME ChannelTyped, [ChannelNext]_channelVars PROVE ChannelTyped' OBVIOUS
<1>t. ChannelTypeOK /\ Holding BY DEF ChannelTyped
<1>1. ASSUME NEW c \in Callers, Cache(c) PROVE ChannelTyped'
  <2>1. cached \in alive => cached \in Channels BY <1>t DEF ChannelTypeOK
  <2>2. pc' \in [Callers -> PCs] /\ target' \in [Callers -> Channels \cup {NoChannel}] /\ Holding'
    BY <1>1, <2>1, HoldType DEF Cache, PCs
  <2> QED BY <1>1, <1>t, <2>2, EnterType DEF Cache, ChannelTyped, ChannelTypeOK, guild, PCs
<1>2. ASSUME NEW c \in Callers, Mongo(c) PROVE ChannelTyped'
  <2>1. stored \in alive => stored \in Channels BY <1>t DEF ChannelTypeOK
  <2>2. pc' \in [Callers -> PCs] /\ target' \in [Callers -> Channels \cup {NoChannel}] /\ Holding'
    BY <1>2, <2>1, HoldType, GoType DEF Mongo, PCs
  <2> QED BY <1>2, <1>t, <2>2 DEF Mongo, ChannelTyped, ChannelTypeOK, guild, PCs
<1>3. ASSUME NEW c \in Callers, Forget(c) PROVE ChannelTyped'
  <2>1. pc' \in [Callers -> PCs] /\ target' \in [Callers -> Channels \cup {NoChannel}] /\ Holding'
    BY <1>3, GoType DEF Forget, PCs
  <2> QED BY <1>3, <1>t, <2>1 DEF Forget, ChannelTyped, ChannelTypeOK, guild, PCs
<1>4. ASSUME NEW c \in Callers, Adopt(c) PROVE ChannelTyped'
  <2>1. Found \subseteq Channels BY <1>t DEF Found, ChannelTypeOK
  <2>2. pc' \in [Callers -> PCs] /\ target' \in [Callers -> Channels \cup {NoChannel}] /\ Holding'
    BY <1>4, <2>1, HoldType, GoType DEF Adopt, PCs
  <2> QED BY <1>4, <1>t, <2>2 DEF Adopt, ChannelTyped, ChannelTypeOK, guild, PCs
<1>5. ASSUME NEW c \in Callers, Create(c) PROVE ChannelTyped'
  <2>1. PICK ch \in fresh : /\ fresh' = fresh \ {ch} /\ alive' = alive \cup {ch} /\ named' = named \cup {ch}
                            /\ Hold(c, ch, "persist")
    BY <1>5 DEF Create
  <2>2. ch \in Channels BY <1>t DEF ChannelTypeOK
  <2>3. pc' \in [Callers -> PCs] /\ target' \in [Callers -> Channels \cup {NoChannel}] /\ Holding'
    BY <2>1, <2>2, HoldType DEF PCs
  <2> QED BY <1>5, <1>t, <2>1, <2>2, <2>3 DEF Create, ChannelTyped, ChannelTypeOK, PCs
<1>6. ASSUME NEW c \in Callers, Route(c) PROVE ChannelTyped'
  <2>1. alive \subseteq Channels BY <1>t DEF ChannelTypeOK
  <2>2. pc' \in [Callers -> PCs] /\ target' \in [Callers -> Channels \cup {NoChannel}] /\ Holding'
    BY <1>6, <2>1, HoldType DEF Route, PCs
  <2> QED BY <1>6, <1>t, <2>2, EnterType DEF Route, ChannelTyped, ChannelTypeOK, guild, PCs
<1>7. ASSUME NEW c \in Callers, Persist(c) PROVE ChannelTyped'
  <2>1. target[c] \in Channels BY <1>7, <1>t DEF Persist, Holding
  <2>2. pc' \in [Callers -> PCs] /\ target' \in [Callers -> Channels \cup {NoChannel}] /\ Holding'
    BY <1>7, <2>1, GoType DEF Persist, PCs
  <2> QED BY <1>7, <1>t, <2>1, <2>2 DEF Persist, Persisted, ChannelTyped, ChannelTypeOK, guild, PCs
<1>8. ASSUME NEW c \in Callers, Fill(c) PROVE ChannelTyped'
  <2>1. target[c] \in Channels BY <1>8, <1>t DEF Fill, Holding
  <2>2. pc' \in [Callers -> PCs] /\ target' \in [Callers -> Channels \cup {NoChannel}] /\ Holding'
    BY <1>8, <2>1, GoType DEF Fill, PCs
  <2> QED BY <1>8, <1>t, <2>1, <2>2 DEF Fill, ChannelTyped, ChannelTypeOK, guild, PCs
<1>9. ASSUME NEW c \in Callers, Policy(c) PROVE ChannelTyped'
  <2>1. pc' \in [Callers -> PCs] /\ target' \in [Callers -> Channels \cup {NoChannel}] /\ Holding'
    BY <1>9, GoType DEF Policy, PCs
  <2> QED BY <1>9, <1>t, <2>1 DEF Policy, ChannelTyped, ChannelTypeOK, guild, PCs
<1>10. ASSUME NEW c \in Callers, LostWrite(c) PROVE ChannelTyped'
  <2>1. target[c] \in Channels BY <1>10, <1>t DEF LostWrite, Holding
  <2>2. pc' \in [Callers -> PCs] /\ target' \in [Callers -> Channels \cup {NoChannel}] /\ Holding'
    BY <1>10, <2>1, GoType DEF LostWrite, PCs
  <2> QED BY <1>10, <1>t, <2>2 DEF LostWrite, ChannelTyped, ChannelTypeOK, guild, PCs
<1>11. CASE Restart BY <1>11, <1>t DEF Restart, ChannelTyped, ChannelTypeOK, Holding, guild
<1>12. CASE Expire BY <1>12, <1>t DEF Expire, ChannelTyped, ChannelTypeOK, Holding, guild, calls
<1>13. ASSUME NEW ch \in Channels, Delete(ch) PROVE ChannelTyped'
  BY <1>13, <1>t DEF Delete, ChannelTyped, ChannelTypeOK, Holding, calls
<1>14. ASSUME NEW ch \in Channels, Rename(ch) PROVE ChannelTyped'
  BY <1>14, <1>t DEF Rename, ChannelTyped, ChannelTypeOK, Holding, calls
<1>15. CASE UNCHANGED channelVars BY <1>15, <1>t DEF channelVars, ChannelTyped, ChannelTypeOK, Holding
<1> QED
  BY <1>1, <1>2, <1>3, <1>4, <1>5, <1>6, <1>7, <1>8, <1>9, <1>10, <1>11, <1>12, <1>13, <1>14, <1>15
  DEF ChannelNext, Continue

\* Type correctness, for every set of channels and callers.
THEOREM ChannelTypeCorrect == ChannelSpec => []ChannelTypeOK
<1>1. ChannelTyped => ChannelTypeOK BY DEF ChannelTyped
<1> QED BY <1>1, ChannelTypedInit, ChannelTypedStep, PTL DEF ChannelSpec

-----------------------------------------------------------------------------
(* One channel of the name when operations take turns.                      *)

\* A caller that is about to create has seen that there is no channel of the
\* name, and nobody else is under way.
Careful ==
  /\ \A c \in Callers : pc[c] = "create" => named = {}
  /\ \A c, d \in Callers : pc[c] # "idle" /\ pc[d] # "idle" => c = d
  /\ named \subseteq alive

TurnsInv == ChannelTyped /\ Single /\ Careful

LEMMA TurnsInit == ChannelInit => TurnsInv
BY ChannelTypedInit DEF ChannelInit, TurnsInv, Single, Careful

\* A step of one caller that leaves the named channels alone.
LEMMA CallerMoves ==
  ASSUME TurnsInv, NEW c \in Callers, NEW next \in PCs, Go(c, next), UNCHANGED guild,
         pc[c] # "idle" \/ Quiet,
         next = "create" => named = {}
  PROVE  Single' /\ Careful'
BY DEF TurnsInv, Single, Careful, ChannelTyped, ChannelTypeOK, Go, guild, Quiet, PCs

LEMMA TurnsStep == ~lapped' /\ TurnsInv /\ [ChannelNext]_channelVars => TurnsInv'
<1> SUFFICES ASSUME ~lapped', TurnsInv, [ChannelNext]_channelVars PROVE TurnsInv' OBVIOUS
<1>t. ChannelTyped' BY ChannelTypedStep DEF TurnsInv
<1> USE DEF PCs
<1>1. ASSUME NEW c \in Callers, Cache(c) PROVE TurnsInv'
  BY <1>1, <1>t, CallerMoves DEF Cache, Enter, Hold, TurnsInv
<1>2. ASSUME NEW c \in Callers, Mongo(c) PROVE TurnsInv'
  BY <1>2, <1>t, CallerMoves DEF Mongo, Hold, TurnsInv
<1>3. ASSUME NEW c \in Callers, Forget(c) PROVE TurnsInv'
  BY <1>3, <1>t, CallerMoves DEF Forget, TurnsInv
<1>4. ASSUME NEW c \in Callers, Adopt(c) PROVE TurnsInv'
  <2>1. Found = {} => named = {} BY DEF Found, TurnsInv, Careful
  <2> QED BY <1>4, <1>t, <2>1, CallerMoves DEF Adopt, Hold, TurnsInv
<1>5. ASSUME NEW c \in Callers, Create(c) PROVE TurnsInv'
  <2>1. PICK ch \in fresh : /\ alive' = alive \cup {ch} /\ named' = named \cup {ch}
                            /\ Hold(c, ch, "persist")
    BY <1>5 DEF Create
  <2>2. named = {} /\ pc[c] = "create" BY <1>5 DEF Create, TurnsInv, Careful
  <2>3. pc' = [pc EXCEPT ![c] = "persist"] BY <2>1 DEF Hold, Go
  <2>4. Single' BY <2>1, <2>2 DEF Single
  <2>5. \A d \in Callers : d # c => pc[d] = "idle" BY <2>2 DEF TurnsInv, Careful
  <2>6. Careful' BY <2>1, <2>2, <2>3, <2>5 DEF Careful, TurnsInv, ChannelTyped, ChannelTypeOK
  <2> QED BY <1>t, <2>4, <2>6 DEF TurnsInv
<1>6. ASSUME NEW c \in Callers, Route(c) PROVE TurnsInv'
  BY <1>6, <1>t, CallerMoves DEF Route, Enter, Hold, TurnsInv
<1>7. ASSUME NEW c \in Callers, Persist(c) PROVE TurnsInv'
  BY <1>7, <1>t, CallerMoves DEF Persist, TurnsInv
<1>8. ASSUME NEW c \in Callers, Fill(c) PROVE TurnsInv'
  BY <1>8, <1>t, CallerMoves DEF Fill, TurnsInv
<1>9. ASSUME NEW c \in Callers, Policy(c) PROVE TurnsInv'
  BY <1>9, <1>t, CallerMoves DEF Policy, TurnsInv
<1>10. ASSUME NEW c \in Callers, LostWrite(c) PROVE TurnsInv'
  BY <1>10, <1>t, CallerMoves DEF LostWrite, TurnsInv
<1>11. CASE Restart BY <1>11, <1>t DEF Restart, TurnsInv, Single, Careful, guild
<1>12. CASE Expire BY <1>12, <1>t DEF Expire, TurnsInv, Single, Careful, guild, calls
<1>13. ASSUME NEW ch \in Channels, Delete(ch) PROVE TurnsInv'
  BY <1>13, <1>t DEF Delete, TurnsInv, Single, Careful, calls
<1>14. ASSUME NEW ch \in Channels, Rename(ch) PROVE TurnsInv'
  BY <1>14, <1>t DEF Rename, TurnsInv, Single, Careful, calls
<1>15. CASE UNCHANGED channelVars BY <1>15, <1>t DEF channelVars, TurnsInv, Single, Careful
<1> QED
  BY <1>1, <1>2, <1>3, <1>4, <1>5, <1>6, <1>7, <1>8, <1>9, <1>10, <1>11, <1>12, <1>13, <1>14, <1>15
  DEF ChannelNext, Continue

\* While operations take turns there is never a second channel of the name,
\* whatever restarts, lost cache writes, deletions and renamings happen.
THEOREM TurnsCreateOnce == ChannelSpec => []OneNamed
<1> DEFINE Inv == ChannelTyped /\ (~lapped => TurnsInv)
<1>1. ChannelInit => Inv BY ChannelTypedInit, TurnsInit
<1>2. Inv /\ [ChannelNext]_channelVars => Inv'
  <2> SUFFICES ASSUME Inv, [ChannelNext]_channelVars PROVE Inv' OBVIOUS
  <2>1. ~lapped' => ~lapped
    BY DEF ChannelNext, Continue, Cache, Mongo, Forget, Adopt, Create, Route, Persist, Fill, Policy,
           Restart, LostWrite, Expire, Delete, Rename, Enter, channelVars
  <2> QED BY <2>1, ChannelTypedStep, TurnsStep
<1>3. Inv => OneNamed BY DEF TurnsInv, OneNamed
<1> QED BY <1>1, <1>2, <1>3, PTL DEF ChannelSpec

-----------------------------------------------------------------------------
(* The live feed: types.                                                    *)

\* A finite set as a sequence: each member once.
LEMMA SetAsSequence ==
  ASSUME NEW S, IsFiniteSet(S)
  PROVE  /\ SetToSeq(S) \in Seq(S)
         /\ \A i, j \in 1..Len(SetToSeq(S)) : SetToSeq(S)[i] = SetToSeq(S)[j] => i = j
         /\ \A x \in S : \E i \in 1..Len(SetToSeq(S)) : SetToSeq(S)[i] = x
<1> DEFINE n == Cardinality(S)
           f == SetToSeq(S)
<1>1. n \in Nat /\ ExistsBijection(1..n, S)
  BY FS_CardinalityType
<1>2. PICK g \in [1..n -> S] : IsInjective(g)
  BY <1>1 DEF ExistsBijection, Bijection, Injection
<1>3. f \in [1..n -> S] /\ IsInjective(f)
  BY <1>2 DEF SetToSeq
<1>4. f \in Injection(1..n, S)
  BY <1>3 DEF Injection
<1>5. IsFiniteSet(1..n) /\ Cardinality(1..n) = n
  BY <1>1, FS_Interval
<1>6. f \in Surjection(1..n, S)
  BY <1>4, <1>5, FS_Injection
<1>7. Len(f) = n /\ f \in Seq(S)
  BY <1>1, <1>3
<1> QED BY <1>3, <1>6, <1>7 DEF IsInjective, Surjection

Phases == {"down", "shaking", "live"}
Shown == {v \in Views : v = Offline \/ (v.state # "offline" /\ v.ref \in Matches)}

\* The types, with those of the queues; what is recorded names its match.
FeedTyped ==
  /\ recorded \in [Accounts -> Shown] /\ {players, playerState} \subseteq [Accounts -> Views]
  /\ link \in [phase : Phases, todo : Seq(Events)]
  /\ inbox \in Seq(Events)
  /\ writing = NoEvent \/ writing \in [player : Accounts, old : States]
  /\ said \in [Accounts -> States] /\ missed \subseteq Accounts

\* The event that reports a status leads back to it.
LEMMA ReportsType ==
  ASSUME NEW p \in Accounts, NEW v \in Shown
  PROVE  /\ Reports(p, v) \in Events
         /\ v # Offline => Outcome(Offline, Reports(p, v)) = v
BY DEF Reports, Shown, Views, States, Events, Types, Offline, Outcome

\* A handshake reports each profile that is in a match, once.
LEMMA HandshakeReports ==
  ASSUME FeedTyped
  PROVE  /\ Handshake \in Seq(Events)
         /\ \A i, j \in 1..Len(Handshake) : Handshake[i].player = Handshake[j].player => i = j
         /\ \A i \in 1..Len(Handshake) :
              LET p == Handshake[i].player
              IN  p \in Accounts /\ recorded[p] # Offline /\ Handshake[i] = Reports(p, recorded[p])
         /\ \A p \in Accounts : recorded[p] # Offline =>
              \E i \in 1..Len(Handshake) : Handshake[i].player = p
<1> DEFINE Q == {q \in Accounts : recorded[q] # Offline}
           S == {Reports(p, recorded[p]) : p \in Q}
           r == [p \in Q |-> Reports(p, recorded[p])]
<1>1. IsFiniteSet(S)
  <2>1. IsFiniteSet(Q)
    BY FeedAssumption, FS_Subset
  <2>2. r \in Surjection(Q, S)
    BY DEF Surjection
  <2> QED BY <2>1, <2>2, FS_Surjection
<1>2. Handshake = SetToSeq(S)
  BY DEF Handshake
<1>3. /\ SetToSeq(S) \in Seq(S)
      /\ \A i, j \in 1..Len(SetToSeq(S)) : SetToSeq(S)[i] = SetToSeq(S)[j] => i = j
      /\ \A x \in S : \E i \in 1..Len(SetToSeq(S)) : SetToSeq(S)[i] = x
  BY <1>1, SetAsSequence
<1>4. \A p \in Q : Reports(p, recorded[p]).player = p
  BY DEF Reports
<1>5. S \subseteq Events
  BY ReportsType DEF FeedTyped
<1> HIDE DEF S
<1>6. \A i \in 1..Len(Handshake) : Handshake[i] \in S
  BY <1>2, <1>3
<1>7. \A x, y \in S : x.player = y.player => x = y
  BY <1>4 DEF S
<1>8. Handshake \in Seq(Events)
  BY <1>2, <1>3, <1>5
<1>9. \A i \in 1..Len(Handshake) :
        LET p == Handshake[i].player
        IN  p \in Accounts /\ recorded[p] # Offline /\ Handshake[i] = Reports(p, recorded[p])
  BY <1>4, <1>6 DEF S
<1>10. \A p \in Accounts : recorded[p] # Offline => \E i \in 1..Len(Handshake) : Handshake[i].player = p
  <2> SUFFICES ASSUME NEW p \in Q PROVE \E i \in 1..Len(Handshake) : Handshake[i].player = p
    OBVIOUS
  <2>1. Reports(p, recorded[p]) \in S
    BY DEF S
  <2>2. PICK i \in 1..Len(SetToSeq(S)) : SetToSeq(S)[i] = Reports(p, recorded[p])
    BY <1>3, <2>1
  <2> QED BY <1>2, <1>4, <2>2
<1> QED BY <1>2, <1>3, <1>6, <1>7, <1>8, <1>9, <1>10

LEMMA FeedTypedInit == FeedInit => FeedTyped
BY FeedAssumption DEF FeedInit, FeedTyped, Shown, Views, Offline, States, Down, Phases

LEMMA FeedTypedStep == FeedTyped /\ [FeedNext]_feedVars => FeedTyped'
<1> SUFFICES ASSUME FeedTyped, [FeedNext]_feedVars PROVE FeedTyped'
  OBVIOUS
<1> USE DEF FeedTyped
<1>o. Offline \in Shown /\ Offline \in Views
  BY DEF Shown, Views, Offline, States
<1>d. Down \in [phase : Phases, todo : Seq(Events)]
  BY DEF Down, Phases
<1>p. ASSUME NEW p \in Accounts, NEW v \in Shown, NEW e \in Events, Publish(p, v, e)
      PROVE  FeedTyped'
  BY <1>p DEF Publish, service
<1>1. ASSUME NEW p \in Accounts, NEW m \in Matches, NEW s \in {"in_lobby", "in_game"}, Enters(p, s, m)
      PROVE  FeedTyped'
  <2> DEFINE v == [state |-> s, ref |-> m, setup |-> 0]
  <2>1. v \in Shown
    BY DEF Shown, Views, States, Offline
  <2>2. Publish(p, v, Reports(p, v))
    BY <1>1 DEF Enters
  <2> HIDE DEF v
  <2> QED BY <2>1, <2>2, <1>p, ReportsType
<1>2. ASSUME NEW p \in Accounts, Changes(p) PROVE FeedTyped'
  <2> DEFINE v == [recorded[p] EXCEPT !.setup = 1 - @]
             e == [Reports(p, v) EXCEPT !.type = "match_updated"]
  <2>1. v \in Shown
    BY <1>2 DEF Changes, Shown, Views, States, Offline
  <2>2. e \in Events
    <3>1. Reports(p, v) \in Events
      BY <2>1, ReportsType
    <3> QED BY <3>1 DEF Events, Types
  <2>3. Publish(p, v, e)
    BY <1>2 DEF Changes
  <2> QED BY <2>1, <2>2, <2>3, <1>p
<1>3. ASSUME NEW p \in Accounts, Closes(p) PROVE FeedTyped'
  <2> DEFINE e == [type |-> IF recorded[p].state = "in_game" THEN "game_ended" ELSE "lobby_closed",
                   player |-> p, ref |-> recorded[p].ref, setup |-> 0]
  <2>1. e \in Events
    BY DEF Events, Types, Shown, Views
  <2>2. Publish(p, Offline, e)
    BY <1>3 DEF Closes
  <2> QED BY <2>1, <2>2, <1>o, <1>p
<1>4. CASE Connect
  BY <1>4, HandshakeReports DEF Connect, service, Phases
<1>5. CASE Shake
  <2>1. Head(link.todo) \in Events /\ Tail(link.todo) \in Seq(Events)
    BY <1>5 DEF Shake
  <2>2. link' \in [phase : Phases, todo : Seq(Events)] /\ inbox' \in Seq(Events)
    <3>1. link' = [link EXCEPT !.todo = Tail(@)] /\ inbox' = Append(inbox, Head(link.todo))
      BY <1>5 DEF Shake
    <3>2. inbox' \in Seq(Events)
      BY <2>1, <3>1
    <3>3. link' = [phase |-> link.phase, todo |-> Tail(link.todo)]
      BY <3>1
    <3> QED BY <2>1, <3>2, <3>3
  <2> QED BY <1>5, <2>2 DEF Shake, service
<1>6. CASE Subscribe
  BY <1>6 DEF Subscribe, service, Phases
<1>7. CASE Handle
  <2> DEFINE e == Head(inbox)
             cur == players[e.player]
  <2>1. e \in Events /\ Tail(inbox) \in Seq(Events) /\ e.player \in Accounts /\ cur \in Views
    <3>1. inbox # <<>> /\ inbox \in Seq(Events)
      BY <1>7 DEF Handle
    <3>2. e \in Events /\ Tail(inbox) \in Seq(Events)
      BY <3>1
    <3>3. e.player \in Accounts
      BY <3>2 DEF Events
    <3> QED BY <3>2, <3>3
  <2>2. Outcome(cur, e) \in Views /\ e.setup \in 0..1 /\ cur.state \in States
    BY <2>1, <1>o DEF Outcome, Views, States, Events
  <2>3. CASE /\ players' = [players EXCEPT ![e.player] = Outcome(cur, e)]
             /\ writing' = [player |-> e.player, old |-> cur.state]
    BY <1>7, <2>1, <2>2, <2>3 DEF Handle, provider
  <2>4. CASE /\ players' = [players EXCEPT ![e.player].setup = e.setup]
             /\ writing' = [player |-> e.player, old |-> cur.state]
    <3>1. players' \in [Accounts -> Views]
      BY <2>1, <2>2, <2>4 DEF Views
    <3> QED BY <1>7, <2>1, <2>2, <2>4, <3>1 DEF Handle, provider
  <2>5. CASE UNCHANGED <<players, writing>>
    BY <1>7, <2>1, <2>5 DEF Handle, provider
  <2> QED BY <1>7, <2>3, <2>4, <2>5 DEF Handle
<1>8. CASE Written
  <2>1. writing \in [player : Accounts, old : States] /\ players[writing.player].state \in States
    BY <1>8 DEF Written, Views
  <2> QED BY <1>8, <2>1 DEF Written, provider
<1>l. ASSUME NEW a, NEW kept \in SUBSET {inbox, <<>>}, NEW S \in SUBSET Accounts, Lost(a, kept, S)
      PROVE  /\ link' \in [phase : Phases, todo : Seq(Events)] /\ inbox' \in Seq(Events)
             /\ missed' \subseteq Accounts
  <2>1. PICK q \in kept : inbox' = q /\ missed' = missed \cup S \cup (ClosesIn(inbox) \ ClosesIn(q))
    BY <1>l DEF Lost
  <2>2. <<>> \in Seq(Events)
    OBVIOUS
  <2>3. ClosesIn(inbox) \subseteq Accounts
    BY DEF ClosesIn
  <2> QED BY <1>l, <1>d, <2>1, <2>2, <2>3 DEF Lost
<1>9. CASE Break
  BY <1>9, <1>l DEF Break, service
<1>10. CASE ProviderDown
  <2>1. Lost(FALSE, {inbox, <<>>}, {p \in Accounts : recorded[p] # Offline})
    BY <1>10 DEF ProviderDown
  <2> DEFINE S == {p \in Accounts : recorded[p] # Offline}
             kept == {inbox, <<>>}
  <2>a. Lost(FALSE, kept, S) /\ S \in SUBSET Accounts /\ kept \in SUBSET {inbox, <<>>}
    BY <2>1
  <2> HIDE DEF S, kept
  <2>2. /\ link' \in [phase : Phases, todo : Seq(Events)] /\ inbox' \in Seq(Events)
        /\ missed' \subseteq Accounts
    BY <1>l, <2>a
  <2> QED BY <1>10, <1>o, <2>2 DEF ProviderDown, service
<1>11. CASE ProviderUp
  BY <1>11 DEF ProviderUp, service
<1>12. CASE ServiceRestart
  BY <1>12, <1>l, <1>o DEF ServiceRestart, States
<1>13. CASE HealthCheck
  BY <1>13 DEF HealthCheck, service, provider
<1>14. CASE UNCHANGED feedVars
  BY <1>14 DEF feedVars, service, provider
<1> QED BY <1>1, <1>2, <1>3, <1>4, <1>5, <1>6, <1>7, <1>8, <1>9, <1>10, <1>11, <1>12, <1>13, <1>14 DEF FeedNext

\* Every variable of the feed keeps its type.
THEOREM FeedTypeCorrect == FeedSpec => []FeedTypeOK
<1>1. FeedTyped => FeedTypeOK
  BY DEF FeedTyped, FeedTypeOK, Shown, Phases
<1> QED BY <1>1, FeedTypedInit, FeedTypedStep, PTL DEF FeedSpec

-----------------------------------------------------------------------------
(* The live feed: the transitions and the statuses that the events lead to. *)

Ends == {"lobby_closed", "game_ended"}

\* The view an event brings when it is handled after the view it follows.
Leads(e) ==
  IF e.type = "match_updated" THEN [state |-> "in_lobby", ref |-> e.ref, setup |-> e.setup]
  ELSE Outcome(Offline, e)
Follows(v, e) ==
  /\ e.type = "match_updated" => v.state = "in_lobby" /\ v.ref = e.ref
  /\ e.type = "lobby_closed" => v.state # "in_game"

\* The views of p while the events of q are handled one by one; a walk that
\* ends offline after another view holds the event that closes it.
Walk(p, q, h) ==
  /\ h \in [0..Len(q) -> Views]
  /\ \A i \in 1..Len(q) :
       IF q[i].player = p THEN h[i] = Leads(q[i]) /\ Follows(h[i - 1], q[i]) ELSE h[i] = h[i - 1]
  /\ h[Len(q)] = Offline => \A i \in 0..Len(q) : h[i] # Offline =>
       \E j \in (i + 1)..Len(q) : q[j].player = p /\ q[j].type \in Ends
Way(p, q, from, to) == \E h : Walk(p, q, h) /\ h[0] = from /\ h[Len(q)] = to

\* No event: the view stays.
LEMMA WayOfNone ==
  ASSUME NEW p, NEW v \in Views
  PROVE  /\ Way(p, <<>>, v, v)
         /\ \A w : Way(p, <<>>, v, w) => w = v
<1>1. Walk(p, <<>>, [i \in 0..0 |-> v])
  BY DEF Walk
<1>2. Way(p, <<>>, v, v)
  BY <1>1 DEF Way
<1> QED BY <1>2 DEF Way

\* One more event, of another profile or of the profile itself.
LEMMA WayAppend ==
  ASSUME NEW p, NEW q \in Seq(Events), NEW e \in Events, NEW from, NEW to, NEW w \in Views,
         Way(p, q, from, to),
         IF e.player = p THEN w = Leads(e) /\ Follows(to, e) ELSE w = to
  PROVE  Way(p, Append(q, e), from, w)
<1> DEFINE n == Len(q)
           r == Append(q, e)
<1>1. PICK h : Walk(p, q, h) /\ h[0] = from /\ h[n] = to
  BY DEF Way
<1> DEFINE g == [i \in 0..(n + 1) |-> IF i = n + 1 THEN w ELSE h[i]]
<1>2. n \in Nat /\ Len(r) = n + 1 /\ r[n + 1] = e /\ \A i \in 1..n : r[i] = q[i]
  OBVIOUS
<1>3. g \in [0..Len(r) -> Views] /\ g[0] = from /\ g[Len(r)] = w /\ \A i \in 0..n : g[i] = h[i]
  BY <1>1, <1>2 DEF Walk
<1>4. ASSUME NEW i \in 1..Len(r)
      PROVE  IF r[i].player = p THEN g[i] = Leads(r[i]) /\ Follows(g[i - 1], r[i])
             ELSE g[i] = g[i - 1]
  <2>1. CASE i = n + 1
    <3>1. g[i - 1] = to /\ g[i] = w /\ r[i] = e
      BY <1>1, <1>2, <1>3, <2>1
    <3> HIDE DEF g, r
    <3> QED BY <3>1
  <2>2. CASE i \in 1..n
    <3>1. g[i - 1] = h[i - 1] /\ g[i] = h[i] /\ r[i] = q[i]
      BY <1>2, <1>3, <2>2
    <3> HIDE DEF g, r
    <3> QED BY <1>1, <2>2, <3>1 DEF Walk
  <2> QED BY <1>2, <2>1, <2>2
<1>5. ASSUME g[Len(r)] = Offline, NEW i \in 0..Len(r), g[i] # Offline
      PROVE  \E j \in (i + 1)..Len(r) : r[j].player = p /\ r[j].type \in Ends
  <2>1. i \in 0..n /\ g[i] = h[i]
    BY <1>2, <1>3, <1>5
  <2>2. CASE e.player = p
    <3>1. e.type \in Ends
      BY <1>3, <1>5, <2>2 DEF Leads, Outcome, Offline, Ends
    <3> QED BY <1>2, <2>1, <2>2, <3>1
  <2>3. CASE e.player # p
    <3>1. h[n] = Offline /\ h[i] # Offline
      BY <1>1, <1>3, <1>5, <2>1, <2>3
    <3>2. PICK j \in (i + 1)..n : q[j].player = p /\ q[j].type \in Ends
      BY <1>1, <2>1, <3>1 DEF Walk
    <3> QED BY <1>2, <2>1, <3>2
  <2> QED BY <2>2, <2>3
<1>6. Walk(p, r, g)
  BY <1>3, <1>4, <1>5 DEF Walk
<1> QED BY <1>3, <1>6 DEF Way

\* One event handled: the rest of the way begins where that event leads.
LEMMA WayTail ==
  ASSUME NEW p, NEW q \in Seq(Events), q # <<>>, NEW from, NEW to, Way(p, q, from, to)
  PROVE  /\ Head(q).player = p => Way(p, Tail(q), Leads(Head(q)), to) /\ Follows(from, Head(q))
         /\ Head(q).player # p => Way(p, Tail(q), from, to)
<1> DEFINE n == Len(q)
           r == Tail(q)
<1>1. PICK h : Walk(p, q, h) /\ h[0] = from /\ h[n] = to
  BY DEF Way
<1> DEFINE g == [i \in 0..(n - 1) |-> h[i + 1]]
<1>2. n \in Nat /\ n >= 1 /\ Len(r) = n - 1 /\ Head(q) = q[1] /\ \A i \in 1..(n - 1) : r[i] = q[i + 1]
  OBVIOUS
<1>3. g \in [0..Len(r) -> Views] /\ g[Len(r)] = to /\ \A i \in 0..(n - 1) : g[i] = h[i + 1]
  BY <1>1, <1>2 DEF Walk
<1>4. ASSUME NEW i \in 1..Len(r)
      PROVE  IF r[i].player = p THEN g[i] = Leads(r[i]) /\ Follows(g[i - 1], r[i])
             ELSE g[i] = g[i - 1]
  <2>1. g[i] = h[i + 1] /\ g[i - 1] = h[i] /\ r[i] = q[i + 1] /\ i + 1 \in 1..n /\ (i + 1) - 1 = i
    BY <1>2, <1>3
  <2> HIDE DEF g, r
  <2>2. IF q[i + 1].player = p THEN h[i + 1] = Leads(q[i + 1]) /\ Follows(h[(i + 1) - 1], q[i + 1])
        ELSE h[i + 1] = h[(i + 1) - 1]
    BY <1>1, <2>1 DEF Walk
  <2> QED BY <2>1, <2>2
<1>5. ASSUME g[Len(r)] = Offline, NEW i \in 0..Len(r), g[i] # Offline
      PROVE  \E j \in (i + 1)..Len(r) : r[j].player = p /\ r[j].type \in Ends
  <2>1. i + 1 \in 0..n /\ h[i + 1] # Offline /\ h[n] = Offline
    BY <1>1, <1>2, <1>3, <1>5
  <2>2. PICK j \in ((i + 1) + 1)..n : q[j].player = p /\ q[j].type \in Ends
    BY <1>1, <2>1 DEF Walk
  <2>3. j - 1 \in (i + 1)..Len(r) /\ r[j - 1] = q[j]
    BY <1>2, <2>2
  <2> QED BY <2>2, <2>3
<1>6. Walk(p, r, g)
  BY <1>3, <1>4, <1>5 DEF Walk
<1>7. Way(p, r, h[1], to)
  BY <1>2, <1>3, <1>6 DEF Way
<1>8. IF q[1].player = p THEN h[1] = Leads(q[1]) /\ Follows(from, q[1]) ELSE h[1] = from
  BY <1>1, <1>2 DEF Walk
<1> QED BY <1>2, <1>7, <1>8

\* A way that ends offline without a closing event began offline.
LEMMA WayUnclosed ==
  ASSUME NEW p \in Accounts, NEW q \in Seq(Events), NEW from, Way(p, q, from, Offline),
         p \notin ClosesIn(q)
  PROVE  from = Offline
<1>1. PICK h : Walk(p, q, h) /\ h[0] = from /\ h[Len(q)] = Offline
  BY DEF Way
<1>2. \A j \in 1..Len(q) : ~(q[j].player = p /\ q[j].type \in Ends)
  BY DEF ClosesIn, Ends
<1> QED BY <1>1, <1>2 DEF Walk

\* Whether q holds an event of p.
Named(p, q) == \E i \in 1..Len(q) : q[i].player = p

LEMMA NamesAppend ==
  ASSUME NEW p \in Accounts, NEW q \in Seq(Events), NEW e \in Events
  PROVE  /\ Named(p, Append(q, e)) <=> Named(p, q) \/ e.player = p
         /\ p \in ClosesIn(Append(q, e)) <=> p \in ClosesIn(q) \/ (e.player = p /\ e.type \in Ends)
<1>1. /\ Len(q) \in Nat /\ Len(Append(q, e)) = Len(q) + 1 /\ Append(q, e)[Len(q) + 1] = e
      /\ \A i \in 1..Len(q) : Append(q, e)[i] = q[i]
  OBVIOUS
<1> DEFINE r == Append(q, e)
<1> HIDE DEF r
<1>2. /\ Len(q) \in Nat /\ Len(r) = Len(q) + 1 /\ r[Len(q) + 1] = e
      /\ \A i \in 1..Len(q) : r[i] = q[i]
  BY <1>1 DEF r
<1>3. \A i \in 1..Len(r) : i \in 1..Len(q) \/ i = Len(q) + 1
  BY <1>2
<1>4. 1..Len(q) \subseteq 1..Len(r) /\ Len(q) + 1 \in 1..Len(r)
  BY <1>2
<1>5. Named(p, r) <=> Named(p, q) \/ e.player = p
  BY <1>2, <1>3, <1>4 DEF Named
<1>6. p \in ClosesIn(r) <=> p \in ClosesIn(q) \/ (e.player = p /\ e.type \in Ends)
  BY <1>2, <1>3, <1>4 DEF ClosesIn, Ends
<1> QED BY <1>5, <1>6 DEF r

LEMMA NamesTail ==
  ASSUME NEW p \in Accounts, NEW q \in Seq(Events), q # <<>>, Head(q).player # p
  PROVE  /\ Named(p, Tail(q)) <=> Named(p, q)
         /\ p \in ClosesIn(Tail(q)) <=> p \in ClosesIn(q)
<1>1. /\ Len(q) \in Nat \ {0} /\ Len(Tail(q)) = Len(q) - 1 /\ q[1] = Head(q)
      /\ \A i \in 1..(Len(q) - 1) : Tail(q)[i] = q[i + 1]
  OBVIOUS
<1> DEFINE r == Tail(q)
<1> HIDE DEF r
<1>2. /\ Len(q) \in Nat \ {0} /\ Len(r) = Len(q) - 1 /\ q[1].player # p
      /\ \A i \in 1..Len(r) : r[i] = q[i + 1] /\ i + 1 \in 1..Len(q)
  BY <1>1 DEF r
<1>3. \A i \in 1..Len(q) : i = 1 \/ (i - 1 \in 1..Len(r) /\ r[i - 1] = q[i])
  BY <1>2
<1>4. Named(p, r) <=> Named(p, q)
  BY <1>2, <1>3 DEF Named
<1>5. p \in ClosesIn(r) <=> p \in ClosesIn(q)
  BY <1>2, <1>3 DEF ClosesIn
<1> QED BY <1>4, <1>5 DEF r

\* The profiles whose handshake event is not sent yet.
Owed == IF link.phase = "shaking" THEN {link.todo[i].player : i \in 1..Len(link.todo)} ELSE {}

\* The rest of a handshake names a profile once, and reports its status.
Shakes ==
  link.phase = "shaking" =>
    /\ \A i, j \in 1..Len(link.todo) : link.todo[i].player = link.todo[j].player => i = j
    /\ \A i \in 1..Len(link.todo) :
         LET p == link.todo[i].player
         IN  p \notin missed => recorded[p] # Offline /\ link.todo[i] = Reports(p, recorded[p])

\* The last transition queued is the state before the write that is awaited.
Told ==
  \A p \in Accounts :
    said[p] = IF writing # NoEvent /\ writing.player = p THEN writing.old ELSE players[p].state

\* The view v is the adapter's, or what it becomes with the next stream.
Reaches(p, v) ==
  /\ link.phase = "down" => (recorded[p] = Offline => v = Offline)
  /\ link.phase = "live" => v = recorded[p]
  /\ link.phase = "shaking" => p \in Owed \/ v = recorded[p]

Saved(p) == playerState[p] = players[p] \/ (writing # NoEvent /\ writing.player = p)

\* The events not handled yet lead from the aggregator's view to the adapter's,
\* and player_state has that view or will be written again.
Kept(p) ==
  /\ \E v \in Views : Way(p, inbox, players[p], v) /\ Reaches(p, v)
  /\ Saved(p) \/ Named(p, inbox) \/ p \in Owed \/ (link.phase = "down" /\ recorded[p] # Offline)
  /\ recorded[p] = Offline /\ ~Saved(p) => p \in ClosesIn(inbox)

FeedInv == FeedTyped /\ Shakes /\ Told /\ \A p \in Accounts \ missed : Kept(p)

LEMMA FeedInvInit == FeedInit => FeedInv
<1> SUFFICES ASSUME FeedInit PROVE FeedInv
  OBVIOUS
<1>1. FeedTyped
  BY FeedTypedInit
<1>2. Shakes /\ Told
  BY DEF FeedInit, Shakes, Told, Down, Offline
<1>3. ASSUME NEW p \in Accounts PROVE Kept(p)
  <2>1. Offline \in Views /\ players[p] = Offline /\ recorded[p] = Offline /\ inbox = <<>>
    BY DEF FeedInit, Offline, Views, States
  <2>2. Way(p, inbox, players[p], Offline)
    BY <2>1, WayOfNone
  <2>3. Reaches(p, Offline)
    BY DEF Reaches, FeedInit, Down
  <2>4. Saved(p)
    BY DEF Saved, FeedInit
  <2> QED BY <2>1, <2>2, <2>3, <2>4 DEF Kept
<1> QED BY <1>1, <1>2, <1>3 DEF FeedInv

\* What Kept speaks of stays for a profile that a step does not touch.
LEMMA KeptFrame ==
  ASSUME NEW p \in Accounts, Kept(p), inbox' = inbox, players'[p] = players[p],
         recorded'[p] = recorded[p], Owed' = Owed, link'.phase = link.phase, Saved(p)' = Saved(p)
  PROVE  Kept(p)'
BY DEF Kept, Reaches

LEMMA FeedToldStep == FeedInv /\ [FeedNext]_feedVars => Told'
<1> SUFFICES ASSUME FeedInv, [FeedNext]_feedVars PROVE Told'
  OBVIOUS
<1>t. FeedTyped /\ Told
  BY DEF FeedInv
<1>0. UNCHANGED <<said, players, writing>> => Told'
  BY <1>t DEF Told
<1>1. CASE \/ \E p \in Accounts, m \in Matches, s \in {"in_lobby", "in_game"} : Enters(p, s, m)
           \/ \E p \in Accounts : Changes(p) \/ Closes(p)
           \/ Connect \/ Shake \/ Subscribe \/ Break \/ ProviderDown \/ ProviderUp \/ HealthCheck
           \/ UNCHANGED feedVars
  BY <1>0, <1>1 DEF Enters, Changes, Closes, Publish, Connect, Shake, Subscribe, Break,
                    ProviderDown, ProviderUp, HealthCheck, feedVars, service
<1>2. CASE Handle
  <2>1. writing = NoEvent /\ said' = said
    BY <1>2 DEF Handle
  <2> DEFINE e == Head(inbox)
             c == e.player
  <2>2. CASE UNCHANGED <<players, writing>>
    BY <1>0, <2>1, <2>2
  <2>3. CASE /\ writing' = [player |-> c, old |-> players[c].state]
             /\ \A p \in Accounts \ {c} : players'[p] = players[p]
    <3>1. c \in Accounts /\ players[c].state \in States
      <4>1. inbox \in Seq(Events) /\ inbox # <<>>
        BY <1>2, <1>t DEF Handle, FeedTyped
      <4>2. e \in Events
        BY <4>1
      <4> QED BY <1>t, <4>2 DEF Events, FeedTyped, Views
    <3>2. writing' # NoEvent
      BY <2>3, <3>1, FeedAssumption DEF States
    <3> HIDE DEF c, e
    <3> QED BY <1>t, <2>1, <2>3, <3>2 DEF Told
  <2>4. \/ UNCHANGED <<players, writing>>
        \/ /\ writing' = [player |-> c, old |-> players[c].state]
           /\ \A p \in Accounts \ {c} : players'[p] = players[p]
    BY <1>2, <1>t DEF Handle, FeedTyped
  <2> QED BY <2>2, <2>3, <2>4
<1>3. CASE Written
  <2>1. writing # NoEvent /\ writing' = NoEvent /\ players' = players
    BY <1>3 DEF Written
  <2>2. writing.player \in Accounts /\ writing.old \in States
    BY <1>t, <2>1 DEF FeedTyped
  <2>3. said' = IF writing.old # players[writing.player].state
                THEN [said EXCEPT ![writing.player] = players[writing.player].state] ELSE said
    BY <1>3 DEF Written, Queued
  <2> QED BY <1>t, <2>1, <2>2, <2>3 DEF Told, FeedTyped
<1>4. CASE ServiceRestart
  BY <1>4 DEF ServiceRestart, Told, Offline
<1> QED BY <1>1, <1>2, <1>3, <1>4 DEF FeedNext

LEMMA FeedShakesStep == FeedInv /\ [FeedNext]_feedVars => Shakes'
<1> SUFFICES ASSUME FeedInv, [FeedNext]_feedVars PROVE Shakes'
  OBVIOUS
<1>t. FeedTyped /\ Shakes
  BY DEF FeedInv
<1>0. link' = link /\ recorded' = recorded /\ missed \subseteq missed' => Shakes'
  BY <1>t DEF Shakes
<1>1. CASE Handle \/ Written \/ ProviderUp \/ HealthCheck \/ UNCHANGED feedVars
  BY <1>0, <1>1 DEF Handle, Written, ProviderUp, HealthCheck, feedVars, provider
<1>7. CASE Subscribe
  <2>1. link' = [link EXCEPT !.phase = "live"] /\ link \in [phase : Phases, todo : Seq(Events)]
    BY <1>7, <1>t DEF Subscribe, FeedTyped
  <2>2. link'.phase = "live"
    BY <2>1
  <2> QED BY <2>2 DEF Shakes
<1>2. CASE Break \/ ProviderDown \/ ServiceRestart
  BY <1>2 DEF Break, ProviderDown, ServiceRestart, Lost, Down, Shakes
<1>3. CASE Connect
  BY <1>3, <1>t, HandshakeReports DEF Connect, Shakes
<1>4. CASE Shake
  <2>1. /\ link.phase = "shaking" /\ link.todo \in Seq(Events) /\ link.todo # <<>>
        /\ link' = [link EXCEPT !.todo = Tail(@)] /\ recorded' = recorded /\ missed' = missed
    BY <1>4, <1>t DEF Shake, FeedTyped
  <2>2. /\ Len(Tail(link.todo)) = Len(link.todo) - 1 /\ Len(link.todo) \in Nat
        /\ \A i \in 1..(Len(link.todo) - 1) : Tail(link.todo)[i] = link.todo[i + 1]
    BY <2>1
  <2> DEFINE r == Tail(link.todo)
             n == Len(link.todo)
  <2>3. link'.todo = r
    BY <1>t, <2>1 DEF FeedTyped
  <2> HIDE DEF r
  <2>4. n \in Nat /\ Len(r) = n - 1 /\ \A i \in 1..Len(r) : r[i] = link.todo[i + 1] /\ i + 1 \in 1..n
    BY <2>2 DEF r
  <2>5. ASSUME NEW i \in 1..Len(r), NEW j \in 1..Len(r), r[i].player = r[j].player
        PROVE  i = j
    <3>1. i + 1 = j + 1
      BY <1>t, <2>1, <2>4, <2>5 DEF Shakes
    <3> QED BY <2>4, <3>1
  <2>6. ASSUME NEW i \in 1..Len(r), r[i].player \notin missed
        PROVE  recorded[r[i].player] # Offline /\ r[i] = Reports(r[i].player, recorded[r[i].player])
    BY <1>t, <2>1, <2>4, <2>6 DEF Shakes
  <2>7. recorded' = recorded /\ missed' = missed
    BY <2>1
  <2>8. \A i, j \in 1..Len(r) : r[i].player = r[j].player => i = j
    BY <2>5
  <2>9. \A i \in 1..Len(r) :
          LET p == r[i].player
          IN  p \notin missed' => recorded'[p] # Offline /\ r[i] = Reports(p, recorded'[p])
    BY <2>6, <2>7
  <2> QED BY <2>3, <2>8, <2>9 DEF Shakes
<1>5. ASSUME NEW p \in Accounts, NEW v, NEW e, Publish(p, v, e)
      PROVE  Shakes'
  <2>1. /\ link' = link /\ \A r \in Accounts \ {p} : recorded'[r] = recorded[r]
        /\ link.phase = "shaking" => missed' = missed \cup {p}
    BY <1>5, <1>t DEF Publish, FeedTyped
  <2>2. \A i \in 1..Len(link.todo) : link.todo[i].player \in Accounts
    <3>1. link.todo \in Seq(Events)
      BY <1>t DEF FeedTyped
    <3>2. \A i \in 1..Len(link.todo) : link.todo[i] \in Events
      BY <3>1
    <3> QED BY <3>2 DEF Events
  <2> QED BY <1>t, <2>1, <2>2 DEF Shakes
<1>6. CASE \/ \E p \in Accounts, m \in Matches, s \in {"in_lobby", "in_game"} : Enters(p, s, m)
           \/ \E p \in Accounts : Changes(p) \/ Closes(p)
  BY <1>5, <1>6 DEF Enters, Changes, Closes
<1> QED BY <1>1, <1>2, <1>3, <1>4, <1>6, <1>7 DEF FeedNext

\* A profile recorded offline is led there, whatever the phase of the stream.
LEMMA OfflineWay ==
  ASSUME FeedInv, NEW p \in Accounts \ missed, recorded[p] = Offline
  PROVE  /\ Way(p, inbox, players[p], Offline) /\ p \notin Owed
         /\ Saved(p) \/ p \in ClosesIn(inbox)
<1>1. PICK v \in Views : Way(p, inbox, players[p], v) /\ Reaches(p, v)
  BY DEF FeedInv, Kept
<1>2. p \notin Owed
  BY DEF FeedInv, Shakes, Owed
<1>3. v = Offline
  BY <1>1, <1>2 DEF Reaches, FeedInv, FeedTyped, Phases
<1> QED BY <1>1, <1>2, <1>3 DEF FeedInv, Kept

\* A transition of the adapter, with the event that tells it.
LEMMA PublishKeeps ==
  ASSUME FeedInv, NEW a \in Accounts, NEW w \in Shown, NEW e \in Events, Publish(a, w, e),
         e.player = a, Leads(e) = w, Follows(recorded[a], e), w = Offline => e.type \in Ends,
         NEW p \in Accounts \ missed'
  PROVE  Kept(p)'
<1>1. /\ link' = link /\ players' = players /\ playerState' = playerState /\ writing' = writing
      /\ recorded' = [recorded EXCEPT ![a] = w] /\ missed \subseteq missed'
      /\ inbox' = IF link.phase = "live" THEN Append(inbox, e) ELSE inbox
  BY DEF Publish, service
<1>2. p \in Accounts \ missed /\ Kept(p) /\ inbox \in Seq(Events) /\ w \in Views
  BY <1>1 DEF FeedInv, FeedTyped, Shown
<1>3. recorded'[p] = IF p = a THEN w ELSE recorded[p]
  BY <1>1 DEF FeedInv, FeedTyped
<1>4. Owed' = Owed /\ Saved(p)' = Saved(p)
  BY <1>1 DEF Owed, Saved
<1>5. CASE link.phase = "live"
  <2>1. Way(p, inbox, players[p], recorded[p]) /\ recorded[p] \in Views
    BY <1>2, <1>5 DEF Kept, Reaches
  <2>2. PICK v \in Views : v = IF p = a THEN w ELSE recorded[p]
    BY <1>2, <2>1
  <2>9. Way(p, Append(inbox, e), players[p], v)
    BY <1>2, <2>1, <2>2, WayAppend
  <2>3. Reaches(p, v)'
    BY <1>1, <1>3, <1>5, <2>2 DEF Reaches
  <2>4. inbox' = Append(inbox, e)
    BY <1>1, <1>5
  <2>5. /\ Named(p, inbox') <=> Named(p, inbox) \/ e.player = p
        /\ p \in ClosesIn(inbox') <=> p \in ClosesIn(inbox) \/ (e.player = p /\ e.type \in Ends)
    BY <1>2, <2>4, NamesAppend
  <2>6. p \notin Owed
    BY <1>5 DEF Owed
  <2>7. Saved(p) \/ Named(p, inbox')
    BY <1>2, <1>5, <2>5, <2>6 DEF Kept
  <2>8. recorded'[p] = Offline /\ ~Saved(p) => p \in ClosesIn(inbox')
    BY <1>2, <1>3, <2>5 DEF Kept
  <2> QED BY <1>1, <1>4, <2>2, <2>3, <2>4, <2>7, <2>8, <2>9 DEF Kept
<1>6. CASE link.phase # "live" /\ p = a
  <2>1. link.phase = "down" /\ w # Offline
    BY <1>6 DEF Publish, FeedInv, FeedTyped, Phases
  <2>2. PICK v \in Views : Way(p, inbox, players[p], v)
    BY <1>2 DEF Kept
  <2>3. Reaches(p, v)'
    BY <1>1, <1>3, <1>6, <2>1 DEF Reaches
  <2> QED BY <1>1, <1>3, <1>6, <2>1, <2>2, <2>3 DEF Kept
<1>7. CASE link.phase # "live" /\ p # a
  BY <1>1, <1>2, <1>3, <1>4, <1>7, KeptFrame
<1> QED BY <1>5, <1>6, <1>7

\* A lost stream: what went with it is missed, the rest is still handled.
LEMMA LossKeeps ==
  ASSUME FeedInv, NEW a, NEW kept \in SUBSET {inbox, <<>>}, NEW S, Lost(a, kept, S),
         NEW p \in Accounts \ missed',
         players'[p] = players[p], recorded'[p] = recorded[p], Saved(p)' = Saved(p)
  PROVE  Kept(p)'
<1>1. link'.phase = "down" /\ missed \subseteq missed'
  BY DEF Lost, Down
<1>2. inbox' = inbox \/ (inbox' = <<>> /\ p \notin ClosesIn(inbox))
  <2>1. PICK q \in kept : inbox' = q /\ missed' = missed \cup S \cup (ClosesIn(inbox) \ ClosesIn(q))
    BY DEF Lost
  <2>2. ClosesIn(<<>>) = {}
    BY DEF ClosesIn
  <2> QED BY <2>1, <2>2
<1>3. p \in Accounts \ missed /\ Kept(p) /\ players[p] \in Views
  BY <1>1 DEF FeedInv, FeedTyped
<1>4. CASE recorded[p] = Offline
  <2>1. /\ Way(p, inbox, players[p], Offline) /\ p \notin Owed
        /\ Saved(p) \/ p \in ClosesIn(inbox)
    BY <1>3, <1>4, OfflineWay
  <2>2. Reaches(p, Offline)' /\ Offline \in Views
    BY <1>1 DEF Reaches, Offline, Views, States
  <2>3. CASE inbox' = inbox
    <3>1. Saved(p) \/ Named(p, inbox)
      BY <2>1 DEF ClosesIn, Named
    <3>2. Saved(p)' \/ Named(p, inbox)'
      BY <2>3, <3>1
    <3>3. ~Saved(p)' => p \in ClosesIn(inbox)'
      BY <2>1, <2>3
    <3>4. Way(p, inbox', players'[p], Offline)
      BY <2>1, <2>3
    <3> QED BY <2>2, <3>2, <3>3, <3>4 DEF Kept
  <2>4. CASE inbox' = <<>> /\ p \notin ClosesIn(inbox)
    <3>1. players[p] = Offline
      BY <2>1, <2>4, WayUnclosed DEF FeedInv, FeedTyped
    <3>2. Way(p, inbox', players'[p], Offline)
      BY <2>2, <2>4, <3>1, WayOfNone
    <3>3. Saved(p)'
      BY <2>1, <2>4
    <3> QED BY <2>2, <3>2, <3>3 DEF Kept
  <2> QED BY <1>2, <2>3, <2>4
<1>5. CASE recorded[p] # Offline
  <2>1. \A v : Reaches(p, v)'
    BY <1>1, <1>5 DEF Reaches
  <2>2. \E v \in Views : Way(p, inbox', players'[p], v)
    BY <1>2, <1>3, WayOfNone DEF Kept
  <2> QED BY <1>1, <1>5, <2>1, <2>2 DEF Kept
<1> QED BY <1>4, <1>5

LEMMA FeedKeptStep ==
  ASSUME FeedInv, [FeedNext]_feedVars, NEW p \in Accounts \ missed'
  PROVE  Kept(p)'
<1>0. ASSUME missed \subseteq missed'
      PROVE  p \in Accounts \ missed /\ Kept(p)
  BY <1>0 DEF FeedInv
<1>t. FeedTyped /\ Shakes /\ inbox \in Seq(Events) /\ recorded[p] \in Shown
  BY DEF FeedInv, FeedTyped
<1>1. ASSUME NEW a \in Accounts, NEW m \in Matches, NEW s \in {"in_lobby", "in_game"}, Enters(a, s, m)
      PROVE  Kept(p)'
  <2> DEFINE w == [state |-> s, ref |-> m, setup |-> 0]
             e == Reports(a, w)
  <2>1. Publish(a, w, e)
    BY <1>1 DEF Enters
  <2>2. w \in Shown /\ w # Offline
    BY DEF Shown, Views, States, Offline
  <2>3. e \in Events
    BY <2>2, ReportsType
  <2>4. e.player = a /\ Leads(e) = w /\ Follows(recorded[a], e)
    BY DEF Reports, Leads, Outcome, Follows
  <2> HIDE DEF w, e
  <2> QED BY <2>1, <2>2, <2>3, <2>4, PublishKeeps
<1>2. ASSUME NEW a \in Accounts, Changes(a) PROVE Kept(p)'
  <2> DEFINE w == [recorded[a] EXCEPT !.setup = 1 - @]
             e == [Reports(a, w) EXCEPT !.type = "match_updated"]
  <2>1. Publish(a, w, e)
    BY <1>2 DEF Changes
  <2>2. recorded[a].state = "in_lobby" /\ recorded[a] \in Shown
    BY <1>2, <1>t DEF Changes, FeedTyped
  <2>3. w \in Shown /\ w # Offline
    BY <2>2 DEF Shown, Views, States, Offline
  <2>4. e = [type |-> "match_updated", player |-> a, ref |-> recorded[a].ref, setup |-> w.setup]
    BY <2>2 DEF Reports, Shown, Views
  <2>5. e \in Events
    BY <2>2, <2>3, <2>4 DEF Events, Types, Shown, Views
  <2>6. w = [state |-> "in_lobby", ref |-> recorded[a].ref, setup |-> w.setup]
    BY <2>2 DEF Shown, Views
  <2>7. e.player = a /\ Leads(e) = w /\ Follows(recorded[a], e)
    BY <2>2, <2>4, <2>6 DEF Leads, Follows
  <2> HIDE DEF w, e
  <2> QED BY <2>1, <2>3, <2>5, <2>7, PublishKeeps
<1>3. ASSUME NEW a \in Accounts, Closes(a) PROVE Kept(p)'
  <2> DEFINE e == [type |-> IF recorded[a].state = "in_game" THEN "game_ended" ELSE "lobby_closed",
                   player |-> a, ref |-> recorded[a].ref, setup |-> 0]
  <2>1. Publish(a, Offline, e)
    BY <1>3 DEF Closes
  <2>2. recorded[a] \in Shown
    BY <1>t DEF FeedTyped
  <2>3. Offline \in Shown /\ e \in Events /\ e.type \in Ends
    BY <2>2 DEF Shown, Views, States, Offline, Events, Types, Ends
  <2>4. e.player = a /\ Leads(e) = Offline /\ Follows(recorded[a], e)
    BY DEF Leads, Outcome, Follows, Ends
  <2> HIDE DEF e
  <2> QED BY <2>1, <2>3, <2>4, PublishKeeps
<1>4. CASE Connect
  <2>1. /\ link.phase = "down" /\ inbox = <<>> /\ inbox' = <<>>
        /\ link' = [phase |-> "shaking", todo |-> Handshake]
        /\ players' = players /\ recorded' = recorded /\ missed' = missed
    BY <1>4 DEF Connect, service, Down
  <2>2. Kept(p) /\ p \in Accounts \ missed
    BY <1>0, <2>1
  <2>3. Saved(p)' = Saved(p)
    BY <1>4 DEF Connect, service, Saved
  <2>4. PICK v \in Views : Way(p, inbox, players[p], v)
    BY <2>2 DEF Kept
  <2>5. CASE recorded[p] # Offline
    <3>1. p \in Owed'
      BY <1>t, <2>1, <2>5, HandshakeReports DEF Owed
    <3>2. Reaches(p, v)'
      BY <2>1, <3>1 DEF Reaches
    <3> QED BY <2>1, <2>4, <2>5, <3>1, <3>2 DEF Kept
  <2>6. CASE recorded[p] = Offline
    <3>1. Way(p, inbox, players[p], Offline) /\ (Saved(p) \/ p \in ClosesIn(inbox))
      BY <2>2, <2>6, OfflineWay
    <3>2. Saved(p)
      BY <2>1, <3>1 DEF ClosesIn
    <3>3. Reaches(p, Offline)' /\ Offline \in Views
      BY <2>1, <2>6 DEF Reaches, Offline, Views, States
    <3> QED BY <2>1, <2>3, <3>1, <3>2, <3>3 DEF Kept
  <2> QED BY <2>5, <2>6
<1>5. CASE Shake
  <2> DEFINE e == Head(link.todo)
  <2>1. /\ link.phase = "shaking" /\ link.todo # <<>> /\ link.todo \in Seq(Events)
        /\ link'.phase = "shaking" /\ link'.todo = Tail(link.todo)
        /\ inbox' = Append(inbox, e) /\ players' = players /\ recorded' = recorded /\ missed' = missed
    BY <1>5, <1>t DEF Shake, service, FeedTyped
  <2>2. /\ e \in Events /\ e = link.todo[1] /\ 1 \in 1..Len(link.todo)
        /\ Len(Tail(link.todo)) = Len(link.todo) - 1
        /\ \A i \in 1..(Len(link.todo) - 1) : Tail(link.todo)[i] = link.todo[i + 1]
    BY <2>1
  <2>3. Kept(p) /\ p \in Accounts \ missed /\ Saved(p)' = Saved(p)
    BY <1>0, <1>5, <2>1 DEF Shake, service, Saved
  <2>4. PICK v \in Views : Way(p, inbox, players[p], v) /\ Reaches(p, v)
    BY <2>3 DEF Kept
  <2>5. /\ Named(p, inbox') <=> Named(p, inbox) \/ e.player = p
        /\ p \in ClosesIn(inbox') <=> p \in ClosesIn(inbox) \/ (e.player = p /\ e.type \in Ends)
    BY <1>t, <2>1, <2>2, <2>3, NamesAppend
  <2> HIDE DEF e
  <2>6. CASE e.player = p
    <3>1. recorded[p] # Offline /\ e = Reports(p, recorded[p])
      BY <1>t, <2>1, <2>2, <2>3, <2>6 DEF Shakes
    <3>2. e.type # "match_updated" /\ e.type # "lobby_closed" /\ Outcome(Offline, e) = recorded[p]
      BY <1>t, <3>1, ReportsType DEF Reports
    <3>3. Leads(e) = recorded[p] /\ Follows(v, e) /\ recorded[p] \in Views
      BY <1>t, <3>2 DEF Leads, Follows, Shown
    <3>4. Way(p, inbox', players'[p], recorded[p])
      BY <1>t, <2>1, <2>2, <2>4, <2>6, <3>3, WayAppend
    <3>5. Reaches(p, recorded[p])'
      BY <2>1 DEF Reaches
    <3> QED BY <2>1, <2>5, <2>6, <3>1, <3>3, <3>4, <3>5 DEF Kept
  <2>7. CASE e.player # p
    <3>1. p \in Owed => p \in Owed'
      <4> SUFFICES ASSUME p \in Owed PROVE p \in Owed'
        OBVIOUS
      <4>1. PICK i \in 1..Len(link.todo) : link.todo[i].player = p
        BY <2>1 DEF Owed
      <4>2. i - 1 \in 1..Len(Tail(link.todo)) /\ Tail(link.todo)[i - 1].player = p
        BY <2>1, <2>2, <2>7, <4>1
      <4> QED BY <2>1, <4>2 DEF Owed
    <3>2. Way(p, inbox', players'[p], v)
      BY <1>t, <2>1, <2>2, <2>4, <2>7, WayAppend
    <3>3. Reaches(p, v)'
      BY <2>1, <2>4, <3>1 DEF Reaches
    <3>4. Saved(p)' \/ Named(p, inbox') \/ p \in Owed'
      BY <2>1, <2>3, <2>5, <3>1 DEF Kept
    <3>5. recorded'[p] = Offline /\ ~Saved(p)' => p \in ClosesIn(inbox')
      BY <2>1, <2>3, <2>5 DEF Kept
    <3> QED BY <3>2, <3>3, <3>4, <3>5 DEF Kept
  <2> QED BY <2>6, <2>7
<1>6. CASE Subscribe
  <2>1. /\ link.phase = "shaking" /\ link.todo = <<>> /\ link' = [link EXCEPT !.phase = "live"]
        /\ inbox' = inbox /\ players' = players /\ recorded' = recorded /\ missed' = missed
    BY <1>6 DEF Subscribe, service
  <2>2. Kept(p) /\ Saved(p)' = Saved(p)
    BY <1>0, <1>6, <2>1 DEF Subscribe, service, Saved
  <2>3. Owed = {} /\ link'.phase = "live"
    BY <1>t, <2>1 DEF Owed, FeedTyped
  <2>4. PICK v \in Views : Way(p, inbox, players[p], v) /\ v = recorded[p]
    BY <2>1, <2>2, <2>3 DEF Kept, Reaches
  <2>5. Reaches(p, v)'
    BY <2>1, <2>3, <2>4 DEF Reaches
  <2>6. Saved(p)' \/ Named(p, inbox')
    BY <2>1, <2>2, <2>3 DEF Kept
  <2>7. recorded'[p] = Offline /\ ~Saved(p)' => p \in ClosesIn(inbox')
    BY <2>1, <2>2 DEF Kept
  <2> QED BY <2>1, <2>4, <2>5, <2>6, <2>7 DEF Kept
<1>7. CASE Handle
  <2> DEFINE e == Head(inbox)
             cur == players[e.player]
  <2>1. /\ writing = NoEvent /\ inbox # <<>> /\ inbox' = Tail(inbox)
        /\ link' = link /\ recorded' = recorded /\ playerState' = playerState /\ missed' = missed
    BY <1>7 DEF Handle, provider
  <2>2. e \in Events /\ e.player \in Accounts
    <3>1. e \in Events
      BY <1>t, <2>1
    <3> QED BY <3>1 DEF Events
  <2>3. Kept(p) /\ Owed' = Owed /\ players \in [Accounts -> Views] /\ p \in Accounts
    BY <1>0, <1>t, <2>1 DEF Owed, FeedTyped
  <2>4. PICK v \in Views : Way(p, inbox, players[p], v) /\ Reaches(p, v)
    BY <2>3 DEF Kept
  <2>5. Reaches(p, v)'
    BY <2>1, <2>3, <2>4 DEF Reaches
  <2>6. \/ /\ e.type # "match_updated"
           /\ players' = [players EXCEPT ![e.player] = Outcome(cur, e)]
           /\ writing' = [player |-> e.player, old |-> cur.state]
        \/ /\ e.type = "match_updated" /\ cur.ref = e.ref
           /\ players' = [players EXCEPT ![e.player].setup = e.setup]
           /\ writing' = [player |-> e.player, old |-> cur.state]
        \/ /\ Graced(cur, e) \/ (e.type = "match_updated" /\ cur.ref # e.ref)
           /\ UNCHANGED <<players, writing>>
    BY <1>7 DEF Handle
  <2> HIDE DEF e
  <2>7. CASE e.player = p
    <3>1. Way(p, Tail(inbox), Leads(e), v) /\ Follows(players[p], e)
      BY <1>t, <2>1, <2>4, <2>7, WayTail DEF e
    <3>2. players'[p] = Leads(e) /\ writing' = [player |-> p, old |-> players[p].state]
      <4>1. players[p] \in Views
        BY <2>3
      <4>2. CASE e.type # "match_updated"
        BY <2>3, <2>6, <2>7, <3>1, <4>2 DEF Follows, Graced, Leads, Outcome
      <4>3. CASE e.type = "match_updated"
        BY <2>3, <2>6, <2>7, <3>1, <4>1, <4>3 DEF Follows, Graced, Leads, Views
      <4> QED BY <4>2, <4>3
    <3>3. writing' # NoEvent
      BY <2>3, <3>2, FeedAssumption DEF Views, States
    <3>4. Saved(p)'
      BY <3>2, <3>3 DEF Saved
    <3> QED BY <2>1, <2>4, <2>5, <3>1, <3>2, <3>4 DEF Kept
  <2>8. CASE e.player # p
    <3>1. players'[p] = players[p] /\ (writing' = NoEvent \/ writing'.player # p)
      BY <2>1, <2>3, <2>6, <2>8
    <3>2. Saved(p)' = Saved(p)
      BY <2>1, <3>1 DEF Saved
    <3>3. Way(p, inbox', players'[p], v)
      BY <1>t, <2>1, <2>4, <2>8, <3>1, WayTail DEF e
    <3>4. /\ Named(p, inbox') <=> Named(p, inbox)
          /\ p \in ClosesIn(inbox') <=> p \in ClosesIn(inbox)
      BY <1>t, <2>1, <2>3, <2>8, NamesTail DEF e
    <3>5. Saved(p)' \/ Named(p, inbox') \/ p \in Owed' \/ (link'.phase = "down" /\ recorded'[p] # Offline)
      BY <2>1, <2>3, <3>2, <3>4 DEF Kept
    <3>6. recorded'[p] = Offline /\ ~Saved(p)' => p \in ClosesIn(inbox')
      BY <2>1, <2>3, <3>2, <3>4 DEF Kept
    <3> QED BY <2>4, <2>5, <3>3, <3>5, <3>6 DEF Kept
  <2> QED BY <2>7, <2>8
<1>8. CASE Written
  <2> DEFINE q == writing.player
  <2>1. /\ writing # NoEvent /\ writing' = NoEvent /\ players' = players /\ inbox' = inbox
        /\ link' = link /\ recorded' = recorded
        /\ \/ playerState' = [playerState EXCEPT ![q] = players[q]] /\ missed' = missed
           \/ playerState' = playerState /\ missed' = missed \cup {q}
    BY <1>8 DEF Written, provider
  <2>2. p \in Accounts \ missed /\ Kept(p) /\ Owed' = Owed
    BY <1>0, <2>1 DEF Owed
  <2>3. Saved(p)' = Saved(p)
    BY <1>t, <2>1, <2>2 DEF Saved, FeedTyped
  <2> QED BY <2>1, <2>2, <2>3, KeptFrame
<1>9. CASE Break
  <2>1. Lost(up, {inbox, <<>>}, {}) /\ {inbox, <<>>} \in SUBSET {inbox, <<>>}
    BY <1>9 DEF Break
  <2>2. players'[p] = players[p] /\ recorded'[p] = recorded[p] /\ Saved(p)' = Saved(p)
    BY <1>9 DEF Break, service, Saved
  <2> QED BY <2>1, <2>2, LossKeeps
<1>10. CASE ProviderDown
  <2> DEFINE S == {q \in Accounts : recorded[q] # Offline}
  <2>1. Lost(FALSE, {inbox, <<>>}, S) /\ {inbox, <<>>} \in SUBSET {inbox, <<>>}
    BY <1>10 DEF ProviderDown
  <2>2. p \notin S
    BY <2>1 DEF Lost
  <2>3. players'[p] = players[p] /\ recorded'[p] = recorded[p] /\ Saved(p)' = Saved(p)
    BY <1>10, <2>2 DEF ProviderDown, service, Saved
  <2> HIDE DEF S
  <2> QED BY <2>1, <2>3, LossKeeps
<1>11. CASE ServiceRestart
  <2> DEFINE S == {q \in Accounts : writing # NoEvent /\ writing.player = q}
  <2>1. Lost(up, {<<>>}, S)
    BY <1>11 DEF ServiceRestart
  <2>2. /\ inbox' = <<>> /\ link'.phase = "down" /\ missed \subseteq missed'
        /\ p \notin S /\ p \notin ClosesIn(inbox)
    <3>1. ClosesIn(<<>>) = {}
      BY DEF ClosesIn
    <3> QED BY <2>1, <3>1 DEF Lost, Down
  <2>3. players'[p] = Offline /\ recorded' = recorded /\ playerState' = playerState /\ Offline \in Views
    BY <1>11 DEF ServiceRestart, Offline, Views, States
  <2>4. Way(p, inbox', players'[p], Offline)
    BY <2>2, <2>3, WayOfNone
  <2>5. Reaches(p, Offline)'
    BY <2>2 DEF Reaches
  <2>6. recorded[p] = Offline => Saved(p)'
    <3> SUFFICES ASSUME recorded[p] = Offline PROVE Saved(p)'
      OBVIOUS
    <3>1. Way(p, inbox, players[p], Offline) /\ Saved(p)
      BY <1>0, <2>2, OfflineWay
    <3>2. players[p] = Offline
      BY <1>t, <2>2, <3>1, WayUnclosed
    <3> QED BY <2>2, <2>3, <3>1, <3>2 DEF Saved
  <2> QED BY <2>2, <2>3, <2>4, <2>5, <2>6 DEF Kept
<1>12. CASE ProviderUp \/ HealthCheck \/ UNCHANGED feedVars
  <2>1. UNCHANGED <<recorded, link, inbox, players, writing, playerState, missed>>
    BY <1>12 DEF ProviderUp, HealthCheck, feedVars, service, provider
  <2> QED BY <1>0, <2>1, KeptFrame DEF Owed, Saved
<1> QED BY <1>1, <1>2, <1>3, <1>4, <1>5, <1>6, <1>7, <1>8, <1>9, <1>10, <1>11, <1>12 DEF FeedNext

\* A consumer that has caught up with a live stream holds the adapter's
\* statuses, in memory and in player_state, and the transitions it queued lead
\* to them: whatever streams were lost and processes restarted before, but for
\* the profiles whose event or write was lost with them.
THEOREM TransitionsFollowStatus == FeedSpec => []TransitionsFollow
<1>1. FeedInv /\ [FeedNext]_feedVars => FeedInv'
  BY FeedTypedStep, FeedToldStep, FeedShakesStep, FeedKeptStep DEF FeedInv
<1>2. FeedInv => TransitionsFollow
  <2> SUFFICES ASSUME FeedInv, writing = NoEvent, link.phase = "live", inbox = <<>>,
                      NEW p \in Accounts \ missed
               PROVE  Mirrors(p)
    BY DEF TransitionsFollow, FeedInv, Told
  <2>1. Way(p, inbox, players[p], recorded[p])
    BY DEF FeedInv, Kept, Reaches
  <2>2. players[p] = recorded[p]
    BY <2>1, WayOfNone DEF FeedInv, FeedTyped
  <2>3. Saved(p)
    BY DEF FeedInv, Kept, Named, Owed
  <2> QED BY <2>2, <2>3 DEF Mirrors, Saved
<1> QED BY <1>1, <1>2, FeedInvInit, PTL DEF FeedSpec
=============================================================================
