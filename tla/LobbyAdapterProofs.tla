------------------------- MODULE LobbyAdapterProofs -------------------------
(***************************************************************************)
(* Theorems about LobbyAdapter, for every finite set of profiles, every    *)
(* set of matches, every number of changes, frames and lost sessions.      *)
(***************************************************************************)
EXTENDS LobbyAdapter, FiniteSetTheorems, TLAPS

-----------------------------------------------------------------------------
(* Maps from matches to payloads, and the queue.                            *)

LEMMA PartialIntro ==
  ASSUME NEW D \in SUBSET Matches, NEW f \in [D -> Payloads]
  PROVE  f \in Partial(Payloads)
BY DEF Partial

LEMMA PartialElim ==
  ASSUME NEW f \in Partial(Payloads)
  PROVE  DOMAIN f \in SUBSET Matches /\ f \in [DOMAIN f -> Payloads]
<1>1. PICK D \in SUBSET Matches : f \in [D -> Payloads]
  BY DEF Partial
<1> QED BY <1>1

\* Restricted and merged maps are maps.
LEMMA PartialRestrict ==
  ASSUME NEW f \in Partial(Payloads), NEW S \in SUBSET DOMAIN f
  PROVE  Restrict(f, S) \in Partial(Payloads)
<1>1. DOMAIN f \in SUBSET Matches /\ f \in [DOMAIN f -> Payloads]
  BY PartialElim
<1>2. Restrict(f, S) \in [S -> Payloads]
  BY <1>1 DEF Restrict
<1> QED BY <1>1, <1>2, PartialIntro

LEMMA PartialMerge ==
  ASSUME NEW f \in Partial(Payloads), NEW g \in Partial(Payloads)
  PROVE  Updated(f, g) \in Partial(Payloads)
<1>1. /\ DOMAIN f \in SUBSET Matches /\ f \in [DOMAIN f -> Payloads]
      /\ DOMAIN g \in SUBSET Matches /\ g \in [DOMAIN g -> Payloads]
  BY PartialElim
<1>2. Updated(f, g) \in [DOMAIN f \cup DOMAIN g -> Payloads]
  BY <1>1 DEF Updated
<1> QED BY <1>1, <1>2, PartialIntro

\* The frames and the other items of a queue.
Items ==
       [kind : {"all"}, ctx : Contexts, snapshot : Partial(Payloads)]
  \cup [kind : {"update"}, ctx : Contexts, changes : Partial(Payloads)]
  \cup [kind : {"remove"}, ctx : Contexts, removed : SUBSET Matches]
  \cup [kind : {"left"}, ctx : Contexts, players : SUBSET Profiles]
  \cup [kind : {"status"}, player : Profiles, pushed : Statuses]
  \cup [kind : {"closed"}, player : Profiles]
  \cup [kind : {"end"}]

\* A finite set as a sequence: its members and nothing else.
LEMMA SetAsSequence ==
  ASSUME NEW S, IsFiniteSet(S)
  PROVE  /\ SetToSeq(S) \in Seq(S)
         /\ \A x \in S : \E i \in 1..Len(SetToSeq(S)) : SetToSeq(S)[i] = x
<1> DEFINE n == Cardinality(S)
           f == SetToSeq(S)
<1>1. n \in Nat /\ ExistsBijection(1..n, S)
  BY FS_CardinalityType
<1>2. PICK g \in [1..n -> S] : IsInjective(g)
  BY <1>1 DEF ExistsBijection, Bijection, Injection
<1>3. f \in [1..n -> S] /\ IsInjective(f)
  BY <1>2 DEF SetToSeq
<1>4. f \in Injection(1..n, S)
  BY <1>3 DEF Injection
<1>5. IsFiniteSet(1..n) /\ Cardinality(1..n) = n
  BY <1>1, FS_Interval
<1>6. f \in Surjection(1..n, S)
  BY <1>4, <1>5, FS_Injection
<1>7. Len(f) = n /\ f \in Seq(S)
  BY <1>1, <1>3
<1> QED BY <1>6, <1>7 DEF Surjection

\* The closes that a sweep queues.
Closes(S) == {[kind |-> "closed", player |-> p] : p \in S}
LEMMA ClosesQueued ==
  ASSUME NEW S \in SUBSET Profiles
  PROVE  LET q == SetToSeq(Closes(S))
         IN  /\ q \in Seq(Items)
             /\ \A i \in 1..Len(q) : q[i].kind = "closed" /\ q[i].player \in S
             /\ \A p \in S : \E i \in 1..Len(q) : q[i] = [kind |-> "closed", player |-> p]
<1> DEFINE f == [p \in S |-> [kind |-> "closed", player |-> p]]
<1>1. IsFiniteSet(S)
  BY LobbyAssumption, FS_Subset
<1>2. f \in Surjection(S, Closes(S))
  BY DEF Surjection, Closes
<1>3. IsFiniteSet(Closes(S))
  BY <1>1, <1>2, FS_Surjection
<1>4. /\ SetToSeq(Closes(S)) \in Seq(Closes(S))
      /\ \A x \in Closes(S) : \E i \in 1..Len(SetToSeq(Closes(S))) : SetToSeq(Closes(S))[i] = x
  BY <1>3, SetAsSequence
<1>5. Closes(S) \subseteq Items
  BY DEF Closes, Items
<1> DEFINE q == SetToSeq(Closes(S))
<1>6. \A i \in 1..Len(q) : q[i] \in Closes(S)
  BY <1>4
<1>7. ASSUME NEW i \in 1..Len(q) PROVE q[i].kind = "closed" /\ q[i].player \in S
  <2> HIDE DEF q
  <2>1. PICK p \in S : q[i] = [kind |-> "closed", player |-> p]
    BY <1>6 DEF Closes
  <2> QED BY <2>1
<1>8. \A p \in S : \E i \in 1..Len(q) : q[i] = [kind |-> "closed", player |-> p]
  BY <1>4 DEF Closes
<1>9. q \in Seq(Items)
  BY <1>4, <1>5
<1> QED BY <1>7, <1>8, <1>9

\* The derived status of a player: a match that has him, or offline.
LEMMA CurrentType ==
  ASSUME NEW M \in [Contexts -> Partial(Payloads)], NEW p \in Profiles
  PROVE  /\ Current(M, p) \in Statuses
         /\ Current(M, p).state = "game" => Current(M, p).ref \in DOMAIN M["spectate"]
         /\ Current(M, p).state = "lobby" => Current(M, p).ref \in DOMAIN M["lobby"]
         /\ Current(M, p) = Offline <=>
              \A c \in Contexts : \A m \in DOMAIN M[c] : p \notin M[c][m].players
         /\ Current(M, p) # Offline => Current(M, p).state \in {"game", "lobby"}
<1> DEFINE found(c) == {m \in DOMAIN M[c] : p \in M[c][m].players}
<1>1. \A c \in Contexts : found(c) \in SUBSET Matches
  BY PartialElim
<1>2. Contexts = {"lobby", "spectate"}
  BY DEF Contexts
<1>3. CASE found("spectate") # {}
  <2>1. PICK m : m = (CHOOSE x \in found("spectate") : TRUE)
    OBVIOUS
  <2>2. m \in found("spectate") /\ Current(M, p) = At("game", m)
    BY <1>3, <2>1 DEF Current
  <2>3. m \in Matches /\ m \in DOMAIN M["spectate"]
    BY <1>1, <1>2, <2>2
  <2> QED BY <1>2, <2>2, <2>3 DEF At, Statuses, Offline
<1>4. CASE found("spectate") = {} /\ found("lobby") # {}
  <2>1. PICK m : m = (CHOOSE x \in found("lobby") : TRUE)
    OBVIOUS
  <2>2. m \in found("lobby") /\ Current(M, p) = At("lobby", m)
    BY <1>4, <2>1 DEF Current
  <2>3. m \in Matches /\ m \in DOMAIN M["lobby"]
    BY <1>1, <1>2, <2>2
  <2> QED BY <1>2, <2>2, <2>3 DEF At, Statuses, Offline
<1>5. CASE found("spectate") = {} /\ found("lobby") = {}
  <2>1. Current(M, p) = Offline
    BY <1>5 DEF Current
  <2> QED BY <1>2, <1>5, <2>1 DEF At, Statuses, Offline
<1> QED BY <1>3, <1>4, <1>5

-----------------------------------------------------------------------------
(* Types.                                                                   *)

Reported == [state : {"offline", "lobby", "game"}, ref : Matches \cup {NoMatch}, setup : 0..1]

\* The types, with those of the queue.
Typed ==
  /\ world \in [Matches -> [phase : Phases, players : SUBSET Profiles, setup : 0..1]]
  /\ matches \in [Contexts -> Partial(Payloads)] /\ fp \in [Contexts -> Partial(Payloads)]
  /\ status \in [Profiles -> Statuses]
  /\ closing \in [Profiles -> {"no", "waiting", "due"}]
  /\ wire \in Wires /\ left \subseteq Profiles
  /\ subscribed \subseteq Profiles /\ online \in BOOLEAN
  /\ told \in [Profiles -> Reported]
  /\ queue \in Seq(Items)

LEMMA ReduceTypes ==
  ASSUME Typed, NEW M \in [Contexts -> Partial(Payloads)], NEW touched, Reduce(M, touched)
  PROVE  /\ status' \in [Profiles -> Statuses]
         /\ closing' \in [Profiles -> {"no", "waiting", "due"}]
         /\ told' \in [Profiles -> Reported]
<1> USE DEF Typed
<1> DEFINE now == [p \in Profiles |-> Current(M, p)]
           hit == ProfilesOf(touched) \cap subscribed
           seen(p) == [state |-> now[p].state, ref |-> now[p].ref,
                       setup |-> M[IF now[p].state = "game" THEN "spectate" ELSE "lobby"][now[p].ref].setup]
<1>1. ASSUME NEW p \in Profiles
      PROVE  /\ now[p] \in Statuses
             /\ now[p] # Offline => seen(p) \in Reported
  <2>1. /\ now[p] \in Statuses
        /\ now[p].state = "game" => now[p].ref \in DOMAIN M["spectate"]
        /\ now[p].state = "lobby" => now[p].ref \in DOMAIN M["lobby"]
        /\ now[p] # Offline => now[p].state \in {"game", "lobby"}
    BY CurrentType
  <2>2. \A c \in Contexts : M[c] \in [DOMAIN M[c] -> Payloads]
    BY PartialElim
  <2> HIDE DEF now
  <2>3. ASSUME NEW c \in Contexts, NEW m \in DOMAIN M[c] PROVE M[c][m].setup \in 0..1
    <3>1. M[c][m] \in Payloads
      BY <2>2
    <3> QED BY <3>1 DEF Payloads
  <2>4. ASSUME now[p] # Offline
        PROVE  M[IF now[p].state = "game" THEN "spectate" ELSE "lobby"][now[p].ref].setup \in 0..1
    BY <2>1, <2>3, <2>4 DEF Contexts
  <2> QED BY <2>1, <2>4 DEF Statuses, Reported
<1>2. status' = [p \in Profiles |-> IF p \in hit THEN Recorded(p, now[p]) ELSE status[p]]
  BY DEF Reduce
<1>3. closing' = [p \in Profiles |->
           IF p \notin hit \/ (now[p] = Offline /\ status[p] = Offline) THEN closing[p]
           ELSE IF now[p] = Offline THEN "waiting" ELSE "no"]
  BY DEF Reduce
<1>4. \A p \in Profiles : told'[p] = told[p] \/ (now[p] # Offline /\ told'[p] = seen(p))
  BY DEF Reduce
<1>5. told' = [p \in Profiles |-> told'[p]]
  BY DEF Reduce
<1> HIDE DEF now, seen, hit
<1>6. \A p \in Profiles : told'[p] \in Reported
  BY <1>1, <1>4
<1>7. \A p \in Profiles : Recorded(p, now[p]) \in Statuses
  BY <1>1 DEF Recorded
<1> QED BY <1>1, <1>2, <1>3, <1>5, <1>6, <1>7

\* What the server sends, from a world that is well typed.
LEMMA SentTypes ==
  ASSUME Typed
  PROVE  /\ \A m \in Matches : Payload(m) \in Payloads
         /\ \A c \in Contexts : Snapshot(c) \in Partial(Payloads)
         /\ \A p \in Profiles : Truth(p) \in Statuses
<1>1. \A m \in Matches : Payload(m) \in Payloads
  BY DEF Typed, Payload, Payloads
<1>2. ASSUME NEW c \in Contexts PROVE Snapshot(c) \in Partial(Payloads)
  <2>1. In(c) \in SUBSET Matches
    BY DEF In
  <2>2. Snapshot(c) \in [In(c) -> Payloads]
    BY <1>1, <2>1 DEF Snapshot
  <2> QED BY <2>1, <2>2, PartialIntro
<1>3. ASSUME NEW p \in Profiles PROVE Truth(p) \in Statuses
  BY DEF Truth, In, At, Offline, Statuses
<1> QED BY <1>1, <1>2, <1>3

LEMMA TypedInit == Init => Typed
<1> SUFFICES ASSUME Init PROVE Typed
  OBVIOUS
<1>1. Empty \in [{} -> Payloads] /\ {} \in SUBSET Matches
  BY DEF Empty
<1>2. Empty \in Partial(Payloads)
  BY <1>1, PartialIntro
<1> QED BY <1>2, LobbyAssumption DEF Init, Typed, Phases, Statuses, Offline, At, Reported

LEMMA TypedStep == Typed /\ [Next]_vars => Typed'
<1> SUFFICES ASSUME Typed, [Next]_vars PROVE Typed'
  OBVIOUS
<1> USE DEF Typed
<1>o. Offline \in Statuses
  BY DEF Offline, At, Statuses
<1>w. ASSUME NEW m \in Matches, NEW x \in [phase : Phases, players : SUBSET Profiles, setup : 0..1],
             Changes(m, x), left' \subseteq Profiles
      PROVE  Typed'
  BY <1>w DEF Changes, reducer
<1>1. CASE WorldMoves
  <2>1. ASSUME NEW m \in Matches, NEW p \in Profiles, Open(m, p) \/ Join(m, p) \/ Leave(m, p)
        PROVE  Typed'
    <3>1. CASE Open(m, p)
      BY <1>w, <3>1 DEF Open, Becomes, Phases
    <3>2. CASE Join(m, p)
      <4>1. [world[m] EXCEPT !.players = @ \cup {p}] \in [phase : Phases, players : SUBSET Profiles, setup : 0..1]
        OBVIOUS
      <4> QED BY <1>w, <3>2, <4>1 DEF Join, Becomes
    <3>3. CASE Leave(m, p)
      <4>1. [world[m] EXCEPT !.players = @ \ {p}] \in [phase : Phases, players : SUBSET Profiles, setup : 0..1]
        OBVIOUS
      <4> QED BY <1>w, <3>3, <4>1 DEF Leave
    <3> QED BY <2>1, <3>1, <3>2, <3>3
  <2>2. ASSUME NEW m \in Matches, Setup(m) \/ Launch(m) \/ Started(m) \/ Over(m)
        PROVE  Typed'
    <3>1. /\ [world[m] EXCEPT !.setup = 1 - @] \in [phase : Phases, players : SUBSET Profiles, setup : 0..1]
          /\ \A ph \in Phases : [world[m] EXCEPT !.phase = ph] \in [phase : Phases, players : SUBSET Profiles, setup : 0..1]
      OBVIOUS
    <3>2. {"launching", "game", "over"} \subseteq Phases
      BY DEF Phases
    <3> QED BY <1>w, <2>2, <3>1, <3>2 DEF Setup, Launch, Started, Over, Becomes
  <2> QED BY <1>1, <2>1, <2>2 DEF WorldMoves
<1>2. CASE Wire
  <2>a. ASSUME NEW item \in Items, Arrives(item) PROVE Typed'
    BY <2>a DEF Arrives, external, reducer
  <2>1. ASSUME NEW c \in Contexts, Answer(c) PROVE Typed'
    <3>1. [kind |-> "all", ctx |-> c, snapshot |-> Snapshot(c)] \in Items
      BY SentTypes DEF Items
    <3> QED BY <2>1, <2>a, <3>1 DEF Answer
  <2>2. ASSUME NEW c \in Contexts, NEW m \in Matches, PushUpdate(c, m) PROVE Typed'
    <3>1. [x \in {m} |-> Payload(x)] \in [{m} -> Payloads] /\ {m} \in SUBSET Matches
      BY SentTypes
    <3>2. [x \in {m} |-> Payload(x)] \in Partial(Payloads)
      BY <3>1, PartialIntro
    <3>3. [kind |-> "update", ctx |-> c, changes |-> [x \in {m} |-> Payload(x)]] \in Items
      BY <3>2 DEF Items
    <3> QED BY <2>2, <2>a, <3>3 DEF PushUpdate
  <2>3. ASSUME NEW c \in Contexts, NEW m \in Matches, PushRemove(c, m) PROVE Typed'
    <3>1. [kind |-> "remove", ctx |-> c, removed |-> {m}] \in Items
      BY DEF Items
    <3> QED BY <2>3, <2>a, <3>1 DEF PushRemove
  <2>4. ASSUME NEW c \in Contexts, NEW p \in Profiles, PushLeft(c, p) PROVE Typed'
    <3>1. [kind |-> "left", ctx |-> c, players |-> {p}] \in Items
      BY DEF Items
    <3> QED BY <2>4, <2>a, <3>1 DEF PushLeft
  <2>5. ASSUME NEW p \in Profiles, PushStatus(p) PROVE Typed'
    <3>1. [kind |-> "status", player |-> p, pushed |-> Truth(p)] \in Items
      BY SentTypes DEF Items
    <3> QED BY <2>5, <2>a, <3>1 DEF PushStatus
  <2>6. CASE ServerCloses
    <3>1. [kind |-> "end"] \in Items
      BY DEF Items
    <3> QED BY <2>6, <3>1 DEF ServerCloses, external, reducer
  <2> QED BY <1>2, <2>1, <2>2, <2>3, <2>4, <2>5, <2>6 DEF Wire
<1>3. CASE HandleFrame
  <2> DEFINE f == Head(queue)
  <2>1. queue # <<>> /\ queue' = Tail(queue)
    BY <1>3 DEF HandleFrame
  <2>2. f \in Items /\ queue' \in Seq(Items)
    BY <2>1
  <2>3. UNCHANGED <<world, wire, left, online, subscribed>>
    BY <1>3 DEF HandleFrame, external
  <2> HIDE DEF f
  <2>4. CASE f.kind = "all" /\ ApplySnapshot(f.ctx, f.snapshot)
    <3>1. f.ctx \in Contexts /\ f.snapshot \in Partial(Payloads)
      BY <2>2, <2>4 DEF Items
    <3>2. /\ [matches EXCEPT ![f.ctx] = f.snapshot] \in [Contexts -> Partial(Payloads)]
          /\ [fp EXCEPT ![f.ctx] = f.snapshot] \in [Contexts -> Partial(Payloads)]
      BY <3>1
    <3> QED BY <2>2, <2>3, <2>4, <3>2, ReduceTypes DEF ApplySnapshot
  <2>5. CASE f.kind = "update" /\ ApplyUpdates(f.ctx, f.changes)
    <3>1. f.ctx \in Contexts /\ f.changes \in Partial(Payloads)
      BY <2>2, <2>5 DEF Items
    <3>2. Updated(f.changes, matches[f.ctx]) \in Partial(Payloads)
      BY <3>1, PartialMerge
    <3>3. [matches EXCEPT ![f.ctx] = Updated(f.changes, @)] \in [Contexts -> Partial(Payloads)]
      BY <3>1, <3>2
    <3> DEFINE changed == {m \in DOMAIN f.changes : Differs(f.ctx, m, f.changes[m])}
    <3>4. Restrict(f.changes, changed) \in Partial(Payloads)
      BY <3>1, PartialRestrict
    <3>5. Updated(Restrict(f.changes, changed), fp[f.ctx]) \in Partial(Payloads)
      BY <3>1, <3>4, PartialMerge
    <3>6. [fp EXCEPT ![f.ctx] = Updated(Restrict(f.changes, changed), @)] \in [Contexts -> Partial(Payloads)]
      BY <3>1, <3>5
    <3> QED BY <2>2, <2>3, <2>5, <3>3, <3>6, ReduceTypes DEF ApplyUpdates
  <2>6. CASE f.kind = "remove" /\ ApplyRemoves(f.ctx, f.removed)
    <3>1. f.ctx \in Contexts
      BY <2>2, <2>6 DEF Items
    <3>2. Restrict(matches[f.ctx], DOMAIN matches[f.ctx] \ f.removed) \in Partial(Payloads)
      BY <3>1, PartialRestrict
    <3>3. [matches EXCEPT ![f.ctx] = Restrict(@, DOMAIN @ \ f.removed)] \in [Contexts -> Partial(Payloads)]
      BY <3>1, <3>2
    <3> QED BY <2>2, <2>3, <2>6, <3>3, ReduceTypes DEF ApplyRemoves
  <2>7. CASE f.kind = "left" /\ ApplyPlayerRemoves(f.players)
    BY <2>2, <2>3, <2>7 DEF ApplyPlayerRemoves
  <2>8. CASE f.kind = "status" /\ ApplyStatus(f.player, f.pushed)
    <3>1. f.player \in Profiles /\ f.pushed \in Statuses
      BY <2>2, <2>8 DEF Items
    <3>2. Recorded(f.player, f.pushed) \in Statuses
      BY <3>1 DEF Recorded
    <3>3. [state |-> f.pushed.state, ref |-> f.pushed.ref, setup |-> told[f.player].setup] \in Reported
      BY <3>1 DEF Reported, Statuses
    <3>4. /\ status' \in [Profiles -> Statuses]
          /\ closing' \in [Profiles -> {"no", "waiting", "due"}]
          /\ matches' = matches /\ fp' = fp
      BY <2>8, <3>1, <3>2 DEF ApplyStatus
    <3>5. told' = told \/ told' = [told EXCEPT ![f.player] = [state |-> f.pushed.state, ref |-> f.pushed.ref, setup |-> @.setup]]
      BY <2>8 DEF ApplyStatus
    <3>6. told' \in [Profiles -> Reported]
      BY <3>1, <3>3, <3>5
    <3> QED BY <2>2, <2>3, <3>4, <3>6
  <2> QED BY <1>3, <2>4, <2>5, <2>6, <2>7, <2>8 DEF HandleFrame, f
<1>4. CASE HandleClose
  <2>1. queue # <<>> /\ queue' = Tail(queue) /\ Head(queue).kind = "closed"
    BY <1>4 DEF HandleClose
  <2>2. Head(queue) \in Items /\ queue' \in Seq(Items)
    BY <2>1
  <2>3. Head(queue).player \in Profiles
    BY <2>1, <2>2 DEF Items
  <2>4. told' = [told EXCEPT ![Head(queue).player].state = "offline", ![Head(queue).player].ref = NoMatch]
    BY <1>4 DEF HandleClose
  <2>5. told' \in [Profiles -> Reported]
    BY <2>3, <2>4 DEF Reported
  <2> QED BY <1>4, <2>2, <2>5 DEF HandleClose, external
<1>5. CASE HandleEnd
  <2>1. <<>> \in Seq(Items)
    OBVIOUS
  <2> QED BY <1>5, <2>1 DEF HandleEnd, external, reducer
<1>6. CASE Reconnect
  BY <1>6 DEF Reconnect, external, reducer
<1>7. ASSUME NEW p \in Profiles, GraceElapses(p) PROVE Typed'
  BY <1>7 DEF GraceElapses, external
<1>8. CASE Sweep
  <2>1. Gone \in SUBSET Profiles
    BY DEF Gone
  <2>2. queue' = queue \o SetToSeq(Closes(Gone))
    BY <1>8 DEF Sweep, Closes
  <2>3. SetToSeq(Closes(Gone)) \in Seq(Items)
    BY <2>1, ClosesQueued
  <2>4. queue' \in Seq(Items)
    BY <2>2, <2>3
  <2>5. \A p \in Profiles : Current(matches, p) \in Statuses
    BY CurrentType
  <2> QED BY <1>8, <1>o, <2>4, <2>5 DEF Sweep, external
<1>9. ASSUME NEW S \in SUBSET Profiles, Subscribe(S) PROVE Typed'
  BY <1>9 DEF Subscribe, external, reducer
<1>10. CASE UNCHANGED vars
  BY <1>10 DEF vars, external, reducer
<1> QED BY <1>1, <1>2, <1>3, <1>4, <1>5, <1>6, <1>7, <1>8, <1>9, <1>10 DEF Next, Session

\* Every variable of the adapter keeps its type, on every wire.
THEOREM TypeCorrect == Spec => []TypeOK
<1>1. Typed => TypeOK
  <2> SUFFICES ASSUME Typed PROVE TypeOK
    OBVIOUS
  <2>1. \A p \in Profiles : At(told[p].state, told[p].ref) \in Statuses /\ told[p].setup \in 0..1
    BY DEF Typed, Reported, At, Statuses
  <2> QED BY <2>1 DEF Typed, TypeOK
<1> QED BY <1>1, TypedInit, TypedStep, PTL DEF Spec

-----------------------------------------------------------------------------
(* No departure is invented.                                                *)

\* A status becomes offline only in a sweep that finds its player due and in
\* no known match: on every wire, whatever the server sends or leaves out.
THEOREM DeparturesAreSeen == Spec => NoFalseOffline
<1> DEFINE Falls(p) ==
      status'[p] = Offline /\ status[p] # Offline => Current(matches, p) = Offline /\ closing[p] = "due"
<1>1. ASSUME Typed, [Next]_vars, NEW p \in Profiles PROVE Falls(p)
  <2>0. CASE status' = status
    BY <2>0
  <2>1. CASE Sweep
    <3>1. status'[p] = IF closing[p] # "due" THEN status[p]
                       ELSE IF p \in Gone THEN Offline ELSE Current(matches, p)
      BY <2>1 DEF Sweep
    <3> QED BY <3>1 DEF Gone
  <2>2. CASE HandleFrame
    <3>1. ASSUME NEW M, NEW touched, Reduce(M, touched) PROVE Falls(p)
      <4>1. status'[p] = Recorded(p, Current(M, p)) \/ status'[p] = status[p]
        BY <3>1 DEF Reduce
      <4> QED BY <4>1 DEF Recorded
    <3>2. ASSUME NEW q, NEW s, ApplyStatus(q, s) PROVE Falls(p)
      <4>1. status' = status \/ status' = [status EXCEPT ![q] = Recorded(q, s)]
        BY <3>2 DEF ApplyStatus
      <4>2. status'[p] = status[p] \/ (q = p /\ status'[p] = Recorded(q, s))
        BY <1>1, <4>1 DEF Typed
      <4> QED BY <4>2 DEF Recorded
    <3> QED BY <2>0, <2>2, <3>1, <3>2
            DEF HandleFrame, ApplySnapshot, ApplyUpdates, ApplyRemoves, ApplyPlayerRemoves
  <2>3. ~Sweep /\ ~HandleFrame => status' = status
    BY <1>1 DEF Next, vars, reducer, WorldMoves, Wire, Session, Open, Join, Leave, Setup, Launch, Started,
                Over, Becomes, Changes, Answer, PushUpdate, PushRemove, PushLeft, PushStatus,
                ServerCloses, Arrives, HandleClose, HandleEnd, Reconnect, GraceElapses, Subscribe
  <2> QED BY <2>0, <2>1, <2>2, <2>3
<1>2. Typed /\ [Next]_vars => [\A p \in Profiles : Falls(p)]_vars
  BY <1>1
<1> QED BY <1>2, TypedInit, TypedStep, PTL DEF Spec, NoFalseOffline

-----------------------------------------------------------------------------
(* The stream of events tells what is recorded.                             *)

Queued(p) == \E i \in 1..Len(queue) : queue[i] = [kind |-> "closed", player |-> p]

\* Without a backlog the queue holds one frame, the end, or the closes of one
\* sweep, whose players are recorded offline.
Line ==
  \/ queue = <<>>
  \/ Len(queue) = 1 /\ queue[1].kind \in {"all", "end"}
  \/ \A i \in 1..Len(queue) : queue[i].kind = "closed" /\ status[queue[i].player] = Offline

\* A window is a subscribed player's, open only while no known match has him.
Windows == \A p \in Profiles : closing[p] # "no" => p \in subscribed /\ Current(matches, p) = Offline

ToldParts(p) ==
  /\ At(told[p].state, told[p].ref) = status[p] \/ Queued(p)
  /\ p \in subscribed => \A m \in DOMAIN matches["lobby"] :
       At(told[p].state, told[p].ref) = At("lobby", m) /\ p \in matches["lobby"][m].players
         => told[p].setup = matches["lobby"][m].setup

ToldInv == ~Free => fp = matches /\ Line /\ Windows /\ \A p \in Profiles : ToldParts(p)

LEMMA ToldInit == Init => ToldInv
<1> SUFFICES ASSUME Init PROVE ToldInv
  OBVIOUS
<1>1. fp = matches /\ queue = <<>> /\ \A p \in Profiles : closing[p] = "no"
  BY DEF Init
<1>2. matches["lobby"] = Empty /\ DOMAIN Empty = {}
  BY DEF Init, Contexts, Empty
<1>3. \A p \in Profiles : At(told[p].state, told[p].ref) = status[p]
  BY DEF Init, Offline, At
<1> QED BY <1>1, <1>2, <1>3 DEF ToldInv, Line, Windows, ToldParts

\* A snapshot: the frame at the head, with nothing behind it.
LEMMA SnapshotTold ==
  ASSUME Typed, ToldInv, ~Free, NEW c \in Contexts, NEW snap \in Partial(Payloads),
         ApplySnapshot(c, snap), \A p \in Profiles : ~Queued(p),
         queue' = <<>>, UNCHANGED <<wire, subscribed>>
  PROVE  ToldInv'
<1> DEFINE touched == [m \in Stale(c, snap) \cup {n \in DOMAIN snap : Differs(c, n, snap[n])} |->
                         IF m \in DOMAIN snap THEN snap[m] ELSE matches[c][m]]
           M == [matches EXCEPT ![c] = snap]
           hit == ProfilesOf(touched) \cap subscribed
           now == [p \in Profiles |-> Current(M, p)]
           updated(p) == /\ now[p] = status[p] /\ now[p].state = "lobby" /\ now[p].ref \in DOMAIN touched
                         /\ p \in touched[now[p].ref].players
           seen(p) == [state |-> now[p].state, ref |-> now[p].ref,
                       setup |-> M[IF now[p].state = "game" THEN "spectate" ELSE "lobby"][now[p].ref].setup]
<1>1. matches' = M /\ fp' = [fp EXCEPT ![c] = snap] /\ Reduce(M, touched)
  BY DEF ApplySnapshot
<1>2. fp = matches /\ Windows /\ \A p \in Profiles : ToldParts(p)
  BY DEF ToldInv
<1>3. /\ M \in [Contexts -> Partial(Payloads)] /\ M[c] = snap
      /\ \A d \in Contexts \ {c} : M[d] = matches[d]
  BY DEF Typed
<1>4. \A p \in Profiles : status'[p] = IF p \in hit THEN Recorded(p, now[p]) ELSE status[p]
  BY <1>1 DEF Reduce
<1>5. \A p \in Profiles :
        closing'[p] = IF p \notin hit \/ (now[p] = Offline /\ status[p] = Offline) THEN closing[p]
                      ELSE IF now[p] = Offline THEN "waiting" ELSE "no"
  BY <1>1 DEF Reduce
<1>6. \A p \in Profiles :
        told'[p] = IF p \notin hit \/ now[p] = Offline \/ (now[p] = status[p] /\ ~updated(p)) THEN told[p]
                   ELSE seen(p)
  BY <1>1 DEF Reduce
\* A match of the new payloads that a player was not told of is touched.
<1>7. ASSUME NEW m \in DOMAIN snap,
             ~(m \in DOMAIN matches[c] /\ matches[c][m] = snap[m])
      PROVE  m \in DOMAIN touched /\ touched[m] = snap[m]
  BY <1>2, <1>7 DEF Differs
<1>8. \A p \in Profiles :
        /\ now[p] \in Statuses
        /\ now[p].state = "lobby" => now[p].ref \in DOMAIN M["lobby"]
        /\ now[p] = Offline <=> \A d \in Contexts : \A m \in DOMAIN M[d] : p \notin M[d][m].players
        /\ now[p] # Offline => now[p].state \in {"game", "lobby"}
  BY <1>3, CurrentType
<1>9. \A p \in Profiles :
        Current(matches, p) = Offline <=>
          \A d \in Contexts : \A m \in DOMAIN matches[d] : p \notin matches[d][m].players
  BY CurrentType DEF Typed
<1>10. \A p \in Profiles : now[p] = Current(matches', p)
  BY <1>1
<1>11. \A m \in DOMAIN touched : \A p \in subscribed : p \in touched[m].players => p \in hit
  BY DEF ProfilesOf
<1>12. {"lobby", "spectate"} = Contexts /\ subscribed \subseteq Profiles
  BY DEF Contexts, Typed
<1> HIDE DEF touched, M, hit, now
<1>13. Windows'
  <2> SUFFICES ASSUME NEW p \in Profiles, closing'[p] # "no"
               PROVE  p \in subscribed /\ now[p] = Offline
    BY <1>10 DEF Windows
  <2>1. CASE p \in hit
    BY <1>5, <2>1 DEF hit
  <2>2. CASE p \notin hit
    <3>1. closing[p] # "no" /\ p \in subscribed
      BY <1>2, <1>5, <2>2 DEF Windows
    <3>2. \A d \in Contexts : \A m \in DOMAIN matches[d] : p \notin matches[d][m].players
      BY <1>2, <1>9, <3>1 DEF Windows
    <3>3. ASSUME NEW m \in DOMAIN snap PROVE p \notin snap[m].players
      BY <1>7, <1>11, <2>2, <3>1, <3>2
    <3>4. \A d \in Contexts : \A m \in DOMAIN M[d] : p \notin M[d][m].players
      BY <1>3, <3>2, <3>3
    <3> QED BY <1>8, <3>1, <3>4
  <2> QED BY <2>1, <2>2
<1>14. ASSUME NEW p \in Profiles PROVE ToldParts(p)'
  <2>1. At(told[p].state, told[p].ref) = status[p]
    BY <1>2 DEF ToldParts
  <2>2. now[p] \in Statuses
    BY <1>8
  <2>3. now[p] = At(now[p].state, now[p].ref)
    BY <2>2 DEF At, Statuses
  <2>4. At(told'[p].state, told'[p].ref) = status'[p]
    <3>1. CASE p \notin hit \/ now[p] = Offline \/ (now[p] = status[p] /\ ~updated(p))
      <4>1. told'[p] = told[p] /\ status'[p] = status[p]
        BY <1>4, <1>6, <3>1 DEF Recorded
      <4> QED BY <2>1, <4>1
    <3>2. CASE p \in hit /\ now[p] # Offline /\ ~(now[p] = status[p] /\ ~updated(p))
      <4>1. told'[p] = seen(p) /\ status'[p] = now[p]
        BY <1>4, <1>6, <3>2 DEF Recorded
      <4> QED BY <2>3, <4>1
    <3> QED BY <3>1, <3>2
  <2>5. ASSUME p \in subscribed, NEW m \in DOMAIN M["lobby"], p \in M["lobby"][m].players,
               At(told'[p].state, told'[p].ref) = At("lobby", m)
        PROVE  told'[p].setup = M["lobby"][m].setup
    <3>1. now[p] # Offline
      BY <1>8, <1>12, <2>5
    <3>2. CASE told'[p] = seen(p)
      <4>1. now[p].state = "lobby" /\ now[p].ref = m
        BY <2>5, <3>2 DEF At
      <4> QED BY <3>2, <4>1
    <3>3. CASE told'[p] = told[p] /\ m \in DOMAIN matches["lobby"] /\ matches["lobby"][m] = M["lobby"][m]
      BY <1>2, <2>5, <3>3 DEF ToldParts
    <3>4. CASE told'[p] # seen(p) /\ ~(m \in DOMAIN matches["lobby"] /\ matches["lobby"][m] = M["lobby"][m])
      <4>1. c = "lobby" /\ m \in DOMAIN snap /\ M["lobby"] = snap
        BY <1>3, <1>12, <2>5, <3>4
      <4>2. m \in DOMAIN touched /\ touched[m] = snap[m]
        BY <1>7, <3>4, <4>1
      <4>3. p \in hit
        BY <1>11, <2>5, <4>1, <4>2
      <4>4. now[p] = status[p] /\ ~updated(p) /\ told'[p] = told[p]
        BY <1>6, <3>1, <3>4, <4>3
      <4>5. now[p].state = "lobby" /\ now[p].ref = m
        BY <2>1, <2>3, <2>5, <4>4 DEF At
      <4> QED BY <2>5, <4>1, <4>2, <4>4, <4>5
    <3>5. told'[p] = seen(p) \/ told'[p] = told[p]
      BY <1>6
    <3> QED BY <3>2, <3>3, <3>4, <3>5
  <2> QED BY <1>1, <2>4, <2>5 DEF ToldParts
<1>15. fp' = matches'
  BY <1>1, <1>2 DEF M
<1>16. Line'
  BY DEF Line
<1> QED BY <1>13, <1>14, <1>15, <1>16 DEF ToldInv

LEMMA ToldStep == Typed /\ ToldInv /\ [Next]_vars => ToldInv'
<1> SUFFICES ASSUME Typed, ToldInv, [Next]_vars, ~Free PROVE ToldInv'
  <2>1. ASSUME [Next]_vars PROVE wire' = wire
    <3>1. WorldMoves => wire' = wire
      BY DEF WorldMoves, Open, Join, Leave, Setup, Launch, Started, Over, Becomes, Changes
    <3>2. Wire => wire' = wire
      BY DEF Wire, Answer, PushUpdate, PushRemove, PushLeft, PushStatus, ServerCloses, Arrives, external
    <3>3. Session \/ Sweep => wire' = wire
      BY DEF Session, HandleFrame, HandleClose, HandleEnd, Reconnect, Sweep, external
    <3>4. /\ \A p \in Profiles : GraceElapses(p) => wire' = wire
          /\ \A S \in SUBSET Profiles : Subscribe(S) => wire' = wire
      BY DEF GraceElapses, Subscribe, external
    <3> QED BY <2>1, <3>1, <3>2, <3>3, <3>4 DEF Next, vars, external
  <2> QED BY <2>1 DEF ToldInv, Free
<1>i. fp = matches /\ Line /\ Windows /\ \A p \in Profiles : ToldParts(p)
  BY DEF ToldInv
<1>q. queue \in Seq(Items)
  BY DEF Typed
<1>r. UNCHANGED <<wire, reducer, subscribed, queue>> => ToldInv'
  BY <1>i DEF ToldInv, reducer, Line, Windows, ToldParts, Queued
\* Something reaches an empty queue.
<1>a. ASSUME queue = <<>>, NEW item, item.kind \in {"all", "end"}, queue' = Append(queue, item),
             UNCHANGED <<wire, reducer, subscribed>>
      PROVE  ToldInv'
  <2>1. Len(queue') = 1 /\ queue'[1] = item
    BY <1>a
  <2>2. Line'
    BY <1>a, <2>1 DEF Line
  <2>3. \A p \in Profiles : ~Queued(p)
    BY <1>a DEF Queued
  <2>4. \A p \in Profiles : ToldParts(p)'
    BY <1>a, <1>i, <2>3 DEF ToldParts, reducer
  <2>5. Windows' /\ fp' = matches'
    BY <1>a, <1>i DEF Windows, reducer
  <2> QED BY <2>2, <2>4, <2>5 DEF ToldInv
<1>1. CASE WorldMoves \/ Reconnect \/ UNCHANGED vars
  BY <1>1, <1>r DEF WorldMoves, Open, Join, Leave, Setup, Launch, Started, Over, Becomes, Changes,
                    Reconnect, vars, external
<1>2. CASE Wire
  <2>1. ASSUME NEW c \in Contexts, Answer(c) PROVE ToldInv'
    BY <1>a, <2>1 DEF Answer, Arrives, Ready, external
  <2>2. CASE ServerCloses
    BY <1>a, <2>2 DEF ServerCloses, Ready, external
  <2> QED BY <1>2, <2>1, <2>2 DEF Wire, PushUpdate, PushRemove, PushLeft, PushStatus
<1>3. CASE HandleFrame
  <2>1. queue # <<>> /\ Head(queue) = queue[1] /\ queue[1] \in Items /\ 1 \in 1..Len(queue)
    BY <1>3, <1>q DEF HandleFrame
  <2>2. Len(queue) = 1 /\ queue[1].kind = "all"
    BY <1>3, <1>i, <2>1 DEF HandleFrame, Line
  <2>3. queue' = <<>>
    BY <1>3, <1>q, <2>1, <2>2 DEF HandleFrame
  <2>4. /\ ApplySnapshot(queue[1].ctx, queue[1].snapshot)
        /\ UNCHANGED <<wire, subscribed>>
    BY <1>3, <2>1, <2>2 DEF HandleFrame, external
  <2>5. queue[1].ctx \in Contexts /\ queue[1].snapshot \in Partial(Payloads)
    BY <2>1, <2>2 DEF Items
  <2>6. \A p \in Profiles : ~Queued(p)
    BY <2>2 DEF Queued
  <2> QED BY <2>3, <2>4, <2>5, <2>6, SnapshotTold
<1>4. CASE HandleClose
  <2> DEFINE q == queue[1].player
  <2>1. queue # <<>> /\ Head(queue) = queue[1] /\ queue[1] \in Items /\ 1 \in 1..Len(queue)
    BY <1>4, <1>q DEF HandleClose
  <2>2. queue[1].kind = "closed" /\ q \in Profiles
    BY <1>4, <2>1 DEF HandleClose, Items
  <2>3. \A i \in 1..Len(queue) : queue[i].kind = "closed" /\ status[queue[i].player] = Offline
    BY <1>i, <2>1, <2>2 DEF Line
  <2>4. /\ queue' = Tail(queue) /\ UNCHANGED <<wire, matches, fp, status, closing, subscribed>>
        /\ told' = [told EXCEPT ![q].state = "offline", ![q].ref = NoMatch]
    BY <1>4, <2>1 DEF HandleClose, external
  <2>5. /\ Len(queue') = Len(queue) - 1 /\ Len(queue) \in Nat \ {0}
        /\ \A i \in 1..Len(queue') : queue'[i] = queue[i + 1] /\ i + 1 \in 1..Len(queue)
    BY <1>q, <2>1, <2>4
  <2>6. Line'
    BY <2>3, <2>4, <2>5 DEF Line
  <2>7. ASSUME NEW p \in Profiles PROVE ToldParts(p)'
    <3>1. CASE p = q
      <4>1. told'[p].state = "offline" /\ told'[p].ref = NoMatch
        BY <2>2, <2>4, <3>1 DEF Typed, Reported
      <4>2. status'[p] = Offline
        BY <2>1, <2>3, <2>4, <3>1
      <4> QED BY <4>1, <4>2 DEF ToldParts, Offline, At
    <3>2. CASE p # q
      <4>1. told'[p] = told[p]
        BY <2>2, <2>4, <3>2 DEF Typed
      <4>2. Queued(p) => Queued(p)'
        <5> SUFFICES ASSUME Queued(p) PROVE Queued(p)'
          OBVIOUS
        <5>1. PICK i \in 1..Len(queue) : queue[i] = [kind |-> "closed", player |-> p]
          BY DEF Queued
        <5>2. i # 1
          BY <3>2, <5>1
        <5>3. i - 1 \in 1..Len(queue') /\ queue'[i - 1] = queue[i]
          BY <2>5, <5>2
        <5> QED BY <5>1, <5>3 DEF Queued
      <4> QED BY <1>i, <2>4, <4>1, <4>2 DEF ToldParts
    <3> QED BY <3>1, <3>2
  <2> QED BY <1>i, <2>4, <2>6, <2>7 DEF ToldInv, Windows
<1>5. CASE HandleEnd
  <2>1. queue # <<>> /\ Head(queue) = queue[1] /\ 1 \in 1..Len(queue)
    BY <1>5, <1>q DEF HandleEnd
  <2>2. Len(queue) = 1 /\ queue[1].kind = "end"
    BY <1>5, <1>i, <2>1 DEF HandleEnd, Line
  <2>3. \A p \in Profiles : ~Queued(p)
    BY <2>2 DEF Queued
  <2>4. queue' = <<>> /\ UNCHANGED <<wire, reducer, subscribed>>
    BY <1>5 DEF HandleEnd, external
  <2> QED BY <1>i, <2>3, <2>4 DEF ToldInv, Line, Windows, ToldParts, reducer
<1>6. ASSUME NEW p \in Profiles, GraceElapses(p) PROVE ToldInv'
  <2>1. \A x \in Profiles : closing'[x] # "no" => closing[x] # "no"
    BY <1>6 DEF GraceElapses, Typed
  <2>2. UNCHANGED <<wire, matches, fp, status, told, subscribed, queue>>
    BY <1>6 DEF GraceElapses, external
  <2> QED BY <1>i, <2>1, <2>2 DEF ToldInv, Line, Windows, ToldParts, Queued
<1>7. CASE Sweep
  <2> DEFINE q == SetToSeq(Closes(Gone))
  <2>1. queue = <<>> /\ UNCHANGED <<wire, matches, fp, told, subscribed>>
    BY <1>7 DEF Sweep, external
  <2>2. /\ q \in Seq(Items)
        /\ \A i \in 1..Len(q) : q[i].kind = "closed" /\ q[i].player \in Gone
        /\ \A p \in Gone : \E i \in 1..Len(q) : q[i] = [kind |-> "closed", player |-> p]
    BY ClosesQueued DEF Gone
  <2>3. queue' = queue \o q
    BY <1>7 DEF Sweep, Closes
  <2> HIDE DEF q
  <2>4. queue' = q
    BY <2>1, <2>2, <2>3
  <2>5. /\ \A p \in Profiles : status'[p] = IF closing[p] = "due" THEN Offline ELSE status[p]
        /\ \A p \in Profiles : closing[p] = "due" <=> p \in Gone
    BY <1>7, <1>i DEF Sweep, Gone, Windows
  <2>6. Line'
    BY <2>2, <2>4, <2>5 DEF Line, Gone
  <2>7. ASSUME NEW p \in Profiles PROVE ToldParts(p)'
    <3>1. p \in Gone => Queued(p)'
      BY <2>2, <2>4 DEF Queued
    <3>2. ~Queued(p)
      BY <2>1 DEF Queued
    <3> QED BY <1>i, <2>1, <2>5, <3>1, <3>2 DEF ToldParts
  <2>8. Windows'
    BY <1>7, <1>i, <2>1 DEF Windows, Sweep
  <2> QED BY <1>i, <2>1, <2>6, <2>7, <2>8 DEF ToldInv
<1>8. ASSUME NEW S \in SUBSET Profiles, Subscribe(S) PROVE ToldInv'
  BY <1>8 DEF Subscribe
<1> QED BY <1>1, <1>2, <1>3, <1>4, <1>5, <1>6, <1>7, <1>8 DEF Next, Session

\* On the wire as it is, what the events said of a player is what the adapter
\* has recorded, or the close that says so is queued; and the details of the
\* lobby it described are the current ones.
THEOREM EventsTellRecord == Spec => []ToldIsRecorded
<1>1. Typed /\ ToldInv => ToldIsRecorded
  <2> SUFFICES ASSUME Typed, ToldInv, ~Free PROVE ToldIsRecorded
    BY DEF ToldIsRecorded
  <2>1. \A p \in Profiles : ToldParts(p)
    BY DEF ToldInv
  <2>2. subscribed \subseteq Profiles
    BY DEF Typed
  <2> QED BY <2>1, <2>2 DEF ToldParts, Queued, ToldIsRecorded
<1>2. Init => Typed /\ ToldInv
  BY TypedInit, ToldInit
<1>3. Typed /\ ToldInv /\ [Next]_vars => (Typed /\ ToldInv)'
  BY TypedStep, ToldStep
<1> QED BY <1>1, <1>2, <1>3, PTL DEF Spec
=============================================================================
