---------------------------- MODULE LobbyAdapter ----------------------------
(***************************************************************************)
(* Aoe2LobbyAdapter of kingdoms.ext_aoe2lobby: one WebSocket session whose *)
(* frames are folded into per-player transitions.  The server's world, its *)
(* frames and their queue, the reducer, and the grace window that stands   *)
(* between a removal and the event that reports it.                        *)
(*                                                                         *)
(* A payload is the players of a match and a setup number for everything   *)
(* else it displays (map, civs, slots).  A frame has one key; labels,      *)
(* links, the match reference of a close event and logging are left out.   *)
(***************************************************************************)
EXTENDS Naturals, SequencesExt

CONSTANTS
  Profiles, Matches, NoMatch,
  Bounds,      \* Bounds[w]: on wire w, the matches and players of the world and
               \* the bound on its changes
  MaxDrops,    \* bound on the sessions that the server closes
  MaxQueue     \* bound on the queue of a session

\* The wire as it is (snapshots answer the polls, the session keeps up with its
\* queue, the subscription rests), and everything the code handles: pushed
\* deltas and statuses, a session behind its queue, changed subscriptions.
Wires == {"snapshots", "everything"}

ASSUME LobbyAssumption ==
  /\ NoMatch \notin Matches /\ IsFiniteSet(Profiles) /\ DOMAIN Bounds \subseteq Wires
  /\ \A w \in DOMAIN Bounds : /\ Bounds[w].matches \subseteq Matches
                              /\ Bounds[w].players \subseteq Profiles /\ Bounds[w].moves \in Nat
  /\ MaxDrops \in Nat /\ MaxQueue \in Nat

VARIABLES
  wire,        \* the wire of this behaviour
  world,       \* the server's matches
  online,      \* a session is open
  queue,       \* frames and grace closes that the session has not handled
  matches,     \* matches[c]: the payloads known in context c
  fp,          \* fp[c]: the payloads whose fingerprints were last recorded
  status,      \* the derived status of each player
  closing,     \* the grace window of a removal: "no", "waiting", "due"
  subscribed,  \* the reducer's filter
  told,        \* history: what the stream of events last said of a player
  left,        \* history: players who left a lobby that stayed open
  moves, drops

external == <<wire, world, left, moves>>
reducer == <<matches, fp, status, closing, told>>
vars == <<external, reducer, online, queue, subscribed, drops>>

Contexts == {"lobby", "spectate"}
Payloads == [players : SUBSET Profiles, setup : 0..1]
Partial(R) == UNION {[D -> R] : D \in SUBSET Matches}
Statuses == [state : {"offline", "lobby", "game"}, ref : Matches \cup {NoMatch}]
At(s, m) == [state |-> s, ref |-> m]
Offline == At("offline", NoMatch)
Empty == [m \in {} |-> {}]

-----------------------------------------------------------------------------
(* The world of the server, and the frames it sends.                        *)

Phases == {"none", "lobby", "launching", "game", "over"}
Free == wire = "everything"
Busy(p) == \E m \in Matches : p \in world[m].players /\ world[m].phase \in {"lobby", "launching", "game"}
In(c) == {m \in Matches : world[m].phase = IF c = "lobby" THEN "lobby" ELSE "game"}
Payload(m) == [players |-> world[m].players, setup |-> world[m].setup]
Snapshot(c) == [m \in In(c) |-> Payload(m)]
Truth(p) ==
  IF \E m \in In("spectate") : p \in world[m].players
    THEN At("game", CHOOSE m \in In("spectate") : p \in world[m].players)
    ELSE IF \E m \in In("lobby") : p \in world[m].players
           THEN At("lobby", CHOOSE m \in In("lobby") : p \in world[m].players)
           ELSE Offline

Changes(m, match) ==
  /\ m \in Bounds[wire].matches /\ moves < Bounds[wire].moves /\ moves' = moves + 1
  /\ world' = [world EXCEPT ![m] = match]
  /\ UNCHANGED <<wire, reducer, online, queue, subscribed, drops>>
Becomes(m, match) == Changes(m, match) /\ UNCHANGED left

Open(m, p) ==
  /\ world[m].phase = "none" /\ ~Busy(p) /\ p \in Bounds[wire].players
  /\ Becomes(m, [phase |-> "lobby", players |-> {p}, setup |-> 0])
Join(m, p) ==
  /\ world[m].phase = "lobby" /\ ~Busy(p) /\ p \in Bounds[wire].players
  /\ Becomes(m, [world[m] EXCEPT !.players = @ \cup {p}])
Leave(m, p) ==
  /\ world[m].phase = "lobby" /\ p \in world[m].players /\ world[m].players # {p}
  /\ Changes(m, [world[m] EXCEPT !.players = @ \ {p}])
  /\ left' = left \cup {p}
Setup(m) == world[m].phase = "lobby" /\ Becomes(m, [world[m] EXCEPT !.setup = 1 - @])
Launch(m) == world[m].phase = "lobby" /\ Becomes(m, [world[m] EXCEPT !.phase = "launching"])
Started(m) == world[m].phase = "launching" /\ Becomes(m, [world[m] EXCEPT !.phase = "game"])
Over(m) == world[m].phase \in {"lobby", "game"} /\ Becomes(m, [world[m] EXCEPT !.phase = "over"])

\* Items reach the queue of the open session.  Without a backlog the session
\* handles each as soon as it is queued.
Ready == online /\ Len(queue) < MaxQueue /\ (Free \/ queue = <<>>)
Arrives(item) ==
  /\ Ready
  /\ queue' = Append(queue, item)
  /\ UNCHANGED <<external, reducer, online, subscribed, drops>>

\* Each poll re-sends the two subscribes; the answer to one is a snapshot.
Answer(c) == Arrives([kind |-> "all", ctx |-> c, snapshot |-> Snapshot(c)])
PushUpdate(c, m) == Free /\ m \in In(c) /\ Arrives([kind |-> "update", ctx |-> c, changes |-> [x \in {m} |-> Payload(x)]])
PushRemove(c, m) == Free /\ m \notin In(c) /\ Arrives([kind |-> "remove", ctx |-> c, removed |-> {m}])
PushLeft(c, p) ==
  /\ Free /\ \A m \in In(c) : p \notin world[m].players
  /\ Arrives([kind |-> "left", ctx |-> c, players |-> {p}])
PushStatus(p) == Free /\ Arrives([kind |-> "status", player |-> p, pushed |-> Truth(p)])

\* The server closes the session: the reader queues its sentinel.
ServerCloses ==
  /\ drops < MaxDrops /\ drops' = drops + 1
  /\ Ready /\ queue' = Append(queue, [kind |-> "end"])
  /\ UNCHANGED <<external, reducer, online, subscribed>>

-----------------------------------------------------------------------------
(* The reducer.  A name ending in _bug is a mutated form, kept to show that  *)
(* a property notices.                                                       *)

Init ==
  /\ world = [m \in Matches |-> [phase |-> "none", players |-> {}, setup |-> 0]]
  /\ online = TRUE /\ queue = <<>>
  /\ matches = [c \in Contexts |-> Empty] /\ fp = matches
  /\ status = [p \in Profiles |-> Offline]
  /\ closing = [p \in Profiles |-> "no"]
  /\ wire \in DOMAIN Bounds
  /\ subscribed \in SUBSET Bounds[wire].players /\ left = {}
  /\ told = [p \in Profiles |-> [state |-> "offline", ref |-> NoMatch, setup |-> 0]]
  /\ moves = 0 /\ drops = 0

\* dict.update: the entries of f over those of g.
Updated(f, g) == [m \in DOMAIN f \cup DOMAIN g |-> IF m \in DOMAIN f THEN f[m] ELSE g[m]]

ProfilesOf(f) == UNION {f[m].players : m \in DOMAIN f}

\* The status of p in the matches M: spectate wins over lobby.
Current(M, p) ==
  LET found(c) == {m \in DOMAIN M[c] : p \in M[c][m].players}
  IN  IF found("spectate") # {} THEN At("game", CHOOSE m \in found("spectate") : TRUE)
      ELSE IF found("lobby") # {} THEN At("lobby", CHOOSE m \in found("lobby") : TRUE)
      ELSE Offline

\* A fingerprint stands for the whole payload.
Differs_bug(c, m, payload) == m \notin DOMAIN fp[c] \/ fp[c][m].players # payload.players
Differs(c, m, payload) == m \notin DOMAIN fp[c] \/ fp[c][m] # payload
\* The known matches that a snapshot no longer has.
Stale_bug(c, snap) == {}
Stale(c, snap) == DOMAIN matches[c] \ DOMAIN snap
\* The status recorded for p when its current one is now.
Recorded_bug(p, now) == now
Recorded(p, now) == IF now = Offline THEN status[p] ELSE now

\* _reduce_touched: the new statuses, windows and events when the matches
\* are M and a frame touched the payloads of touched.
Reduce(M, touched) ==
  LET hit == ProfilesOf(touched) \cap subscribed
      now == [p \in Profiles |-> Current(M, p)]
      updated(p) == /\ now[p] = status[p] /\ now[p].state = "lobby" /\ now[p].ref \in DOMAIN touched
                    /\ p \in touched[now[p].ref].players
  IN  /\ status' = [p \in Profiles |-> IF p \in hit THEN Recorded(p, now[p]) ELSE status[p]]
      /\ closing' = [p \in Profiles |->
           IF p \notin hit \/ (now[p] = Offline /\ status[p] = Offline) THEN closing[p]
           ELSE IF now[p] = Offline THEN "waiting" ELSE "no"]
      /\ told' = [p \in Profiles |->
           IF p \notin hit \/ now[p] = Offline \/ (now[p] = status[p] /\ ~updated(p)) THEN told[p]
           ELSE [state |-> now[p].state, ref |-> now[p].ref,
                 setup |-> M[IF now[p].state = "game" THEN "spectate" ELSE "lobby"][now[p].ref].setup]]

\* *_match_all: the snapshot replaces the context.
ApplySnapshot(c, snap) ==
  LET touched == [m \in Stale(c, snap) \cup {n \in DOMAIN snap : Differs(c, n, snap[n])} |->
                    IF m \in DOMAIN snap THEN snap[m] ELSE matches[c][m]]
      M == [matches EXCEPT ![c] = snap]
  IN  matches' = M /\ fp' = [fp EXCEPT ![c] = snap] /\ Reduce(M, touched)

\* *_match_update: the payloads are merged into the context.
ApplyUpdates(c, changes) ==
  LET M == [matches EXCEPT ![c] = Updated(changes, @)]
      changed == {m \in DOMAIN changes : Differs(c, m, changes[m])}
  IN  /\ matches' = M /\ fp' = [fp EXCEPT ![c] = Updated(Restrict(changes, changed), @)]
      /\ Reduce(M, Restrict(changes, changed))

\* *_match_remove: the matches leave the context, their fingerprints stay.
ApplyRemoves(c, removed) ==
  LET M == [matches EXCEPT ![c] = Restrict(@, DOMAIN @ \ removed)]
  IN  /\ matches' = M /\ fp' = fp
      /\ Reduce(M, Restrict(matches[c], DOMAIN matches[c] \cap removed))

\* *_player_remove: a grace window opens, whoever the player is.
ApplyPlayerRemoves(players) ==
  /\ closing' = [p \in Profiles |-> IF p \in players THEN "waiting" ELSE closing[p]]
  /\ UNCHANGED <<matches, fp, status, told>>

\* player_status: _record_status for a subscribed player.
ApplyStatus(p, pushed) ==
  /\ IF p \notin subscribed \/ (pushed = Offline /\ status[p] = Offline)
       THEN UNCHANGED <<status, closing, told>>
       ELSE /\ closing' = [closing EXCEPT ![p] = IF pushed = Offline THEN "waiting" ELSE "no"]
            /\ status' = [status EXCEPT ![p] = Recorded(p, pushed)]
            /\ told' = IF pushed \in {Offline, status[p]} THEN told
                       ELSE [told EXCEPT ![p] = [state |-> pushed.state, ref |-> pushed.ref, setup |-> @.setup]]
  /\ UNCHANGED <<matches, fp>>

\* _run_session handles the item at the head of its queue.
HandleFrame ==
  /\ online /\ queue # <<>>
  /\ LET f == Head(queue) IN
       \/ f.kind = "all" /\ ApplySnapshot(f.ctx, f.snapshot)
       \/ f.kind = "update" /\ ApplyUpdates(f.ctx, f.changes)
       \/ f.kind = "remove" /\ ApplyRemoves(f.ctx, f.removed)
       \/ f.kind = "left" /\ ApplyPlayerRemoves(f.players)
       \/ f.kind = "status" /\ ApplyStatus(f.player, f.pushed)
  /\ queue' = Tail(queue)
  /\ UNCHANGED <<external, online, subscribed, drops>>

\* A grace close goes out as it was queued.
HandleClose ==
  /\ online /\ queue # <<>> /\ Head(queue).kind = "closed"
  /\ told' = [told EXCEPT ![Head(queue).player].state = "offline", ![Head(queue).player].ref = NoMatch]
  /\ queue' = Tail(queue)
  /\ UNCHANGED <<external, matches, fp, status, closing, online, subscribed, drops>>

\* The sentinel ends the session; what was queued behind it is gone.
HandleEnd ==
  /\ online /\ queue # <<>> /\ Head(queue).kind = "end"
  /\ online' = FALSE /\ queue' = <<>>
  /\ UNCHANGED <<external, reducer, subscribed, drops>>

Reconnect ==
  /\ ~online /\ online' = TRUE
  /\ UNCHANGED <<external, reducer, queue, subscribed, drops>>

GraceElapses(p) ==
  /\ closing[p] = "waiting" /\ closing' = [closing EXCEPT ![p] = "due"]
  /\ UNCHANGED <<external, matches, fp, status, told, online, queue, subscribed, drops>>

\* The players whose close the sweeper reports: due and seen nowhere.
Gone_bug == {p \in Profiles : closing[p] = "due"}
Gone == {p \in Profiles : closing[p] = "due" /\ Current(matches, p) = Offline}

Sweep ==
  /\ online /\ (Free \/ queue = <<>>)
  /\ \E p \in Profiles : closing[p] = "due"
  /\ closing' = [p \in Profiles |-> IF closing[p] = "due" THEN "no" ELSE closing[p]]
  /\ status' = [p \in Profiles |-> IF closing[p] # "due" THEN status[p]
                                   ELSE IF p \in Gone THEN Offline ELSE Current(matches, p)]
  /\ queue' = queue \o SetToSeq({[kind |-> "closed", player |-> p] : p \in Gone})
  /\ UNCHANGED <<external, matches, fp, told, online, subscribed, drops>>

\* set_subscribed_profiles: the ids are the reducer's filter.
Subscribe(S) ==
  /\ Free /\ S # subscribed /\ subscribed' = S
  /\ UNCHANGED <<external, reducer, online, queue, drops>>

WorldMoves ==
  \/ \E m \in Matches, p \in Profiles : Open(m, p) \/ Join(m, p) \/ Leave(m, p)
  \/ \E m \in Matches : Setup(m) \/ Launch(m) \/ Started(m) \/ Over(m)
Wire ==
  \/ \E c \in Contexts : Answer(c)
  \/ \E c \in Contexts, m \in Matches : PushUpdate(c, m) \/ PushRemove(c, m)
  \/ \E c \in Contexts, p \in Profiles : PushLeft(c, p)
  \/ \E p \in Profiles : PushStatus(p)
  \/ ServerCloses
Session == HandleFrame \/ HandleClose \/ HandleEnd \/ Reconnect

Next ==
  \/ WorldMoves \/ Wire \/ Session \/ Sweep
  \/ \E p \in Profiles : GraceElapses(p)
  \/ \E S \in SUBSET Profiles : Subscribe(S)

Spec == Init /\ [][Next]_vars

\* The poll keeps answering, the session keeps handling, timers keep firing.
Fairness ==
  /\ \A c \in Contexts : SF_vars(Answer(c))
  /\ WF_vars(Session)
  /\ SF_vars(Sweep)
  /\ \A p \in Profiles : WF_vars(GraceElapses(p))
FairSpec == Spec /\ Fairness

-----------------------------------------------------------------------------
\* Every variable keeps its type.
TypeOK ==
  /\ world \in [Matches -> [phase : Phases, players : SUBSET Profiles, setup : 0..1]]
  /\ matches \in [Contexts -> Partial(Payloads)] /\ fp \in [Contexts -> Partial(Payloads)]
  /\ status \in [Profiles -> Statuses]
  /\ closing \in [Profiles -> {"no", "waiting", "due"}]
  /\ wire \in Wires /\ left \subseteq Profiles
  /\ subscribed \subseteq Profiles /\ online \in BOOLEAN
  /\ \A p \in Profiles : At(told[p].state, told[p].ref) \in Statuses /\ told[p].setup \in 0..1

\* What the stream said of a player is what the adapter has recorded: "the
\* snapshot diff yields exactly the real transitions".  A close that still
\* waits in the queue has been recorded first.  (A session behind its queue
\* may put a close behind the frame that supersedes it.)
\* The details of an open lobby that it described are the current ones,
\* whatever changed: a fingerprint covers the whole payload.
ToldIsRecorded ==
  ~Free =>
    /\ \A p \in Profiles :
         At(told[p].state, told[p].ref) = status[p]
           \/ \E i \in 1..Len(queue) : queue[i] = [kind |-> "closed", player |-> p]
    /\ \A p \in subscribed : \A m \in DOMAIN matches["lobby"] :
         At(told[p].state, told[p].ref) = At("lobby", m) /\ p \in matches["lobby"][m].players
           => told[p].setup = matches["lobby"][m].setup

\* A player is reported offline only when no known match has him: a lobby
\* that closes because its game starts is not a departure.
NoFalseOffline ==
  [][\A p \in Profiles : status'[p] = Offline /\ status[p] # Offline =>
       Current(matches, p) = Offline /\ closing[p] = "due"]_vars

\* Once the world rests, the stream has told the truth about every subscribed
\* player, except those who left a lobby that stayed open.
Converges ==
  wire = "snapshots" =>
    \A p \in Profiles :
      <>[](p \in subscribed \ left => At(told[p].state, told[p].ref) = Truth(p))
=============================================================================
