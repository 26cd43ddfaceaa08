------------------------------ MODULE LiveFeed ------------------------------
(***************************************************************************)
(* The stream from ext-aoe2lobby to the game service: the provider's hub   *)
(* with its handshake (kingdoms.ext_aoe2lobby.server), the consumer loop   *)
(* and the health watcher (kingdoms.game_aoe2.server), the aggregator and  *)
(* its stored player_state (kingdoms.game_aoe2.aggregator).                *)
(*                                                                         *)
(* The adapter behind the hub is LobbyAdapter, here only its recorded      *)
(* statuses.  An event names one profile, as every event of the adapter    *)
(* does; ext-librematch serves no events.  A setup number stands for the   *)
(* match summary; times are left out, so whether a lobby_closed falls into *)
(* the aggregator's grace is a choice.                                     *)
(***************************************************************************)
EXTENDS Naturals, SequencesExt

CONSTANTS
  Accounts, Matches, NoMatch, NoEvent,
  MaxMoves,      \* bound on the adapter's transitions
  MaxBreaks      \* bound on lost streams, crashes and provider outages

ASSUME FeedAssumption ==
  /\ IsFiniteSet(Accounts) /\ NoMatch \notin Matches
  /\ NoEvent \notin [player : Accounts, old : {"offline", "in_lobby", "in_game"}]
  /\ MaxMoves \in Nat /\ MaxBreaks \in Nat

VARIABLES
  recorded,    \* the adapter's status of each profile
  link,        \* the stream: its phase and the handshake events still to send
  inbox,       \* events sent and not yet handled by the consumer
  players,     \* the aggregator's states
  writing,     \* the event whose player_state write is awaited, or NoEvent
  playerState, \* the player_state collection
  said,        \* history: the new status of the last transition queued
  degraded,    \* the aggregator's flag
  up,          \* the provider process answers
  missed,      \* history: profiles with a transition that no event brings to
               \* the consumer, or whose write failed
  moves, breaks

provider == <<recorded, link, up>>
service == <<players, writing, said>>
feedVars == <<provider, service, inbox, playerState, degraded, missed, moves, breaks>>

States == {"offline", "in_lobby", "in_game"}
Views == [state : States, ref : Matches \cup {NoMatch}, setup : 0..1]
Offline == [state |-> "offline", ref |-> NoMatch, setup |-> 0]
Types == {"lobby_opened", "game_started", "lobby_closed", "game_ended", "match_updated"}
Events == [type : Types, player : Accounts, ref : Matches \cup {NoMatch}, setup : 0..1]
Down == [phase |-> "down", todo |-> <<>>]

\* An event that reports the recorded view v of p.
Reports(p, v) ==
  [type |-> IF v.state = "in_lobby" THEN "lobby_opened" ELSE "game_started",
   player |-> p, ref |-> v.ref, setup |-> v.setup]

FeedInit ==
  /\ recorded = [p \in Accounts |-> Offline]
  /\ link = Down /\ inbox = <<>>
  /\ players = recorded /\ playerState = recorded
  /\ writing = NoEvent
  /\ said = [p \in Accounts |-> "offline"]
  /\ degraded = TRUE /\ up = TRUE /\ missed = {}
  /\ moves = 0 /\ breaks = 0

-----------------------------------------------------------------------------
(* The provider.  A name ending in _bug is a mutated form, kept to show that *)
(* a property notices.                                                       *)

\* A recorded transition is fanned out to the queue of a live stream.
Publish(p, v, event) ==
  /\ up /\ moves < MaxMoves /\ moves' = moves + 1
  /\ recorded' = [recorded EXCEPT ![p] = v]
  /\ inbox' = IF link.phase = "live" THEN Append(inbox, event) ELSE inbox
  /\ missed' = IF link.phase = "shaking" \/ (link.phase = "down" /\ v = Offline)
               THEN missed \cup {p} ELSE missed
  /\ UNCHANGED <<service, link, playerState, degraded, up, breaks>>

Enters(p, s, m) ==
  /\ LET v == [state |-> s, ref |-> m, setup |-> 0] IN
       /\ recorded[p].state # s \/ recorded[p].ref # m
       /\ Publish(p, v, Reports(p, v))

Changes(p) ==
  /\ recorded[p].state = "in_lobby"
  /\ LET v == [recorded[p] EXCEPT !.setup = 1 - @] IN
       Publish(p, v, [Reports(p, v) EXCEPT !.type = "match_updated"])

Closes(p) ==
  /\ recorded[p] # Offline
  /\ Publish(p, Offline,
       [type |-> IF recorded[p].state = "in_game" THEN "game_ended" ELSE "lobby_closed",
        player |-> p, ref |-> recorded[p].ref, setup |-> 0])

\* current_state_events: one event per profile that is in a match.
Handshake_bug == <<>>
Handshake == SetToSeq({Reports(p, recorded[p]) : p \in {q \in Accounts : recorded[q] # Offline}})

\* match_events: the handshake is computed, sent, and only then the
\* consumer's queue joins the hub.
Connect ==
  /\ up /\ link = Down /\ inbox = <<>> /\ writing = NoEvent
  /\ link' = [phase |-> "shaking", todo |-> Handshake]
  /\ UNCHANGED <<service, recorded, up, inbox, playerState, degraded, missed, moves, breaks>>

Shake ==
  /\ link.phase = "shaking" /\ link.todo # <<>>
  /\ link' = [link EXCEPT !.todo = Tail(@)]
  /\ inbox' = Append(inbox, Head(link.todo))
  /\ UNCHANGED <<service, recorded, up, playerState, degraded, missed, moves, breaks>>

Subscribe ==
  /\ link.phase = "shaking" /\ link.todo = <<>>
  /\ link' = [link EXCEPT !.phase = "live"]
  /\ UNCHANGED <<service, recorded, up, inbox, playerState, degraded, missed, moves, breaks>>

-----------------------------------------------------------------------------
(* The consumer and the aggregator.                                         *)

\* The view an event leads to, from the view cur.
Outcome_bug(cur, e) == [cur EXCEPT !.setup = e.setup]
Outcome(cur, e) ==
  IF e.type \in {"lobby_closed", "game_ended"} THEN Offline
  ELSE [state |-> IF e.type = "lobby_opened" THEN "in_lobby" ELSE "in_game",
        ref |-> e.ref, setup |-> e.setup]

\* A lobby_closed that follows a game start too soon is ignored.
Graced(cur, e) == cur.state = "in_game" /\ e.type = "lobby_closed"

\* apply_event: the state in memory is set, the write is awaited.
Handle ==
  /\ writing = NoEvent /\ inbox # <<>>
  /\ LET e == Head(inbox)
         cur == players[e.player]
     IN  \/ /\ e.type # "match_updated"
            /\ players' = [players EXCEPT ![e.player] = Outcome(cur, e)]
            /\ writing' = [player |-> e.player, old |-> cur.state]
         \/ /\ e.type = "match_updated" /\ cur.ref = e.ref
            /\ players' = [players EXCEPT ![e.player].setup = e.setup]
            /\ writing' = [player |-> e.player, old |-> cur.state]
         \/ /\ Graced(cur, e) \/ (e.type = "match_updated" /\ cur.ref # e.ref)
            /\ UNCHANGED <<players, writing>>
  /\ inbox' = Tail(inbox)
  /\ degraded' = FALSE
  /\ UNCHANGED <<provider, said, playerState, missed, moves, breaks>>

\* A transition is queued when the state changed.
Queued_bug(p) == writing.old = "offline"
Queued(p) == writing.old # players[p].state

\* The write ends (or failed, which is only logged); a transition is queued.
Written ==
  /\ writing # NoEvent
  /\ LET p == writing.player IN
       /\ \/ playerState' = [playerState EXCEPT ![p] = players[p]] /\ UNCHANGED missed
          \/ playerState' = playerState /\ missed' = missed \cup {p}
       /\ said' = IF Queued(p) THEN [said EXCEPT ![p] = players[p].state] ELSE said
  /\ writing' = NoEvent
  /\ UNCHANGED <<provider, players, inbox, degraded, moves, breaks>>

\* The stream is lost, perhaps with what the client had not handled yet; S
\* are the profiles whose transition goes with it.
ClosesIn(q) ==
  {p \in Accounts : \E i \in 1..Len(q) : q[i].player = p /\ q[i].type \in {"lobby_closed", "game_ended"}}
Lost(alive, kept, S) ==
  /\ breaks < MaxBreaks /\ breaks' = breaks + 1
  /\ link' = Down /\ up' = alive
  /\ \E q \in kept : inbox' = q /\ missed' = missed \cup S \cup (ClosesIn(inbox) \ ClosesIn(q))

Break ==
  /\ link # Down /\ Lost(up, {inbox, <<>>}, {})
  /\ UNCHANGED <<service, recorded, playerState, degraded, moves>>

ProviderDown ==
  /\ up /\ Lost(FALSE, {inbox, <<>>}, {p \in Accounts : recorded[p] # Offline})
  /\ recorded' = [p \in Accounts |-> Offline]
  /\ UNCHANGED <<service, playerState, degraded, moves>>

ProviderUp ==
  /\ ~up /\ up' = TRUE
  /\ UNCHANGED <<service, recorded, link, inbox, playerState, degraded, missed, moves, breaks>>

\* The game service restarts with empty memory; player_state stays.
ServiceRestart ==
  /\ Lost(up, {<<>>}, {p \in Accounts : writing # NoEvent /\ writing.player = p})
  /\ players' = [p \in Accounts |-> Offline] /\ said' = [p \in Accounts |-> "offline"]
  /\ writing' = NoEvent /\ degraded' = TRUE
  /\ UNCHANGED <<recorded, playerState, moves>>

\* _watch_provider_health: get_capabilities answers for a provider that
\* cannot be reached too, with no capabilities; any other error is raised.
HealthCheck ==
  /\ degraded' \in (IF up THEN BOOLEAN ELSE {FALSE})
  /\ UNCHANGED <<provider, service, inbox, playerState, missed, moves, breaks>>

FeedNext ==
  \/ \E p \in Accounts, m \in Matches, s \in {"in_lobby", "in_game"} : Enters(p, s, m)
  \/ \E p \in Accounts : Changes(p) \/ Closes(p)
  \/ Connect \/ Shake \/ Subscribe \/ Handle \/ Written
  \/ Break \/ ProviderDown \/ ProviderUp \/ ServiceRestart \/ HealthCheck

FeedSpec == FeedInit /\ [][FeedNext]_feedVars

\* The consumer reconnects after its pauses, and every await ends.
FeedFairness ==
  /\ WF_feedVars(Connect) /\ WF_feedVars(Shake) /\ WF_feedVars(Subscribe) /\ WF_feedVars(Handle)
  /\ WF_feedVars(Written) /\ WF_feedVars(ProviderUp)
FeedFairSpec == FeedSpec /\ FeedFairness

-----------------------------------------------------------------------------
\* Every variable keeps its type.
FeedTypeOK ==
  /\ {recorded, players, playerState} \subseteq [Accounts -> Views]
  /\ link.phase \in {"down", "shaking", "live"}
  /\ \A i \in 1..Len(inbox) : inbox[i] \in Events
  /\ writing = NoEvent \/ writing \in [player : Accounts, old : States]
  /\ said \in [Accounts -> States] /\ missed \subseteq Accounts

\* Between two events the transitions queued so far lead to the states that
\* the aggregator holds: none is skipped, and a replayed handshake queues none.
\* And a consumer that has caught up with a live stream holds the adapter's
\* statuses, in memory and in player_state, after any handshake ("a fresh
\* consumer re-synchronizes instead of waiting for the next transition"),
\* except for the missed profiles.
Mirrors(p) == players[p] = recorded[p] /\ playerState[p] = recorded[p]
TransitionsFollow ==
  writing = NoEvent =>
    /\ \A p \in Accounts : said[p] = players[p].state
    /\ link.phase = "live" /\ inbox = <<>> => \A p \in Accounts \ missed : Mirrors(p)

\* When transitions and breaks cease, the panels end up with the adapter's
\* statuses: the consumer never stays without a stream.
EventuallyMirrored == \A p \in Accounts : <>[](p \in missed \/ Mirrors(p))
=============================================================================
