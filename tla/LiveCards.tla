----------------------------- MODULE LiveCards ------------------------------
(***************************************************************************)
(* The live cards of the bot: one message per match in the log channel of  *)
(* each guild concerned, edited as the match goes on.  A feed takes the    *)
(* transitions of the players from the stream and serves the guilds in     *)
(* turn; the result of a match is fetched and written by a task beside it. *)
(* Every step of a feed ends at an await.  The bot starts one feed each    *)
(* time Discord reports it ready.                                          *)
(***************************************************************************)
EXTENDS FiniteSets, Naturals, Sequences

CONSTANTS
  Guilds, Players, Matches, Messages, Feeds,
  Member,                \* the players each guild counts among its members
  Nil,                   \* no match, no message
  MaxQueue, MaxMishaps   \* bounds: transitions on their way, faults

Keys == Guilds \X Matches
Texts == {"in lobby", "live", "finished", "result"}  \* what a card says of its match

ASSUME CardsAssumption ==
  /\ Member \in [Guilds -> SUBSET Players]
  /\ \A k \in Keys, t \in Texts : Nil # [key |-> k, shows |-> t]
  /\ Nil \notin Players \cup Matches \cup Messages
  /\ IsFiniteSet(Feeds) /\ {MaxQueue, MaxMishaps} \subseteq Nat

Statuses == {"offline", "in_lobby", "in_game"}
Events == [player : Players, old : Statuses, new : Statuses, ref : Matches \cup {Nil}]

VARIABLES
  status, playing,  \* what the game service told of each player last
  launched,         \* the matches that were launched
  left,             \* the matches some player left after the launch
  feeds,            \* the feeds that run
  stream,           \* per feed: the transitions on their way
  event, unserved,  \* per feed: the transition handled and the guilds left to serve
  sending,          \* per feed: the card being sent, its guild and match, what it
                    \* will show, the step reached and the message being edited
  cards,            \* the message of each guild and match, as the bot knows it
  ref,              \* the match the bot last saw each player in
  fetching,         \* the result tasks waiting for the outcome
  applying,         \* the message each result task is editing
  expiring,         \* the keys whose message is to be forgotten
  doubled,          \* history: two feeds ran at a time
  closed,           \* history: the keys whose card was closed
  strayed,          \* history: the matches the bot held for those of players of whom
                    \* it lost a transition
  shown,            \* each message: its guild, its match and what it shows
  mishaps

marks == <<doubled, closed, strayed>>
results == <<fetching, applying, expiring>>
bot == <<feeds, event, unserved, sending, cards, ref, results, marks>>
world == <<status, playing, launched, left>>
cardVars == <<world, stream, bot, shown, mishaps>>

NoEvent == [player |-> Nil]
NoCall == [step |-> "none"]
Nobody == [p \in Players |-> Nil]
NoCards == [k \in Keys |-> Nil]

NoStreams == [f \in Feeds |-> <<>>]
NoEvents == [f \in Feeds |-> NoEvent]
NoneLeft == [f \in Feeds |-> {}]
NoCalls == [f \in Feeds |-> NoCall]

CardsInit ==
  /\ status = [p \in Players |-> "offline"] /\ playing = Nobody
  /\ launched = {} /\ left = {}
  /\ feeds \in {{f} : f \in Feeds} /\ stream = NoStreams
  /\ event = NoEvents /\ unserved = NoneLeft /\ sending = NoCalls
  /\ cards = NoCards /\ ref = Nobody
  /\ fetching = [k \in Keys |-> 0] /\ applying = NoCards /\ expiring = {}
  /\ shown = [m \in Messages |-> Nil]
  /\ doubled = FALSE /\ closed = {} /\ strayed = {} /\ mishaps = 0

Mishap == mishaps < MaxMishaps /\ mishaps' = mishaps + 1
Handling(f) == event[f] # NoEvent

-----------------------------------------------------------------------------
(* The players, as the game service tells of them.  A transition is told    *)
(* when the status changes, and says nothing of the match once offline.     *)

Transition(p, new, m) ==
  [player |-> p, old |-> status[p], new |-> new, ref |-> IF new = "offline" THEN Nil ELSE m]
Told(e) ==
  /\ \A f \in feeds : Len(stream[f]) < MaxQueue
  /\ stream' = [f \in Feeds |-> IF f \in feeds THEN Append(stream[f], e) ELSE stream[f]]

EnterLobby(p, m) ==
  /\ status[p] = "offline" /\ m \notin launched
  /\ status' = [status EXCEPT ![p] = "in_lobby"] /\ playing' = [playing EXCEPT ![p] = m]
  /\ Told(Transition(p, "in_lobby", m))
  /\ UNCHANGED <<launched, left, bot, shown, mishaps>>

\* The launch is told of each player of the lobby in turn.
EnterGame(p) ==
  /\ status[p] = "in_lobby"
  /\ status' = [status EXCEPT ![p] = "in_game"] /\ launched' = launched \cup {playing[p]}
  /\ Told(Transition(p, "in_game", playing[p]))
  /\ UNCHANGED <<playing, left, bot, shown, mishaps>>

Launching(m) == m \in launched /\ \E p \in Players : playing[p] = m /\ status[p] = "in_lobby"
GoOffline(p) ==
  /\ status[p] # "offline" /\ ~ Launching(playing[p])
  /\ status' = [status EXCEPT ![p] = "offline"] /\ playing' = [playing EXCEPT ![p] = Nil]
  /\ left' = IF status[p] = "in_game" THEN left \cup {playing[p]} ELSE left
  /\ Told(Transition(p, "offline", Nil))
  /\ UNCHANGED <<launched, bot, shown, mishaps>>

-----------------------------------------------------------------------------
(* A feed.  A name ending in _bug is a mutated form.                        *)

Take(f) ==
  /\ ~ Handling(f) /\ stream[f] # <<>>
  /\ event' = [event EXCEPT ![f] = Head(stream[f])]
  /\ stream' = [stream EXCEPT ![f] = Tail(@)] /\ unserved' = [unserved EXCEPT ![f] = Guilds]
  /\ UNCHANGED <<world, feeds, sending, cards, ref, results, marks, shown, mishaps>>

\* The guild is served: the event is done after the last one.
Served(f, g) ==
  /\ unserved' = [unserved EXCEPT ![f] = @ \ {g}]
  /\ event' = IF unserved[f] = {g} THEN [event EXCEPT ![f] = NoEvent] ELSE event

Serving(f, g) == Handling(f) /\ sending[f] = NoCall /\ g \in unserved[f]
PassOver(f, g) ==
  /\ Serving(f, g) /\ event[f].player \notin Member[g] /\ Served(f, g)
  /\ UNCHANGED <<world, stream, feeds, sending, cards, ref, results, marks, shown, mishaps>>

\* The card to update: of the match told, or of the player's last one.
MatchRef(e) == IF e.ref # Nil THEN e.ref ELSE ref[e.player]
Closes(e) == e.new = "offline" /\ e.old = "in_game"
Remembered_bug(p, m) == IF ref[p] = Nil THEN [ref EXCEPT ![p] = m] ELSE ref
Remembered(p, m) == [ref EXCEPT ![p] = m]
Shows(e) == IF Closes(e) THEN "finished" ELSE IF e.new = "in_game" THEN "live" ELSE "in lobby"

ServeGuild(f, g) ==
  /\ Serving(f, g) /\ event[f].player \in Member[g]
  /\ LET e == event[f]
         k == <<g, MatchRef(e)>>
     IN IF MatchRef(e) = Nil \/ (e.new = "offline" /\ cards[k] = Nil)
        THEN Served(f, g) /\ UNCHANGED <<sending, ref>>
        ELSE /\ sending' = [sending EXCEPT ![f] =
                   [step |-> "resolve", key |-> k, shows |-> Shows(e), card |-> Nil]]
             /\ ref' = IF e.new = "offline" THEN ref ELSE Remembered(e.player, MatchRef(e))
             /\ UNCHANGED <<unserved, event>>
  /\ UNCHANGED <<world, stream, feeds, cards, results, marks, shown, mishaps>>

\* What follows the sending, whatever came of it: a closed card waits for the
\* result, and the player's match is forgotten.
Sent(f) ==
  LET e == event[f] k == sending[f].key IN
    /\ sending' = [sending EXCEPT ![f] = NoCall] /\ Served(f, k[1])
    /\ ref' = IF e.new = "offline" THEN [ref EXCEPT ![e.player] = Nil] ELSE ref
    /\ fetching' = IF Closes(e) THEN [fetching EXCEPT ![k] = @ + 1] ELSE fetching
    /\ expiring' = IF Closes(e) THEN expiring \cup {k} ELSE expiring
    /\ closed' = IF Closes(e) THEN closed \cup {k} ELSE closed
    /\ UNCHANGED <<world, stream, feeds, doubled, strayed, applying>>

\* The log channel is known: the message is edited, or one is sent.
At(f, step) == sending[f] # NoCall /\ sending[f].step = step
KnownCard_bug(f) == IF Closes(event[f]) THEN cards[sending[f].key] ELSE Nil
KnownCard(f) == cards[sending[f].key]
ResolveLogs(f) ==
  /\ At(f, "resolve")
  /\ sending' = [sending EXCEPT ![f] =
       [@ EXCEPT !.step = IF KnownCard(f) = Nil THEN "send" ELSE "edit", !.card = KnownCard(f)]]
  /\ UNCHANGED <<world, stream, feeds, event, unserved, cards, ref, results, marks, shown, mishaps>>

Unresolved(f) == At(f, "resolve") /\ Mishap /\ Sent(f) /\ UNCHANGED <<cards, shown>>

EditCard(f) ==
  /\ At(f, "edit") /\ Sent(f)
  /\ shown' = [shown EXCEPT ![sending[f].card].shows = sending[f].shows]
  /\ UNCHANGED <<cards, mishaps>>

\* The edit failed: the message is forgotten and another one is sent.
EditCardFails(f) ==
  /\ At(f, "edit") /\ Mishap
  /\ cards' = [cards EXCEPT ![sending[f].key] = Nil]
  /\ sending' = [sending EXCEPT ![f].step = "send"]
  /\ UNCHANGED <<world, stream, feeds, event, unserved, ref, results, marks, shown>>

SendCard(f, m) ==
  /\ At(f, "send") /\ shown[m] = Nil /\ Sent(f)
  /\ shown' = [shown EXCEPT ![m] = [key |-> sending[f].key, shows |-> sending[f].shows]]
  /\ cards' = [cards EXCEPT ![sending[f].key] = m]
  /\ UNCHANGED mishaps

SendCardFails(f) == At(f, "send") /\ Mishap /\ Sent(f) /\ UNCHANGED <<cards, shown>>

-----------------------------------------------------------------------------
(* The result of a match, and the end of what the bot knows of it           *)

\* The outcome arrived, or never did; the message is read now.
Fetch(k) ==
  /\ fetching[k] > 0 /\ fetching' = [fetching EXCEPT ![k] = @ - 1]
  /\ \E found \in BOOLEAN :
       applying' = IF found /\ applying[k] = Nil THEN [applying EXCEPT ![k] = cards[k]]
                   ELSE applying
  /\ UNCHANGED <<world, stream, feeds, event, unserved, sending, cards, ref, expiring, marks,
                 shown, mishaps>>

Apply(k) ==
  /\ applying[k] # Nil /\ applying' = [applying EXCEPT ![k] = Nil]
  /\ shown' = [shown EXCEPT ![applying[k]].shows = "result"]
  /\ cards' = [cards EXCEPT ![k] = Nil]
  /\ UNCHANGED <<world, stream, feeds, event, unserved, sending, ref, fetching, expiring, marks,
                 mishaps>>

ApplyFails(k) ==
  /\ applying[k] # Nil /\ Mishap /\ applying' = [applying EXCEPT ![k] = Nil]
  /\ UNCHANGED <<world, stream, feeds, event, unserved, sending, cards, ref, fetching, expiring,
                 marks, shown>>

\* The window of the result closed: its four attempts are over.
Expire(k) ==
  /\ k \in expiring /\ fetching[k] = 0 /\ expiring' = expiring \ {k}
  /\ cards' = [cards EXCEPT ![k] = Nil]
  /\ UNCHANGED <<world, stream, feeds, event, unserved, sending, ref, fetching, applying, marks,
                 shown, mishaps>>

\* The stream of a feed breaks: what was on its way is lost.
Believed(f, p) ==
  {ref[p]} \cup (IF Handling(f) /\ event[f].player = p THEN {event[f].ref} ELSE {})
Break(f) ==
  /\ stream[f] # <<>> /\ Mishap /\ stream' = [stream EXCEPT ![f] = <<>>]
  /\ strayed' = strayed \cup UNION {Believed(f, stream[f][i].player) : i \in DOMAIN stream[f]}
  /\ UNCHANGED <<world, feeds, doubled, closed, event, unserved, sending, cards, ref, results,
                 shown>>

\* The session with Discord was replaced: the bot is told again that it is
\* ready, and starts one more feed.
Ready(f) ==
  /\ f \notin feeds /\ Mishap /\ feeds' = feeds \cup {f} /\ doubled' = TRUE
  /\ UNCHANGED <<world, stream, strayed, closed, event, unserved, sending, cards, ref, results,
                 shown>>

\* The bot restarts: everything it knew of the cards was in memory.
BotRestarts(f) ==
  /\ Mishap /\ feeds' = {f} /\ stream' = NoStreams
  /\ event' = NoEvents /\ unserved' = NoneLeft /\ sending' = NoCalls
  /\ cards' = NoCards /\ ref' = Nobody
  /\ fetching' = [k \in Keys |-> 0] /\ applying' = NoCards /\ expiring' = {}
  /\ UNCHANGED <<world, doubled, strayed, closed, shown>>

Consume(f) ==
  \/ Take(f) \/ ResolveLogs(f) \/ Unresolved(f)
  \/ EditCard(f) \/ EditCardFails(f) \/ SendCardFails(f)
  \/ \E g \in Guilds : PassOver(f, g) \/ ServeGuild(f, g)
  \/ \E m \in Messages : SendCard(f, m)
Conclude == \E k \in Keys : Fetch(k) \/ Apply(k) \/ ApplyFails(k) \/ Expire(k)
Play == \E p \in Players : EnterGame(p) \/ GoOffline(p) \/ \E m \in Matches : EnterLobby(p, m)
CardsNext ==
  \/ \E f \in Feeds : Consume(f) \/ Break(f) \/ Ready(f) \/ BotRestarts(f)
  \/ Conclude \/ Play
CardsSpec == CardsInit /\ [][CardsNext]_cardVars

-----------------------------------------------------------------------------
(* Properties *)

CardsTypeOK ==
  /\ status \in [Players -> Statuses] /\ playing \in [Players -> Matches \cup {Nil}]
  /\ launched \subseteq Matches /\ left \subseteq launched
  /\ feeds \subseteq Feeds /\ stream \in [Feeds -> Seq(Events)]
  /\ event \in [Feeds -> Events \cup {NoEvent}] /\ unserved \in [Feeds -> SUBSET Guilds]
  /\ cards \in [Keys -> Messages \cup {Nil}] /\ ref \in [Players -> Matches \cup {Nil}]
  /\ fetching \in [Keys -> Nat] /\ applying \in [Keys -> Messages \cup {Nil}]
  /\ expiring \subseteq Keys /\ doubled \in BOOLEAN /\ mishaps \in 0..MaxMishaps
  /\ shown \in [Messages -> [key : Keys, shows : Texts] \cup {Nil}]
  /\ closed \subseteq Keys /\ strayed \subseteq Matches \cup {Nil}

Shown == {m \in Messages : shown[m] # Nil}
CardsOf(k) == {m \in Shown : shown[m].key = k}

\* The messages that faults and feeds account for.
Allowed == IF doubled THEN mishaps * Cardinality(Feeds) ELSE 1 + mishaps

\* A match is one message per guild.  Until a card of the match was closed, a
\* second message appears only after a fault (an edit refused, the bot
\* restarted); once the bot was ready twice, each feed may send one of its own
\* after each fault.  Closed once, the code promises less: the message may be
\* forgotten between the check of ServeGuild and the read of ResolveLogs, and
\* another is sent.
OneMessage ==
  \A k \in {shown[m].key : m \in Shown} \ closed :
     Cardinality(CardsOf(k)) <= Allowed

\* A card says that its match is over only when a player has left that match
\* after its launch, or when the bot lost the transitions of a player it held
\* to be in it: the transition to offline, which names no match, never closes
\* the card of any other one.  Two feeds that run apart break this: what one
\* has handled, the other has yet to hear.
EndedWasLeft ==
  ~ doubled =>
    \A m \in Shown :
       shown[m].shows \in {"finished", "result"} => shown[m].key[2] \in left \cup strayed

\* Both: what a card is, and when it may say that its match is over.
CardsFollow == OneMessage /\ EndedWasLeft

\* When everything told was handled without a fault, the card of a match that
\* every player left is closed in every guild that has one.
Idle == \A f \in Feeds : stream[f] = <<>> /\ ~ Handling(f)
Over(m) == m \in launched /\ \A p \in Players : playing[p] # m
CardsClose ==
  (Idle /\ mishaps = 0) =>
     \A m \in Shown : Over(shown[m].key[2]) => shown[m].shows # "live"
=============================================================================
