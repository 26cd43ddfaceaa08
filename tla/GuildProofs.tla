---------------------------- MODULE GuildProofs -----------------------------
(***************************************************************************)
(* What the bot keeps up in the guilds, for every number of guilds,        *)
(* players, matches, roles, channels and callers: the cards of the live    *)
(* matches, the roles, the channels and their menus.                       *)
(***************************************************************************)
EXTENDS Surfaces, Roles, LiveCards, FiniteSetTheorems, TLAPS

-----------------------------------------------------------------------------
(* THE CARDS.                                                               *)

Calls ==
  [step : {"resolve", "edit", "send"}, key : Keys, shows : {"in lobby", "live", "finished"},
   card : Messages \cup {Nil}]
Cards == [key : Keys, shows : Texts]

PlayersTyped ==
  /\ status \in [Players -> Statuses] /\ playing \in [Players -> Matches \cup {Nil}]
  /\ launched \subseteq Matches /\ left \subseteq launched
  /\ \A p \in Players : /\ status[p] # "offline" => playing[p] \in Matches
                        /\ status[p] = "in_game" => playing[p] \in launched
FeedsTyped ==
  /\ feeds \subseteq Feeds /\ stream \in [Feeds -> Seq(Events)]
  /\ event \in [Feeds -> Events \cup {NoEvent}] /\ unserved \in [Feeds -> SUBSET Guilds]
  /\ sending \in [Feeds -> Calls \cup {NoCall}]
  /\ \A f \in Feeds : sending[f] # NoCall => Handling(f)
\* A message that the bot has in hand is one of the guild and match it has it for.
IsCardOf(m, k) == m = Nil \/ (shown[m] # Nil /\ shown[m].key = k)
CardsKnown ==
  /\ cards \in [Keys -> Messages \cup {Nil}] /\ ref \in [Players -> Matches \cup {Nil}]
  /\ fetching \in [Keys -> Nat] /\ applying \in [Keys -> Messages \cup {Nil}]
  /\ expiring \subseteq Keys /\ shown \in [Messages -> Cards \cup {Nil}]
  /\ \A k \in Keys : IsCardOf(cards[k], k) /\ IsCardOf(applying[k], k)
  /\ \A f \in Feeds : sending[f] # NoCall =>
       /\ IsCardOf(sending[f].card, sending[f].key)
       /\ sending[f].step = "edit" => sending[f].card # Nil
MarksTyped ==
  /\ doubled \in BOOLEAN /\ closed \subseteq Keys /\ strayed \subseteq Matches \cup {Nil}
  /\ mishaps \in 0..MaxMishaps
CardsTyped == PlayersTyped /\ FeedsTyped /\ CardsKnown /\ MarksTyped

\* A fault is counted within its bound.
LEMMA MishapTyped == ASSUME CardsAssumption, mishaps \in 0..MaxMishaps, Mishap
                     PROVE  mishaps' \in 0..MaxMishaps
  BY DEF CardsAssumption, Mishap

\* What follows the sending of a card.
LEMMA SentTyped ==
  ASSUME CardsAssumption, CardsTyped, NEW f \in Feeds, sending[f] # NoCall, Sent(f)
  PROVE  /\ PlayersTyped' /\ FeedsTyped'
         /\ ref' \in [Players -> Matches \cup {Nil}] /\ fetching' \in [Keys -> Nat]
         /\ applying' = applying /\ expiring' \subseteq Keys
         /\ doubled' = doubled /\ closed' \subseteq Keys /\ strayed' = strayed
         /\ sending' = [sending EXCEPT ![f] = NoCall]
<1>1. event[f] \in Events /\ sending[f] \in Calls /\ sending[f].key \in Keys
  BY DEF CardsTyped, FeedsTyped, Handling, Calls
<1>2. event[f].player \in Players BY <1>1 DEF Events
<1>3. PlayersTyped' BY DEF Sent, world, CardsTyped, PlayersTyped
<1>4. FeedsTyped'
  <2>1. /\ sending' = [sending EXCEPT ![f] = NoCall] /\ stream' = stream /\ feeds' = feeds
        /\ Served(f, sending[f].key[1])
    BY DEF Sent
  <2>2. unserved' \in [Feeds -> SUBSET Guilds] BY <2>1 DEF Served, CardsTyped, FeedsTyped
  <2>3. event' \in [Feeds -> Events \cup {NoEvent}] BY <2>1 DEF Served, CardsTyped, FeedsTyped
  <2>4. \A h \in Feeds : h # f => event'[h] = event[h]
    BY <2>1 DEF Served, CardsTyped, FeedsTyped
  <2>5. ASSUME NEW h \in Feeds, sending'[h] # NoCall PROVE Handling(h)'
    BY <2>1, <2>4, <2>5 DEF CardsTyped, FeedsTyped, Handling
  <2> QED BY <2>1, <2>2, <2>3, <2>5 DEF CardsTyped, FeedsTyped
<1>5. ref' \in [Players -> Matches \cup {Nil}] BY <1>2 DEF Sent, CardsTyped, CardsKnown
<1>6. fetching' \in [Keys -> Nat] BY <1>1 DEF Sent, CardsTyped, CardsKnown
<1>7. expiring' \subseteq Keys /\ closed' \subseteq Keys
  BY <1>1 DEF Sent, CardsTyped, CardsKnown, MarksTyped
<1> QED BY <1>3, <1>4, <1>5, <1>6, <1>7 DEF Sent

\* A card keeps its guild and its match: what the bot has in hand stays right.
Kept == \A m \in Messages : shown[m] # Nil => shown'[m] # Nil /\ shown'[m].key = shown[m].key
LEMMA CardsStay ==
  ASSUME Kept
  PROVE  \A m \in Messages \cup {Nil}, k \in Keys :
           (m = Nil \/ (shown[m] # Nil /\ shown[m].key = k))
             => (m = Nil \/ (shown'[m] # Nil /\ shown'[m].key = k))
  BY DEF Kept

\* What is being sent goes on, or is sent anew with the card that is known.
GoesOn(f) ==
  \/ sending'[f] = sending[f]
  \/ /\ sending'[f].step = "edit" => sending'[f].card # Nil
     /\ \/ sending'[f].card \in {Nil, cards[sending'[f].key]}
        \/ /\ sending[f] # NoCall /\ sending'[f].key = sending[f].key
           /\ sending'[f].card = sending[f].card

\* A step changes the cards of the bot, its results, or what is being sent, to
\* none or to others of the same guild and match.
LEMMA CardsKnownStep ==
  ASSUME CardsTyped, Kept, shown' \in [Messages -> Cards \cup {Nil}],
         cards' \in [Keys -> Messages \cup {Nil}], ref' \in [Players -> Matches \cup {Nil}],
         fetching' \in [Keys -> Nat], applying' \in [Keys -> Messages \cup {Nil}],
         expiring' \subseteq Keys, sending' \in [Feeds -> Calls \cup {NoCall}],
         \A k \in Keys : cards'[k] \in {Nil, cards[k]} \/ IsCardOf(cards[k], k)',
         \A k \in Keys : applying'[k] \in {Nil, applying[k], cards[k]},
         \A f \in Feeds : sending'[f] # NoCall => GoesOn(f)
  PROVE  CardsKnown'
<1>1. ASSUME NEW k \in Keys PROVE IsCardOf(cards[k], k)' /\ IsCardOf(applying[k], k)'
  BY <1>1, CardsStay DEF CardsTyped, CardsKnown, IsCardOf
<1>2. ASSUME NEW f \in Feeds, sending'[f] # NoCall
      PROVE  /\ IsCardOf(sending[f].card, sending[f].key)'
             /\ sending'[f].step = "edit" => sending'[f].card # Nil
  <2>1. sending'[f].key \in Keys /\ sending'[f].card \in Messages \cup {Nil}
    BY <1>2 DEF Calls
  <2>2. CASE sending'[f] = sending[f]
    BY <2>1, <2>2, <1>2, CardsStay DEF CardsTyped, CardsKnown, IsCardOf
  <2>3. ASSUME sending'[f] # sending[f]
        PROVE  /\ IsCardOf(sending[f].card, sending[f].key)'
               /\ sending'[f].step = "edit" => sending'[f].card # Nil
    BY <2>1, <2>3, <1>2, CardsStay DEF GoesOn, CardsTyped, CardsKnown, IsCardOf
  <2> QED BY <2>2, <2>3
<1> QED BY <1>1, <1>2 DEF CardsKnown

\* The outcome of sending a card, whichever it is.
Outcome(f) ==
  \/ Unresolved(f) \/ EditCard(f) \/ SendCardFails(f) \/ \E m \in Messages : SendCard(f, m)
LEMMA OutcomeKept ==
  ASSUME CardsAssumption, CardsTyped, NEW f \in Feeds, sending[f] # NoCall, Outcome(f)
  PROVE  /\ Kept /\ shown' \in [Messages -> Cards \cup {Nil}]
         /\ cards' \in [Keys -> Messages \cup {Nil}]
         /\ \A k \in Keys : cards'[k] = cards[k] \/ IsCardOf(cards[k], k)'
<1>1. sending[f] # NoCall OBVIOUS
<1>2. sending[f] \in Calls /\ sending[f].key \in Keys
  BY <1>1 DEF CardsTyped, FeedsTyped, Calls
<1>3. CASE Unresolved(f) \/ SendCardFails(f)
  BY <1>3 DEF Unresolved, SendCardFails, Kept, CardsTyped, CardsKnown
<1>4. CASE EditCard(f)
  <2>1. /\ sending[f].card \in Messages /\ shown[sending[f].card] \in Cards /\ cards' = cards
        /\ sending[f].shows \in Texts
    <3>1. cards' = cards /\ sending[f].shows \in Texts
      BY <1>2, <1>4 DEF EditCard, Calls, Texts
    <3>2. sending[f].card \in Messages /\ shown[sending[f].card] # Nil
      BY <1>1, <1>2, <1>4 DEF EditCard, At, CardsTyped, CardsKnown, IsCardOf, Calls
    <3> QED BY <3>1, <3>2 DEF CardsTyped, CardsKnown
  <2>2. shown' = [shown EXCEPT ![sending[f].card].shows = sending[f].shows] BY <1>4 DEF EditCard
  <2>3. shown' \in [Messages -> Cards \cup {Nil}]
    BY <2>1, <2>2 DEF CardsTyped, CardsKnown, Cards
  <2>4. ASSUME NEW m \in Messages, shown[m] # Nil
        PROVE  shown'[m] # Nil /\ shown'[m].key = shown[m].key
    <3>1. CASE m = sending[f].card
      <4>1. /\ shown'[m] = [shown[m] EXCEPT !.shows = sending[f].shows]
            /\ shown[m] = [key |-> shown[m].key, shows |-> shown[m].shows]
        BY <2>1, <2>2, <3>1 DEF CardsTyped, CardsKnown, Cards
      <4>2. shown'[m] = [key |-> shown[m].key, shows |-> sending[f].shows] BY <4>1
      <4>3. shown[m].key \in Keys BY <2>1, <3>1 DEF Cards
      <4> QED BY <4>2, <4>3, <2>1 DEF CardsAssumption
    <3>2. CASE m # sending[f].card BY <2>2, <2>4, <3>2 DEF CardsTyped, CardsKnown
    <3> QED BY <3>1, <3>2
  <2> QED BY <2>1, <2>3, <2>4 DEF Kept, CardsTyped, CardsKnown
<1>5. ASSUME NEW m \in Messages, SendCard(f, m)
      PROVE  /\ Kept /\ shown' \in [Messages -> Cards \cup {Nil}]
             /\ cards' \in [Keys -> Messages \cup {Nil}]
             /\ \A k \in Keys : cards'[k] = cards[k] \/ IsCardOf(cards[k], k)'
  <2> DEFINE k == sending[f].key
  <2> DEFINE new == [key |-> k, shows |-> sending[f].shows]
  <2>1. /\ shown[m] = Nil /\ shown' = [shown EXCEPT ![m] = new]
        /\ cards' = [cards EXCEPT ![k] = m]
    BY <1>5 DEF SendCard
  <2>2. new \in Cards /\ new # Nil /\ new.key = k
    BY <1>2 DEF Calls, Cards, Texts, CardsAssumption
  <2> HIDE DEF new
  <2>3. shown' \in [Messages -> Cards \cup {Nil}] /\ shown'[m] = new /\ cards'[k] = m
    BY <2>1, <2>2, <1>2 DEF CardsTyped, CardsKnown
  <2>4. Kept BY <2>1 DEF Kept, CardsTyped, CardsKnown
  <2>5. cards' \in [Keys -> Messages \cup {Nil}] BY <2>1, <1>2 DEF CardsTyped, CardsKnown
  <2>6. ASSUME NEW j \in Keys PROVE cards'[j] = cards[j] \/ IsCardOf(cards[j], j)'
    BY <2>1, <2>2, <2>3 DEF IsCardOf, CardsTyped, CardsKnown
  <2> QED BY <2>3, <2>4, <2>5, <2>6
<1> QED BY <1>3, <1>4, <1>5 DEF Outcome

LEMMA OutcomeTyped ==
  ASSUME CardsAssumption, CardsTyped, NEW f \in Feeds, Outcome(f)
  PROVE  CardsTyped'
<1>1. sending[f] # NoCall /\ Sent(f)
  BY DEF Outcome, Unresolved, EditCard, SendCardFails, SendCard, At
<1>2. sending[f] \in Calls /\ sending[f].key \in Keys
  BY <1>1 DEF CardsTyped, FeedsTyped, Calls
<1>3. mishaps' \in 0..MaxMishaps
  BY MishapTyped DEF Outcome, Unresolved, EditCard, SendCardFails, SendCard, CardsTyped, MarksTyped
<1>4. /\ Kept /\ shown' \in [Messages -> Cards \cup {Nil}]
      /\ cards' \in [Keys -> Messages \cup {Nil}]
      /\ \A k \in Keys : cards'[k] = cards[k] \/ IsCardOf(cards[k], k)'
  BY <1>1, OutcomeKept
<1>5. /\ PlayersTyped' /\ FeedsTyped' /\ ref' \in [Players -> Matches \cup {Nil}]
      /\ fetching' \in [Keys -> Nat] /\ applying' = applying /\ expiring' \subseteq Keys
      /\ doubled' = doubled /\ closed' \subseteq Keys /\ strayed' = strayed
      /\ sending' = [sending EXCEPT ![f] = NoCall]
  BY <1>1, SentTyped
<1>6. CardsKnown'
  <2>1. \A h \in Feeds : sending'[h] # NoCall => sending'[h] = sending[h]
    BY <1>5 DEF CardsTyped, FeedsTyped
  <2> \A h \in Feeds : sending'[h] # NoCall => GoesOn(h) BY <2>1 DEF GoesOn
  <2>2. sending' \in [Feeds -> Calls \cup {NoCall}] BY <1>5 DEF FeedsTyped
  <2>3. applying' \in [Keys -> Messages \cup {Nil}] BY <1>5 DEF CardsTyped, CardsKnown
  <2> QED BY <1>4, <1>5, <2>1, <2>2, <2>3, CardsKnownStep
<1> QED BY <1>3, <1>5, <1>6 DEF CardsTyped, MarksTyped

\* What a feed does before and between the awaits of a sending.
Handle(f) ==
  \/ Take(f) \/ ResolveLogs(f) \/ EditCardFails(f)
  \/ \E g \in Guilds : PassOver(f, g) \/ ServeGuild(f, g)
LEMMA RefTyped ==
  ASSUME CardsTyped, NEW f \in Feeds, Handling(f)
  PROVE  event[f] \in Events /\ event[f].player \in Players
         /\ MatchRef(event[f]) \in Matches \cup {Nil}
<1>1. event[f] \in Events BY DEF Handling, CardsTyped, FeedsTyped
<1>2. event[f].player \in Players /\ event[f].ref \in Matches \cup {Nil} BY <1>1 DEF Events
<1> QED BY <1>1, <1>2 DEF MatchRef, CardsTyped, CardsKnown

LEMMA Stepped ==
  ASSUME NEW c \in Calls, NEW a, NEW b
  PROVE  [c EXCEPT !.step = a, !.card = b]
           = [step |-> a, key |-> c.key, shows |-> c.shows, card |-> b]
<1> DEFINE d == [c EXCEPT !.step = a]
<1>1. c = [step |-> c.step, key |-> c.key, shows |-> c.shows, card |-> c.card] BY DEF Calls
<1>2. d = [step |-> a, key |-> c.key, shows |-> c.shows, card |-> c.card] BY <1>1
<1>3. [c EXCEPT !.step = a, !.card = b] = [d EXCEPT !.card = b] OBVIOUS
<1> HIDE DEF d
<1>4. [d EXCEPT !.card = b] = [step |-> a, key |-> c.key, shows |-> c.shows, card |-> b] BY <1>2
<1> QED BY <1>3, <1>4

LEMMA HandleTyped ==
  ASSUME CardsAssumption, CardsTyped, NEW f \in Feeds, Handle(f)
  PROVE  CardsTyped'
<1>1. /\ UNCHANGED <<world, feeds, results, marks, shown>>
  BY DEF Handle, Take, ResolveLogs, EditCardFails, PassOver, ServeGuild
<1>2. PlayersTyped' BY <1>1 DEF world, CardsTyped, PlayersTyped
<1>3. mishaps' \in 0..MaxMishaps
  BY MishapTyped DEF Handle, Take, ResolveLogs, EditCardFails, PassOver, ServeGuild, CardsTyped,
     MarksTyped
<1>4. MarksTyped' BY <1>1, <1>3 DEF marks, CardsTyped, MarksTyped
<1>5. SUFFICES FeedsTyped' /\ CardsKnown' BY <1>2, <1>4 DEF CardsTyped
<1>6. /\ Kept /\ shown' \in [Messages -> Cards \cup {Nil}] /\ fetching' = fetching
      /\ applying' = applying /\ expiring' = expiring /\ feeds' = feeds
  BY <1>1 DEF Kept, results, CardsTyped, CardsKnown
<1>7. SUFFICES /\ FeedsTyped' /\ cards' \in [Keys -> Messages \cup {Nil}]
               /\ ref' \in [Players -> Matches \cup {Nil}]
               /\ \A k \in Keys : cards'[k] \in {Nil, cards[k]}
               /\ \A h \in Feeds : sending'[h] # NoCall => GoesOn(h)
  <2> SUFFICES CardsKnown' BY <1>7
  <2>1. sending' \in [Feeds -> Calls \cup {NoCall}] BY <1>7 DEF FeedsTyped
  <2>2. /\ fetching' \in [Keys -> Nat] /\ applying' \in [Keys -> Messages \cup {Nil}]
        /\ expiring' \subseteq Keys
    BY <1>6 DEF CardsTyped, CardsKnown
  <2> QED BY <1>6, <1>7, <2>1, <2>2, CardsKnownStep
<1>8. CASE Take(f)
  <2>1. Head(stream[f]) \in Events /\ Tail(stream[f]) \in Seq(Events)
    BY <1>8 DEF Take, CardsTyped, FeedsTyped
  <2>2. sending' = sending /\ cards' = cards /\ ref' = ref BY <1>8 DEF Take
  <2>3. /\ event' = [event EXCEPT ![f] = Head(stream[f])]
        /\ unserved' = [unserved EXCEPT ![f] = Guilds]
        /\ stream' = [stream EXCEPT ![f] = Tail(@)]
    BY <1>8 DEF Take
  <2>4. Head(stream[f]) # NoEvent BY <2>1 DEF Events, NoEvent, CardsAssumption
  <2>5. \A h \in Feeds : sending[h] # NoCall => Handling(h)'
    BY <2>1, <2>3, <2>4 DEF CardsTyped, FeedsTyped, Handling
  <2>6. FeedsTyped' BY <1>6, <2>1, <2>2, <2>3, <2>5 DEF CardsTyped, FeedsTyped
  <2> QED BY <2>2, <2>6 DEF CardsTyped, CardsKnown, GoesOn
<1>9. CASE ResolveLogs(f) \/ EditCardFails(f)
  <2>1. sending[f] \in Calls /\ sending[f] # NoCall
    BY <1>9 DEF ResolveLogs, EditCardFails, At, CardsTyped, FeedsTyped
  <2>2. stream' = stream /\ event' = event /\ unserved' = unserved /\ ref' = ref
    BY <1>9 DEF ResolveLogs, EditCardFails
  <2>3. /\ sending' \in [Feeds -> Calls \cup {NoCall}]
        /\ \A h \in Feeds : sending'[h] # NoCall => sending[h] # NoCall
        /\ \A h \in Feeds \ {f} : sending'[h] = sending[h]
        /\ cards' \in [Keys -> Messages \cup {Nil}] /\ \A k \in Keys : cards'[k] \in {Nil, cards[k]}
        /\ GoesOn(f)
    <3> DEFINE c == sending[f]
    <3> DEFINE With(step, m) == [step |-> step, key |-> c.key, shows |-> c.shows, card |-> m]
    <3>1. c = With(c.step, c.card) /\ c.key \in Keys BY <2>1 DEF Calls
    <3>2. ASSUME NEW step \in {"send", "edit"}, NEW m \in Messages \cup {Nil}
          PROVE  /\ With(step, m) \in Calls /\ With(step, m).key = c.key
                 /\ With(step, m).card = m /\ With(step, m).step = step
      BY <2>1 DEF Calls
    <3>3. ASSUME NEW step \in {"send", "edit"}, NEW m \in Messages \cup {Nil},
                 sending' = [sending EXCEPT ![f] = With(step, m)],
                 m \in {c.card, cards[c.key]}, step = "edit" => m # Nil
          PROVE  /\ sending' \in [Feeds -> Calls \cup {NoCall}]
                 /\ \A h \in Feeds : sending'[h] # NoCall => sending[h] # NoCall
                 /\ \A h \in Feeds \ {f} : sending'[h] = sending[h]
                 /\ GoesOn(f)
      <4> HIDE DEF With
      <4>1. /\ sending'[f].key = c.key /\ sending'[f].card = m /\ sending'[f].step = step
            /\ sending' \in [Feeds -> Calls \cup {NoCall}]
            /\ \A h \in Feeds \ {f} : sending'[h] = sending[h]
        BY <3>2, <3>3 DEF CardsTyped, FeedsTyped
      <4>2. GoesOn(f) BY <4>1, <3>3, <2>1 DEF GoesOn
      <4> QED BY <4>1, <4>2, <2>1
    <3>4. CASE ResolveLogs(f)
      <4> DEFINE m == cards[c.key]
      <4>1. m \in Messages \cup {Nil} /\ KnownCard(f) = m
        BY <3>1 DEF KnownCard, CardsTyped, CardsKnown
      <4>2. sending' = [sending EXCEPT ![f] = With(IF m = Nil THEN "send" ELSE "edit", m)]
        <5> DEFINE step == IF m = Nil THEN "send" ELSE "edit"
        <5>1. sending' = [sending EXCEPT ![f] = [c EXCEPT !.step = step, !.card = m]]
          BY <3>4, <4>1 DEF ResolveLogs, CardsTyped, FeedsTyped
        <5> HIDE DEF step
        <5>2. [c EXCEPT !.step = step, !.card = m] = With(step, m) BY <2>1, Stepped
        <5> QED BY <5>1, <5>2 DEF step
      <4>3. cards' = cards BY <3>4 DEF ResolveLogs
      <4> QED BY <4>1, <4>2, <4>3, <3>3 DEF CardsTyped, CardsKnown
    <3>5. CASE EditCardFails(f)
      <4>1. sending' = [sending EXCEPT ![f] = With("send", c.card)]
        <5>1. sending' = [sending EXCEPT ![f] = [c EXCEPT !.step = "send"]]
          BY <3>5 DEF EditCardFails, CardsTyped, FeedsTyped
        <5>2. [c EXCEPT !.step = "send"] = With("send", c.card) BY <3>1
        <5> QED BY <5>1, <5>2
      <4>2. cards' = [cards EXCEPT ![c.key] = Nil] BY <3>5 DEF EditCardFails
      <4>3. c.card \in Messages \cup {Nil} BY <2>1 DEF Calls
      <4> QED BY <4>1, <4>2, <4>3, <3>1, <3>3 DEF CardsTyped, CardsKnown
    <3> QED BY <1>9, <3>4, <3>5
  <2>4. FeedsTyped' BY <1>6, <2>2, <2>3 DEF CardsTyped, FeedsTyped, Handling
  <2> QED BY <2>2, <2>3, <2>4 DEF CardsTyped, CardsKnown, GoesOn
<1>10. ASSUME NEW g \in Guilds, PassOver(f, g) \/ ServeGuild(f, g)
       PROVE  /\ FeedsTyped' /\ cards' \in [Keys -> Messages \cup {Nil}]
              /\ ref' \in [Players -> Matches \cup {Nil}]
              /\ \A k \in Keys : cards'[k] \in {Nil, cards[k]}
              /\ \A h \in Feeds : sending'[h] # NoCall => GoesOn(h)
  <2>1. /\ event[f] \in Events /\ event[f].player \in Players /\ sending[f] = NoCall /\ Handling(f)
        /\ MatchRef(event[f]) \in Matches \cup {Nil}
    BY <1>10, RefTyped DEF PassOver, ServeGuild, Serving
  <2>2. stream' = stream /\ cards' = cards BY <1>10 DEF PassOver, ServeGuild
  <2>3. CASE Served(f, g) /\ UNCHANGED <<sending, ref>>
    <3>1. event' \in [Feeds -> Events \cup {NoEvent}] /\ unserved' \in [Feeds -> SUBSET Guilds]
      BY <2>3 DEF Served, CardsTyped, FeedsTyped
    <3>2. \A h \in Feeds : h # f => event'[h] = event[h]
      BY <2>3 DEF Served, CardsTyped, FeedsTyped
    <3>3. \A h \in Feeds : sending'[h] # NoCall => Handling(h)'
      BY <2>1, <2>3, <3>2 DEF CardsTyped, FeedsTyped, Handling
    <3>4. FeedsTyped' BY <1>6, <2>2, <2>3, <3>1, <3>3 DEF CardsTyped, FeedsTyped
    <3> QED BY <2>2, <2>3, <3>4 DEF CardsTyped, CardsKnown, GoesOn
  <2>4. ASSUME ~ (Served(f, g) /\ UNCHANGED <<sending, ref>>)
        PROVE  /\ FeedsTyped' /\ ref' \in [Players -> Matches \cup {Nil}]
               /\ \A h \in Feeds : sending'[h] # NoCall => GoesOn(h)
    <3> DEFINE k == <<g, MatchRef(event[f])>>
    <3> DEFINE new == [step |-> "resolve", key |-> k, shows |-> Shows(event[f]), card |-> Nil]
    <3>1. /\ MatchRef(event[f]) # Nil /\ sending' = [sending EXCEPT ![f] = new]
          /\ ref' = IF event[f].new = "offline" THEN ref
                    ELSE Remembered(event[f].player, MatchRef(event[f]))
          /\ unserved' = unserved /\ event' = event
      BY <1>10, <2>4 DEF PassOver, ServeGuild
    <3>2. new \in Calls /\ new.card = Nil /\ new.step = "resolve"
      BY <2>1, <3>1 DEF Calls, Keys, Shows
    <3> HIDE DEF new
    <3>3. FeedsTyped' BY <1>6, <2>1, <2>2, <3>1, <3>2 DEF CardsTyped, FeedsTyped, Handling
    <3>4. ref' \in [Players -> Matches \cup {Nil}]
      BY <2>1, <3>1 DEF Remembered, CardsTyped, CardsKnown
    <3>5. \A h \in Feeds : sending'[h] # NoCall => GoesOn(h)
      BY <3>1, <3>2 DEF GoesOn, CardsTyped, FeedsTyped
    <3> QED BY <3>3, <3>4, <3>5
  <2> QED BY <2>2, <2>3, <2>4 DEF CardsTyped, CardsKnown
<1> QED BY <1>8, <1>9, <1>10 DEF Handle

\* The results of the matches, and the stream that breaks.
LEMMA ApplyKept ==
  ASSUME CardsAssumption, CardsTyped, NEW k \in Keys, Apply(k)
  PROVE  /\ Kept /\ shown' \in [Messages -> Cards \cup {Nil}]
         /\ applying[k] \in Messages /\ shown[applying[k]] # Nil
<1> DEFINE m == applying[k]
<1>1. /\ m \in Messages /\ shown[m] # Nil /\ shown[m] \in Cards
      /\ shown' = [shown EXCEPT ![m].shows = "result"]
  BY DEF Apply, CardsTyped, CardsKnown, IsCardOf
<1>2. shown'[m] = [shown[m] EXCEPT !.shows = "result"] BY <1>1 DEF CardsTyped, CardsKnown
<1>3. shown'[m] = [key |-> shown[m].key, shows |-> "result"] BY <1>1, <1>2 DEF Cards
<1>4. shown[m].key \in Keys /\ "result" \in Texts BY <1>1 DEF Cards, Texts
<1>5. shown'[m] # Nil /\ shown'[m] \in Cards BY <1>3, <1>4 DEF Cards, CardsAssumption
<1> QED BY <1>5, <1>1, <1>3 DEF Kept, CardsTyped, CardsKnown

LEMMA ConcludeTyped ==
  ASSUME CardsAssumption, CardsTyped, Conclude
  PROVE  CardsTyped'
<1> PICK k \in Keys : Fetch(k) \/ Apply(k) \/ ApplyFails(k) \/ Expire(k) BY DEF Conclude
<1>1. /\ UNCHANGED <<world, stream, feeds, event, unserved, sending, ref, marks>>
      /\ mishaps' \in 0..MaxMishaps
  BY MishapTyped DEF Fetch, Apply, ApplyFails, Expire, CardsTyped, MarksTyped
<1>2. PlayersTyped' /\ FeedsTyped' /\ MarksTyped'
  BY <1>1 DEF world, marks, CardsTyped, PlayersTyped, FeedsTyped, MarksTyped, Handling
<1>3. /\ fetching' \in [Keys -> Nat] /\ expiring' \subseteq Keys
      /\ applying' \in [Keys -> Messages \cup {Nil}] /\ cards' \in [Keys -> Messages \cup {Nil}]
  <2>1. expiring' \subseteq Keys /\ cards' \in [Keys -> Messages \cup {Nil}]
    BY DEF Fetch, Apply, ApplyFails, Expire, CardsTyped, CardsKnown
  <2>2. fetching' \in [Keys -> Nat] BY DEF Fetch, Apply, ApplyFails, Expire, CardsTyped, CardsKnown
  <2>3. applying' \in [Keys -> Messages \cup {Nil}]
    BY DEF Fetch, Apply, ApplyFails, Expire, CardsTyped, CardsKnown
  <2> QED BY <2>1, <2>2, <2>3
<1>4. /\ \A j \in Keys : cards'[j] \in {Nil, cards[j]}
      /\ \A j \in Keys : applying'[j] \in {Nil, applying[j], cards[j]}
  BY DEF Fetch, Apply, ApplyFails, Expire, CardsTyped, CardsKnown
<1>5. Kept /\ shown' \in [Messages -> Cards \cup {Nil}]
  <2>1. CASE Apply(k) BY <2>1, ApplyKept
  <2>2. CASE ~ Apply(k)
    BY <2>2 DEF Fetch, ApplyFails, Expire, Kept, CardsTyped, CardsKnown
  <2> QED BY <2>1, <2>2
<1>6. CardsKnown'
  <2>1. /\ sending' \in [Feeds -> Calls \cup {NoCall}] /\ ref' \in [Players -> Matches \cup {Nil}]
        /\ \A f \in Feeds : GoesOn(f)
    BY <1>1 DEF GoesOn, CardsTyped, FeedsTyped, CardsKnown
  <2> QED BY <1>3, <1>4, <1>5, <2>1, CardsKnownStep
<1> QED BY <1>2, <1>6 DEF CardsTyped

LEMMA BelievedTyped ==
  ASSUME CardsTyped, NEW f \in Feeds, NEW p \in Players
  PROVE  Believed(f, p) \subseteq Matches \cup {Nil}
  BY DEF Believed, Handling, CardsTyped, FeedsTyped, CardsKnown, Events

LEMMA DisturbedTyped ==
  ASSUME CardsAssumption, CardsTyped, NEW f \in Feeds, Break(f) \/ Ready(f) \/ BotRestarts(f)
  PROVE  CardsTyped'
<1>1. UNCHANGED <<world, shown, closed>> /\ mishaps' \in 0..MaxMishaps
  BY MishapTyped DEF Break, Ready, BotRestarts, CardsTyped, MarksTyped
<1>2. PlayersTyped' BY <1>1 DEF world, CardsTyped, PlayersTyped
<1>3. strayed' \subseteq Matches \cup {Nil} /\ doubled' \in BOOLEAN
  <2>1. CASE Break(f)
    <3>1. \A i \in DOMAIN stream[f] : stream[f][i].player \in Players
      <4>1. stream[f] \in Seq(Events) BY DEF CardsTyped, FeedsTyped
      <4>2. \A i \in DOMAIN stream[f] : stream[f][i] \in Events BY <4>1
      <4> QED BY <4>2 DEF Events
    <3>2. \A i \in DOMAIN stream[f] :
             Believed(f, stream[f][i].player) \subseteq Matches \cup {Nil}
      BY <3>1, BelievedTyped
    <3> QED BY <2>1, <3>2 DEF Break, CardsTyped, MarksTyped
  <2>2. CASE Ready(f) \/ BotRestarts(f)
    BY <2>2 DEF Ready, BotRestarts, CardsTyped, MarksTyped
  <2> QED BY <2>1, <2>2
<1>4. FeedsTyped'
  <2>1. CASE Break(f)
    <3>1. stream' \in [Feeds -> Seq(Events)] BY <2>1 DEF Break, CardsTyped, FeedsTyped
    <3> QED BY <2>1, <3>1 DEF Break, CardsTyped, FeedsTyped, Handling
  <2>2. CASE Ready(f) BY <2>2 DEF Ready, CardsTyped, FeedsTyped, Handling
  <2>3. CASE BotRestarts(f)
    BY <2>3 DEF BotRestarts, NoStreams, NoEvents, NoneLeft, NoCalls, CardsTyped, FeedsTyped,
      Handling
  <2> QED BY <2>1, <2>2, <2>3
<1>5. CardsKnown'
  <2>1. CASE Break(f) \/ Ready(f)
    BY <2>1 DEF Break, Ready, results, CardsTyped, CardsKnown, IsCardOf
  <2>2. CASE BotRestarts(f)
    BY <2>2 DEF BotRestarts, NoCards, Nobody, NoCalls, CardsTyped, CardsKnown, IsCardOf
  <2> QED BY <2>1, <2>2
<1> QED BY <1>1, <1>2, <1>3, <1>4, <1>5 DEF CardsTyped, MarksTyped

\* The players: their transitions are told.
LEMMA PlayTyped ==
  ASSUME CardsAssumption, CardsTyped, Play
  PROVE  CardsTyped'
<1>1. UNCHANGED <<bot, shown, mishaps>>
  BY DEF Play, EnterGame, GoOffline, EnterLobby
<1>2. CardsKnown' /\ MarksTyped'
  BY <1>1 DEF bot, results, marks, CardsTyped, CardsKnown, MarksTyped, IsCardOf
<1>3. PICK p \in Players : EnterGame(p) \/ GoOffline(p) \/ \E m \in Matches : EnterLobby(p, m)
  BY DEF Play
<1>4. /\ PlayersTyped' /\ \E e \in Events : Told(e)
  <2>1. CASE EnterGame(p)
    <3>1. /\ status' = [status EXCEPT ![p] = "in_game"] /\ launched' = launched \cup {playing[p]}
          /\ playing' = playing /\ left' = left /\ playing[p] \in Matches /\ status[p] \in Statuses
          /\ Told(Transition(p, "in_game", playing[p]))
      BY <2>1 DEF EnterGame, CardsTyped, PlayersTyped
    <3>2. Transition(p, "in_game", playing[p]) \in Events
      BY <3>1 DEF Transition, Events, Statuses
    <3>3. PlayersTyped' BY <3>1 DEF CardsTyped, PlayersTyped, Statuses
    <3> QED BY <3>1, <3>2, <3>3
  <2>2. CASE GoOffline(p)
    <3>1. /\ status' = [status EXCEPT ![p] = "offline"] /\ playing' = [playing EXCEPT ![p] = Nil]
          /\ left' = IF status[p] = "in_game" THEN left \cup {playing[p]} ELSE left
          /\ launched' = launched /\ status[p] \in Statuses /\ Told(Transition(p, "offline", Nil))
      BY <2>2 DEF GoOffline, CardsTyped, PlayersTyped
    <3>2. Transition(p, "offline", Nil) \in Events BY <3>1 DEF Transition, Events, Statuses
    <3>3. PlayersTyped' BY <3>1 DEF CardsTyped, PlayersTyped, Statuses
    <3> QED BY <3>1, <3>2, <3>3
  <2>3. ASSUME NEW m \in Matches, EnterLobby(p, m)
        PROVE  PlayersTyped' /\ \E e \in Events : Told(e)
    <3>1. /\ status' = [status EXCEPT ![p] = "in_lobby"] /\ playing' = [playing EXCEPT ![p] = m]
          /\ left' = left /\ launched' = launched /\ status[p] \in Statuses
          /\ Told(Transition(p, "in_lobby", m))
      BY <2>3 DEF EnterLobby, CardsTyped, PlayersTyped
    <3>2. Transition(p, "in_lobby", m) \in Events BY <3>1 DEF Transition, Events, Statuses
    <3>3. PlayersTyped' BY <3>1 DEF CardsTyped, PlayersTyped, Statuses
    <3> QED BY <3>1, <3>2, <3>3
  <2> QED BY <1>3, <2>1, <2>2, <2>3
<1>5. PICK e \in Events : Told(e) BY <1>4
<1>6. stream' \in [Feeds -> Seq(Events)]
  <2>1. \A f \in Feeds : Append(stream[f], e) \in Seq(Events) BY DEF CardsTyped, FeedsTyped
  <2> QED BY <1>5, <2>1 DEF Told, CardsTyped, FeedsTyped
<1>7. FeedsTyped' BY <1>1, <1>6 DEF bot, CardsTyped, FeedsTyped, Handling
<1> QED BY <1>2, <1>4, <1>7 DEF CardsTyped

LEMMA CardsTypedInit == ASSUME CardsAssumption, CardsInit PROVE CardsTyped
<1>1. PlayersTyped BY DEF CardsInit, Nobody, Statuses, PlayersTyped
<1>2. FeedsTyped
  BY DEF CardsInit, NoStreams, NoEvents, NoneLeft, NoCalls, FeedsTyped, Handling
<1>3. CardsKnown
  BY DEF CardsInit, NoCards, Nobody, NoCalls, CardsKnown, IsCardOf
<1>4. MarksTyped
  <2>1. mishaps \in 0..MaxMishaps BY DEF CardsInit, CardsAssumption
  <2> QED BY <2>1 DEF CardsInit, MarksTyped
<1> QED BY <1>1, <1>2, <1>3, <1>4 DEF CardsTyped

LEMMA CardsTypedStep ==
  ASSUME CardsAssumption, CardsTyped, [CardsNext]_cardVars PROVE CardsTyped'
<1>1. CASE UNCHANGED cardVars
  BY <1>1 DEF cardVars, world, bot, results, marks, CardsTyped, PlayersTyped, FeedsTyped,
     CardsKnown, MarksTyped, IsCardOf, Handling
<1>2. ASSUME NEW f \in Feeds, Consume(f) PROVE CardsTyped'
  BY <1>2, OutcomeTyped, HandleTyped DEF Consume, Outcome, Handle
<1>3. CASE CardsNext
  BY <1>2, <1>3, DisturbedTyped, ConcludeTyped, PlayTyped DEF CardsNext
<1> QED BY <1>1, <1>3

\* Every reachable state of the cards is well typed, for every set of guilds,
\* players, matches, messages and feeds.
THEOREM CardsTypeCorrect == CardsSpec => []CardsTypeOK
<1>1. CardsInit => CardsTyped BY CardsTypedInit, CardsAssumption
<1>2. CardsTyped /\ [CardsNext]_cardVars => CardsTyped' BY CardsTypedStep, CardsAssumption
<1>3. CardsTyped => CardsTypeOK
  BY DEF CardsTyped, PlayersTyped, FeedsTyped, CardsKnown, MarksTyped, CardsTypeOK, Cards
<1> QED BY <1>1, <1>2, <1>3, PTL DEF CardsSpec

-----------------------------------------------------------------------------
(* One message per match and guild.                                         *)

\* A feed that does not run has nothing in hand; one feed runs until the bot is
\* ready again.
FeedsRun ==
  /\ feeds # {}
  /\ \A f \in Feeds \ feeds : stream[f] = <<>> /\ event[f] = NoEvent /\ sending[f] = NoCall
  /\ ~doubled => \E f \in Feeds : feeds = {f}

LEMMA FeedsRunStep ==
  ASSUME CardsAssumption, CardsTyped, FeedsRun, [CardsNext]_cardVars PROVE FeedsRun'
<1>1. CASE UNCHANGED cardVars BY <1>1 DEF cardVars, bot, marks, FeedsRun
<1>2. ASSUME NEW f \in Feeds, Consume(f) PROVE FeedsRun'
  <2>1. f \in feeds
    BY <1>2 DEF Consume, Take, ResolveLogs, Unresolved, EditCard, EditCardFails, SendCardFails,
       PassOver, ServeGuild, SendCard, Serving, At, Handling, FeedsRun
  <2>2. feeds' = feeds /\ doubled' = doubled
    BY <1>2 DEF Consume, Take, ResolveLogs, Unresolved, EditCard, EditCardFails, SendCardFails,
       PassOver, ServeGuild, SendCard, Sent, marks
  <2>3. \A h \in Feeds \ {f} : stream'[h] = stream[h]
    BY <1>2 DEF Consume, Take, ResolveLogs, Unresolved, EditCard, EditCardFails, SendCardFails,
       PassOver, ServeGuild, SendCard, Sent, CardsTyped, FeedsTyped
  <2>4. \A h \in Feeds \ {f} : event'[h] = event[h]
    BY <1>2 DEF Consume, Take, ResolveLogs, Unresolved, EditCard, EditCardFails, SendCardFails,
       PassOver, ServeGuild, SendCard, Sent, Served, CardsTyped, FeedsTyped
  <2>5. \A h \in Feeds \ {f} : sending'[h] = sending[h]
    BY <1>2 DEF Consume, Take, ResolveLogs, Unresolved, EditCard, EditCardFails, SendCardFails,
       PassOver, ServeGuild, SendCard, Sent, CardsTyped, FeedsTyped
  <2> QED BY <2>1, <2>2, <2>3, <2>4, <2>5 DEF FeedsRun
<1>3. ASSUME NEW f \in Feeds, Break(f) PROVE FeedsRun'
  BY <1>3 DEF Break, FeedsRun, CardsTyped, FeedsTyped
<1>4. ASSUME NEW f \in Feeds, Ready(f) PROVE FeedsRun' BY <1>4 DEF Ready, FeedsRun
<1>5. ASSUME NEW f \in Feeds, BotRestarts(f) PROVE FeedsRun'
  BY <1>5 DEF BotRestarts, FeedsRun, NoStreams, NoEvents, NoCalls
<1>6. CASE Conclude
  BY <1>6 DEF Conclude, Fetch, Apply, ApplyFails, Expire, marks, FeedsRun
<1>7. CASE Play
  <2>1. UNCHANGED bot /\ \E e : Told(e)
    BY <1>7 DEF Play, EnterGame, GoOffline, EnterLobby
  <2> QED BY <2>1 DEF Told, bot, marks, FeedsRun
<1> QED BY <1>1, <1>2, <1>3, <1>4, <1>5, <1>6, <1>7 DEF CardsNext

Senders(k) == {f \in Feeds : At(f, "send") /\ sending[f].key = k}
Wide == IF doubled THEN Cardinality(Feeds) ELSE 1

\* No more feeds send than run.
Few(k) ==
  /\ IsFiniteSet(Senders(k)) /\ Cardinality(Senders(k)) \in Nat
  /\ Wide \in Nat \ {0} /\ Cardinality(Senders(k)) <= Wide
SendersFew == \A k \in Keys : Few(k)
LEMMA FewSend == ASSUME CardsAssumption, CardsTyped, FeedsRun PROVE SendersFew
<1> SUFFICES ASSUME NEW k \in Keys PROVE Few(k) BY DEF SendersFew
<1>1. IsFiniteSet(Feeds) /\ Senders(k) \subseteq Feeds BY DEF CardsAssumption, Senders
<1>2. IsFiniteSet(Senders(k)) /\ Cardinality(Senders(k)) <= Cardinality(Feeds)
      /\ Cardinality(Senders(k)) \in Nat /\ Cardinality(Feeds) \in Nat
  BY <1>1, FS_Subset, FS_CardinalityType
<1>3. Cardinality(Feeds) # 0
  BY <1>1, FS_EmptySet DEF FeedsRun, CardsTyped, FeedsTyped
<1>4. CASE doubled BY <1>2, <1>3, <1>4 DEF Wide, Few
<1>5. CASE ~doubled
  <2>1. PICK f \in Feeds : feeds = {f} BY <1>5 DEF FeedsRun
  <2>2. Senders(k) \subseteq {f} BY <2>1 DEF Senders, At, FeedsRun
  <2>3. IsFiniteSet({f}) /\ Cardinality({f}) = 1 BY FS_Singleton
  <2>4. Cardinality(Senders(k)) <= 1 BY <2>2, <2>3, FS_Subset
  <2> QED BY <1>2, <1>5, <2>4 DEF Wide, Few
<1> QED BY <1>2, <1>4, <1>5 DEF Few

\* The messages of a match, and those that are about to be sent, within what
\* faults and feeds account for; a card that was not closed has no result.
Room(k) ==
  /\ IsFiniteSet(CardsOf(k))
  /\ Cardinality(CardsOf(k)) + (IF cards[k] = Nil THEN Wide ELSE Cardinality(Senders(k)))
       <= Allowed
OpenCards ==
  \A k \in Keys \ closed : Room(k) /\ fetching[k] = 0 /\ applying[k] = Nil /\ k \notin expiring

LEMMA AllowedTyped == ASSUME CardsAssumption, CardsTyped PROVE Allowed \in Nat
<1>1. Cardinality(Feeds) \in Nat /\ mishaps \in Nat
  BY FS_CardinalityType DEF CardsAssumption, CardsTyped, MarksTyped
<1> QED BY <1>1 DEF Allowed

\* A fault makes room for what each feed may send.
LEMMA MishapRoom ==
  ASSUME CardsAssumption, CardsTyped, Mishap, doubled' = doubled
  PROVE  Allowed' = Allowed + Wide
<1>1. Cardinality(Feeds) \in Nat /\ mishaps \in Nat /\ mishaps' = mishaps + 1
  BY FS_CardinalityType DEF CardsAssumption, CardsTyped, MarksTyped, Mishap
<1>2. \A m, n \in Nat : (m + 1) * n = m * n + n OBVIOUS
<1>3. (mishaps + 1) * Cardinality(Feeds) = mishaps * Cardinality(Feeds) + Cardinality(Feeds)
  BY <1>1, <1>2
<1> QED BY <1>1, <1>3 DEF Allowed, Wide

LEMMA SameCards ==
  ASSUME Kept, \A m \in Messages : shown[m] = Nil => shown'[m] = Nil, NEW k \in Keys
  PROVE  CardsOf(k)' = CardsOf(k)
  BY DEF Kept, CardsOf, Shown

\* Nothing is sent, and nothing is forgotten of a card that is open.
LEMMA RoomKept ==
  ASSUME CardsAssumption, CardsTyped, NEW k \in Keys, Few(k), Few(k)', Room(k),
         CardsOf(k)' = CardsOf(k), cards'[k] = cards[k], doubled' = doubled, mishaps' = mishaps,
         cards[k] = Nil \/ Senders(k)' \subseteq Senders(k)
  PROVE  Room(k)'
<1>1. Allowed' = Allowed /\ Wide' = Wide BY DEF Allowed, Wide
<1>2. CASE cards[k] = Nil BY <1>1, <1>2 DEF Room
<1>3. CASE cards[k] # Nil
  <2>1. Cardinality(Senders(k)') <= Cardinality(Senders(k)) BY <1>3, FS_Subset DEF Few
  <2>2. /\ Cardinality(CardsOf(k)) \in Nat /\ Cardinality(Senders(k)) \in Nat
        /\ Cardinality(Senders(k)') \in Nat /\ Allowed \in Nat
    BY FS_CardinalityType, AllowedTyped DEF Room, Few
  <2> QED BY <1>1, <1>3, <2>1, <2>2 DEF Room
<1> QED BY <1>2, <1>3

\* A fault leaves room, whatever it makes the bot forget.
LEMMA RoomGrows ==
  ASSUME CardsAssumption, CardsTyped, NEW k \in Keys, Few(k), Few(k)', Room(k),
         CardsOf(k)' = CardsOf(k), Mishap, doubled' = doubled
  PROVE  Room(k)'
<1>1. Allowed' = Allowed + Wide /\ Wide' = Wide BY MishapRoom DEF Wide
<1>2. /\ Cardinality(CardsOf(k)) \in Nat /\ Allowed \in Nat /\ Wide \in Nat
      /\ Cardinality(Senders(k)) \in Nat
  BY FS_CardinalityType, AllowedTyped DEF Room, Few
<1>3. Cardinality(CardsOf(k)) <= Allowed BY <1>2 DEF Room
<1>4. Cardinality(Senders(k)') <= Wide /\ Cardinality(Senders(k)') \in Nat BY <1>1 DEF Few
<1> QED BY <1>1, <1>2, <1>3, <1>4 DEF Room

\* The bot is ready again: one feed more may send, and a fault was counted.
LEMMA RoomDoubles ==
  ASSUME CardsAssumption, CardsTyped, NEW k \in Keys, Few(k), Few(k)', Room(k), ~doubled, doubled',
         CardsOf(k)' = CardsOf(k), cards'[k] = cards[k], Senders(k)' = Senders(k), Mishap
  PROVE  Room(k)'
<1> DEFINE m == mishaps
<1> DEFINE n == Cardinality(Feeds)
<1>1. m \in Nat /\ n \in Nat \ {0} /\ mishaps' = m + 1
  BY DEF CardsTyped, MarksTyped, Mishap, Few, Wide
<1>2. Allowed = 1 + m /\ Wide = 1 /\ Allowed' = (m + 1) * n /\ Wide' = n
  BY <1>1 DEF Allowed, Wide
<1>3. \A a \in Nat, b \in Nat \ {0} : (a + 1) * b >= a + b OBVIOUS
<1>4. Allowed' >= m + n BY <1>1, <1>2, <1>3
<1>5. /\ Cardinality(CardsOf(k)) \in Nat /\ Cardinality(Senders(k)) \in Nat
      /\ Cardinality(Senders(k)) <= 1 /\ Allowed' \in Nat
  <2>1. \A a, b \in Nat : (a + 1) * b \in Nat OBVIOUS
  <2> QED BY <1>1, <1>2, <2>1, FS_CardinalityType DEF Room, Few
<1> HIDE DEF m, n
<1> QED BY <1>1, <1>2, <1>4, <1>5 DEF Room

\* One that is sent takes the place that was kept for it.
LEMMA RoomTaken ==
  ASSUME CardsAssumption, CardsTyped, NEW f \in Feeds, NEW m \in Messages, SendCard(f, m),
         NEW k \in Keys, k = sending[f].key, Few(k), Room(k)
  PROVE  Room(k)'
<1>1. /\ At(f, "send") /\ sending[f] \in Calls /\ shown[m] = Nil /\ Sent(f)
      /\ shown' = [shown EXCEPT ![m] = [key |-> k, shows |-> sending[f].shows]]
      /\ cards' = [cards EXCEPT ![k] = m] /\ mishaps' = mishaps
  BY DEF SendCard, At, CardsTyped, FeedsTyped
<1>2. doubled' = doubled /\ sending' = [sending EXCEPT ![f] = NoCall]
  BY <1>1 DEF Sent
<1>3. [key |-> k, shows |-> sending[f].shows] # Nil
  BY <1>1 DEF Calls, Texts, CardsAssumption
<1>4. CardsOf(k)' = CardsOf(k) \cup {m} /\ m \notin CardsOf(k)
  BY <1>1, <1>3 DEF CardsOf, Shown, CardsTyped, CardsKnown
<1>5. Senders(k)' = Senders(k) \ {f} /\ f \in Senders(k)
  BY <1>1, <1>2 DEF Senders, At, CardsTyped, FeedsTyped, NoCall
<1>6. /\ IsFiniteSet(CardsOf(k)') /\ Cardinality(CardsOf(k)') = Cardinality(CardsOf(k)) + 1
  BY <1>4, FS_AddElement DEF Room
<1>7. Cardinality(Senders(k)') = Cardinality(Senders(k)) - 1
  <2>1. IsFiniteSet(Senders(k)) BY DEF Few
  <2>2. Cardinality(Senders(k) \ {f}) = Cardinality(Senders(k)) - 1
    BY <2>1, <1>5, FS_RemoveElement
  <2> QED BY <2>2, <1>5
<1>8. cards'[k] # Nil BY <1>1 DEF CardsTyped, CardsKnown, CardsAssumption
<1>9. /\ Cardinality(CardsOf(k)) \in Nat /\ Cardinality(Senders(k)) \in Nat /\ Allowed \in Nat
      /\ Allowed' = Allowed
  BY <1>1, <1>2, FS_CardinalityType, AllowedTyped DEF Room, Few, Allowed
<1> QED BY <1>6, <1>7, <1>8, <1>9 DEF Room, Few

LEMMA OpenOutcome ==
  ASSUME CardsAssumption, CardsTyped, SendersFew, SendersFew', OpenCards,
         NEW f \in Feeds, Outcome(f)
  PROVE  OpenCards'
<1> SUFFICES ASSUME NEW k \in Keys \ closed'
             PROVE  Room(k)' /\ fetching'[k] = 0 /\ applying'[k] = Nil /\ k \notin expiring'
  BY DEF OpenCards
<1>1. sending[f] # NoCall /\ Sent(f)
  BY DEF Outcome, Unresolved, EditCard, SendCardFails, SendCard, At
<1>2. sending[f] \in Calls /\ sending[f].key \in Keys
  BY <1>1 DEF CardsTyped, FeedsTyped, Calls
<1>3. closed \subseteq closed' /\ (k = sending[f].key => ~ Closes(event[f]))
  BY <1>1 DEF Sent
<1>4. k \notin closed /\ Room(k) /\ fetching[k] = 0 /\ applying[k] = Nil /\ k \notin expiring
  BY <1>3 DEF OpenCards
<1>5. fetching'[k] = 0 /\ applying'[k] = Nil /\ k \notin expiring'
  BY <1>1, <1>2, <1>3, <1>4 DEF Sent, CardsTyped, CardsKnown
<1>6. doubled' = doubled /\ sending' = [sending EXCEPT ![f] = NoCall] BY <1>1 DEF Sent
<1>7. Senders(k)' \subseteq Senders(k)
  BY <1>6 DEF Senders, At, NoCall, CardsTyped, FeedsTyped
<1>8. Few(k) /\ Few(k)' BY DEF SendersFew
<1>9. Room(k)'
  <2>1. CASE Unresolved(f) \/ SendCardFails(f)
    <3>1. CardsOf(k)' = CardsOf(k) /\ Mishap
      BY <2>1 DEF Unresolved, SendCardFails, CardsOf, Shown
    <3> QED BY <3>1, <1>4, <1>6, <1>8, RoomGrows
  <2>2. CASE EditCard(f)
    <3>1. Kept BY <1>1, OutcomeKept
    <3>2. shown[sending[f].card] # Nil
      BY <1>1, <1>2, <2>2 DEF EditCard, At, CardsTyped, CardsKnown, IsCardOf, Calls
    <3>3. \A m \in Messages : shown[m] = Nil => shown'[m] = Nil
      BY <2>2, <3>2 DEF EditCard, CardsTyped, CardsKnown
    <3>4. CardsOf(k)' = CardsOf(k) BY <3>1, <3>3, SameCards
    <3>5. cards' = cards /\ mishaps' = mishaps BY <2>2 DEF EditCard
    <3> QED BY <3>4, <3>5, <1>4, <1>6, <1>7, <1>8, RoomKept
  <2>3. ASSUME NEW m \in Messages, SendCard(f, m) PROVE Room(k)'
    <3>1. CASE k = sending[f].key BY <2>3, <3>1, <1>4, <1>8, RoomTaken
    <3>2. CASE k # sending[f].key
      <4>1. /\ shown[m] = Nil /\ mishaps' = mishaps
            /\ shown' = [shown EXCEPT ![m] = [key |-> sending[f].key, shows |-> sending[f].shows]]
            /\ cards' = [cards EXCEPT ![sending[f].key] = m]
        BY <2>3 DEF SendCard
      <4>2. CardsOf(k)' = CardsOf(k) BY <3>2, <4>1 DEF CardsOf, Shown, CardsTyped, CardsKnown
      <4>3. cards'[k] = cards[k] BY <3>2, <4>1 DEF CardsTyped, CardsKnown
      <4> QED BY <4>1, <4>2, <4>3, <1>4, <1>6, <1>7, <1>8, RoomKept
    <3> QED BY <3>1, <3>2
  <2> QED BY <2>1, <2>2, <2>3 DEF Outcome
<1> QED BY <1>5, <1>9

LEMMA OpenHandle ==
  ASSUME CardsAssumption, CardsTyped, SendersFew, SendersFew', OpenCards,
         NEW f \in Feeds, Handle(f)
  PROVE  OpenCards'
<1>1. UNCHANGED <<results, marks, shown>>
  BY DEF Handle, Take, ResolveLogs, EditCardFails, PassOver, ServeGuild
<1> SUFFICES ASSUME NEW k \in Keys \ closed PROVE Room(k)'
  BY <1>1 DEF OpenCards, results, marks
<1>2. Room(k) /\ Few(k) /\ Few(k)' /\ doubled' = doubled /\ CardsOf(k)' = CardsOf(k)
  BY <1>1 DEF OpenCards, SendersFew, marks, CardsOf, Shown
<1>3. CASE EditCardFails(f)
  <2>1. Mishap BY <1>3 DEF EditCardFails
  <2> QED BY <2>1, <1>2, RoomGrows
<1>4. ASSUME ~ EditCardFails(f)
      PROVE  /\ cards' = cards /\ mishaps' = mishaps
             /\ cards[k] = Nil \/ Senders(k)' \subseteq Senders(k)
  <2>1. CASE Take(f) BY <2>1 DEF Take, Senders, At
  <2>2. CASE ResolveLogs(f)
    <3>1. sending[f] \in Calls /\ cards' = cards /\ mishaps' = mishaps
      BY <2>2 DEF ResolveLogs, At, CardsTyped, FeedsTyped
    <3>2. /\ \A h \in Feeds : h # f => sending'[h] = sending[h]
          /\ sending'[f].key = sending[f].key
          /\ sending'[f].step = "send" => KnownCard(f) = Nil
      BY <2>2, <3>1 DEF ResolveLogs, CardsTyped, FeedsTyped, Calls
    <3>3. f \in Senders(k)' => cards[k] = Nil BY <3>2 DEF Senders, At, KnownCard
    <3>4. f \notin Senders(k)' => Senders(k)' \subseteq Senders(k) BY <3>2 DEF Senders, At
    <3> QED BY <3>1, <3>3, <3>4
  <2>3. ASSUME NEW g \in Guilds, PassOver(f, g) \/ ServeGuild(f, g)
        PROVE  /\ cards' = cards /\ mishaps' = mishaps /\ Senders(k)' \subseteq Senders(k)
    <3>1. cards' = cards /\ mishaps' = mishaps BY <2>3 DEF PassOver, ServeGuild
    <3>2. /\ \A h \in Feeds \ {f} : sending'[h] = sending[h]
          /\ sending'[f] = sending[f] \/ sending'[f].step = "resolve"
      BY <2>3 DEF PassOver, ServeGuild, CardsTyped, FeedsTyped
    <3> QED BY <3>1, <3>2 DEF Senders, At
  <2> QED BY <1>4, <2>1, <2>2, <2>3 DEF Handle
<1>5. CASE ~ EditCardFails(f) BY <1>2, <1>4, <1>5, RoomKept
<1> QED BY <1>3, <1>5

LEMMA OpenConclude ==
  ASSUME CardsAssumption, CardsTyped, SendersFew, SendersFew', OpenCards, Conclude
  PROVE  OpenCards'
<1> PICK j \in Keys : Fetch(j) \/ Apply(j) \/ ApplyFails(j) \/ Expire(j) BY DEF Conclude
<1>1. UNCHANGED <<sending, marks>> BY DEF Fetch, Apply, ApplyFails, Expire
<1> SUFFICES ASSUME NEW k \in Keys \ closed
             PROVE  Room(k)' /\ fetching'[k] = 0 /\ applying'[k] = Nil /\ k \notin expiring'
  BY <1>1 DEF OpenCards, marks
<1>2. /\ Room(k) /\ fetching[k] = 0 /\ applying[k] = Nil /\ k \notin expiring
      /\ Few(k) /\ Few(k)' /\ doubled' = doubled /\ Senders(k)' = Senders(k)
  BY <1>1 DEF OpenCards, SendersFew, marks, Senders, At
<1>3. k # j BY <1>2 DEF Fetch, Apply, ApplyFails, Expire
<1>4. cards'[k] = cards[k] /\ fetching'[k] = 0 /\ applying'[k] = Nil /\ k \notin expiring'
  BY <1>2, <1>3 DEF Fetch, Apply, ApplyFails, Expire, CardsTyped, CardsKnown
<1>5. CardsOf(k)' = CardsOf(k)
  <2>1. CASE Apply(j)
    <3>1. Kept /\ shown[applying[j]] # Nil BY <2>1, ApplyKept
    <3>2. \A m \in Messages : shown[m] = Nil => shown'[m] = Nil
      BY <2>1, <3>1 DEF Apply, CardsTyped, CardsKnown
    <3> QED BY <3>1, <3>2, SameCards
  <2>2. CASE ~ Apply(j) BY <2>2 DEF Fetch, ApplyFails, Expire, CardsOf, Shown
  <2> QED BY <2>1, <2>2
<1>6. mishaps' = mishaps \/ Mishap BY DEF Fetch, Apply, ApplyFails, Expire
<1> QED BY <1>2, <1>4, <1>5, <1>6, RoomKept, RoomGrows

LEMMA OpenDisturbed ==
  ASSUME CardsAssumption, CardsTyped, SendersFew, SendersFew', OpenCards,
         NEW f \in Feeds, Break(f) \/ Ready(f) \/ BotRestarts(f)
  PROVE  OpenCards'
<1>1. UNCHANGED <<shown, closed>> /\ Mishap BY DEF Break, Ready, BotRestarts
<1> SUFFICES ASSUME NEW k \in Keys \ closed
             PROVE  Room(k)' /\ fetching'[k] = 0 /\ applying'[k] = Nil /\ k \notin expiring'
  BY <1>1 DEF OpenCards
<1>2. /\ Room(k) /\ fetching[k] = 0 /\ applying[k] = Nil /\ k \notin expiring
      /\ Few(k) /\ Few(k)' /\ CardsOf(k)' = CardsOf(k)
  BY <1>1 DEF OpenCards, SendersFew, CardsOf, Shown
<1>3. fetching'[k] = 0 /\ applying'[k] = Nil /\ k \notin expiring'
  BY <1>2 DEF Break, Ready, BotRestarts, results, NoCards
<1>4. CASE Ready(f) /\ ~doubled
  <2>1. doubled' /\ cards' = cards /\ Senders(k)' = Senders(k)
    BY <1>4 DEF Ready, Senders, At
  <2> QED BY <1>1, <1>2, <1>3, <1>4, <2>1, RoomDoubles
<1>5. CASE ~ (Ready(f) /\ ~doubled)
  <2>1. doubled' = doubled BY <1>5 DEF Break, Ready, BotRestarts, CardsTyped, MarksTyped
  <2> QED BY <1>1, <1>2, <1>3, <2>1, RoomGrows
<1> QED BY <1>4, <1>5

LEMMA OpenStep ==
  ASSUME CardsAssumption, CardsTyped, SendersFew, SendersFew', OpenCards, [CardsNext]_cardVars
  PROVE  OpenCards'
<1>1. CASE UNCHANGED cardVars \/ Play
  <2>1. UNCHANGED <<bot, shown, mishaps>>
    BY <1>1 DEF cardVars, Play, EnterGame, GoOffline, EnterLobby
  <2> QED BY <2>1 DEF bot, results, marks, OpenCards, Room, CardsOf, Shown, Senders, At, Wide,
            Allowed
<1>2. ASSUME NEW f \in Feeds, Consume(f) PROVE OpenCards'
  BY <1>2, OpenOutcome, OpenHandle DEF Consume, Outcome, Handle
<1>3. CASE CardsNext
  BY <1>1, <1>2, <1>3, OpenDisturbed, OpenConclude DEF CardsNext
<1> QED BY <1>1, <1>3

LEMMA OpenInit == ASSUME CardsAssumption, CardsInit PROVE FeedsRun /\ OpenCards
<1>1. FeedsRun BY DEF CardsInit, NoStreams, NoEvents, NoCalls, FeedsRun
<1>2. ASSUME NEW k \in Keys
      PROVE  Room(k) /\ fetching[k] = 0 /\ applying[k] = Nil /\ k \notin expiring
  <2>1. CardsOf(k) = {} BY DEF CardsInit, CardsOf, Shown
  <2>2. IsFiniteSet(CardsOf(k)) /\ Cardinality(CardsOf(k)) = 0 BY <2>1, FS_EmptySet
  <2>3. cards[k] = Nil /\ Wide = 1 /\ Allowed = 1 BY DEF CardsInit, NoCards, Wide, Allowed
  <2> QED BY <2>2, <2>3 DEF CardsInit, NoCards, Room
<1> QED BY <1>1, <1>2 DEF OpenCards

\* Until a card of a match was closed, a guild has one message of the match, and
\* no more after faults than one for each, or for each feed.
THEOREM CardsAreOne == CardsSpec => []OneMessage
<1>1. CardsInit => CardsTyped /\ FeedsRun /\ OpenCards
  BY CardsTypedInit, OpenInit, CardsAssumption
<1>2. CardsTyped /\ FeedsRun /\ [CardsNext]_cardVars => CardsTyped' /\ FeedsRun'
  BY CardsTypedStep, FeedsRunStep, CardsAssumption
<1>3. CardsTyped /\ FeedsRun => SendersFew BY FewSend, CardsAssumption
<1>4. CardsTyped /\ SendersFew /\ SendersFew' /\ OpenCards /\ [CardsNext]_cardVars => OpenCards'
  BY OpenStep, CardsAssumption
<1>5. CardsTyped /\ SendersFew /\ OpenCards => OneMessage
  <2> SUFFICES ASSUME CardsTyped, SendersFew, OpenCards, NEW k \in Keys \ closed
               PROVE  Cardinality(CardsOf(k)) <= Allowed
    BY DEF OneMessage, Shown, CardsTyped, CardsKnown, Cards
  <2>1. Room(k) /\ Few(k) BY DEF OpenCards, SendersFew
  <2>2. Cardinality(CardsOf(k)) \in Nat /\ Allowed \in Nat
    BY <2>1, FS_CardinalityType, AllowedTyped, CardsAssumption DEF Room
  <2> QED BY <2>1, <2>2 DEF Room, Few
<1> QED BY <1>1, <1>2, <1>3, <1>4, <1>5, PTL DEF CardsSpec

-----------------------------------------------------------------------------
(* A card says that its match is over when a player has left it.            *)

\* The matches that a player has left, or may have left unheard.
Ended == left \cup strayed
IsTold(e) == e.new = "offline" <=> e.ref = Nil
Concerned(f) == \E g \in unserved[f] : event[f].player \in Member[g]

\* The match that a feed holds a player to be in, once what it handles is done,
\* is one of S, if it holds him in one; the same once it has handled n of the
\* transitions that are on their way.
Tells(f, i, p) == stream[f][i].player = p /\ stream[f][i].ref # Nil
Holding(f, p, S) ==
  IF Handling(f) /\ event[f].player = p /\ event[f].ref # Nil /\ Concerned(f)
  THEN event[f].ref \in S ELSE ref[p] \in S \cup {Nil}
HoldingAfter(f, p, n, S) ==
  /\ \A i \in 1..n : (Tells(f, i, p) /\ \A j \in i + 1..n : ~ Tells(f, j, p))
                       => stream[f][i].ref \in S
  /\ (\A i \in 1..n : ~ Tells(f, i, p)) => Holding(f, p, S)

\* The transitions on their way end the right matches, and a player in a game
\* is held to be in that game or in one that has ended.
Streams ==
  /\ \A f \in Feeds : \A i \in 1..Len(stream[f]) :
       /\ IsTold(stream[f][i])
       /\ Closes(stream[f][i]) => HoldingAfter(f, stream[f][i].player, i - 1, Ended)
  /\ \A f \in feeds, p \in Players :
       status[p] = "in_game" => HoldingAfter(f, p, Len(stream[f]), Ended \cup {playing[p]})
\* So does the transition that is handled, and the card that is sent.
Handled ==
  \A f \in Feeds : Handling(f) =>
    /\ IsTold(event[f])
    /\ Closes(event[f]) => ref[event[f].player] \in Ended \cup {Nil}
    /\ sending[f] # NoCall =>
         /\ sending[f].key[1] \in unserved[f] /\ event[f].player \in Member[sending[f].key[1]]
         /\ event[f].ref # Nil => ref[event[f].player] = event[f].ref
         /\ Closes(event[f]) \/ sending[f].shows = "finished" => sending[f].key[2] \in Ended
\* A result is one of a match that has ended, and a player of no guild is not
\* held in a match.
Concluded ==
  /\ \A k \in Keys : fetching[k] > 0 \/ applying[k] # Nil => k[2] \in Ended
  /\ \A m \in Shown : shown[m].shows \in {"finished", "result"} => shown[m].key[2] \in Ended
  /\ \A p \in Players : (\A g \in Guilds : p \notin Member[g]) => ref[p] = Nil
EndedInv == ~doubled => Streams /\ Handled /\ Concluded

LEMMA EventsTyped ==
  ASSUME CardsTyped, NEW f \in Feeds, NEW i \in 1..Len(stream[f])
  PROVE  stream[f][i] \in Events /\ stream[f][i].player \in Players
<1>1. stream[f] \in Seq(Events) BY DEF CardsTyped, FeedsTyped
<1>2. stream[f][i] \in Events BY <1>1
<1> QED BY <1>2 DEF Events

\* What is on its way stays: it is enough that the feeds hold on to the same.
LEMMA StreamsHold ==
  ASSUME CardsTyped, FeedsRun, Streams, UNCHANGED <<stream, feeds, world, strayed>>,
         \A f \in feeds, p \in Players : \A S : Holding(f, p, S) => Holding(f, p, S)'
  PROVE  Streams'
<1>1. Ended' = Ended /\ status' = status /\ playing' = playing BY DEF Ended, world
<1>2. ASSUME NEW f \in feeds, NEW p \in Players, NEW n \in Nat, NEW S, HoldingAfter(f, p, n, S)
      PROVE  HoldingAfter(f, p, n, S)'
  BY <1>2 DEF HoldingAfter, Tells
<1>3. ASSUME NEW f \in Feeds, NEW i \in 1..Len(stream[f]), Closes(stream[f][i])
      PROVE  HoldingAfter(f, stream[f][i].player, i - 1, Ended)'
  <2> DEFINE p == stream[f][i].player
  <2>1. HoldingAfter(f, p, i - 1, Ended) /\ p \in Players /\ i - 1 \in Nat
    BY <1>3, EventsTyped DEF Streams
  <2>2. f \in feeds BY DEF FeedsRun
  <2>3. HoldingAfter(f, p, i - 1, Ended)' BY <2>1, <2>2, <1>1, <1>2
  <2> QED BY <2>3
<1>4. ASSUME NEW f \in feeds, NEW p \in Players, status[p] = "in_game"
      PROVE  HoldingAfter(f, p, Len(stream[f]), Ended \cup {playing[p]})'
  <2>1. HoldingAfter(f, p, Len(stream[f]), Ended \cup {playing[p]}) /\ f \in Feeds
    BY <1>4 DEF Streams, CardsTyped, FeedsTyped
  <2>2. Len(stream[f]) \in Nat BY <2>1 DEF CardsTyped, FeedsTyped
  <2>3. HoldingAfter(f, p, Len(stream[f]), Ended \cup {playing[p]})' BY <2>1, <2>2, <1>1, <1>2
  <2> QED BY <2>3
<1> QED BY <1>1, <1>3, <1>4 DEF Streams

\* The first transition is taken.
LEMMA TakeEnded ==
  ASSUME CardsAssumption, CardsTyped, Streams, Handled, Concluded, NEW f \in Feeds, Take(f)
  PROVE  Streams' /\ Handled'
<1> DEFINE e == Head(stream[f])
<1>1. /\ ~ Handling(f) /\ stream[f] # <<>> /\ stream[f] \in Seq(Events)
      /\ event' = [event EXCEPT ![f] = e] /\ stream' = [stream EXCEPT ![f] = Tail(@)]
      /\ unserved' = [unserved EXCEPT ![f] = Guilds]
      /\ UNCHANGED <<world, feeds, sending, ref, strayed>>
  BY DEF Take, marks, CardsTyped, FeedsTyped
<1>2. /\ Ended' = Ended /\ status' = status /\ playing' = playing /\ feeds' = feeds /\ ref' = ref
      /\ sending' = sending
  BY <1>1 DEF Ended, world
<1>3. /\ event'[f] = e /\ unserved'[f] = Guilds /\ stream'[f] = Tail(stream[f])
      /\ \A h \in Feeds \ {f} : event'[h] = event[h] /\ unserved'[h] = unserved[h]
                                  /\ stream'[h] = stream[h]
  BY <1>1 DEF CardsTyped, FeedsTyped
<1>4. /\ Len(stream[f]) \in Nat \ {0} /\ Len(stream'[f]) = Len(stream[f]) - 1
      /\ \A i \in 1..Len(stream'[f]) : stream'[f][i] = stream[f][i + 1]
      /\ e = stream[f][1] /\ e \in Events
  <2>1. /\ e = stream[f][1] /\ e \in Events /\ Len(stream[f]) \in Nat \ {0} BY <1>1
  <2>2. /\ Len(Tail(stream[f])) = Len(stream[f]) - 1
        /\ \A i \in 1..Len(Tail(stream[f])) : Tail(stream[f])[i] = stream[f][i + 1]
    BY <1>1
  <2> QED BY <2>1, <2>2, <1>3
<1>9. ASSUME NEW p, NEW i \in 1..Len(stream'[f]) PROVE Tells(f, i, p)' <=> Tells(f, i + 1, p)
  BY <1>4 DEF Tells
<1>5. ASSUME NEW h \in Feeds, h # f, NEW p \in Players, NEW n \in Nat, NEW S,
             HoldingAfter(h, p, n, S)
      PROVE  HoldingAfter(h, p, n, S)'
  BY <1>2, <1>3, <1>5 DEF HoldingAfter, Tells, Holding, Handling, Concerned
<1>6. ASSUME NEW p \in Players, NEW n \in 0..Len(stream'[f]), NEW S, HoldingAfter(f, p, n + 1, S)
      PROVE  HoldingAfter(f, p, n, S)'
  <2>1. ASSUME NEW i \in 1..n, Tells(f, i, p)', \A j \in i + 1..n : ~ Tells(f, j, p)'
        PROVE  stream'[f][i].ref \in S
    <3>1. i + 1 \in 1..n + 1 /\ i \in 1..Len(stream'[f]) BY <1>4, <2>1
    <3>3. Tells(f, i + 1, p) BY <3>1, <2>1, <1>9
    <3>2. ASSUME NEW j \in (i + 1) + 1..n + 1 PROVE ~ Tells(f, j, p)
      <4>1. j - 1 \in i + 1..n /\ j - 1 \in 1..Len(stream'[f]) /\ (j - 1) + 1 = j BY <1>4
      <4>2. ~ Tells(f, j - 1, p)' BY <4>1, <2>1
      <4>3. ~ Tells(f, (j - 1) + 1, p) BY <4>1, <4>2, <1>9
      <4> QED BY <4>1, <4>3
    <3> QED BY <3>1, <3>2, <3>3, <1>4, <1>6 DEF HoldingAfter
  <2>2. ASSUME \A i \in 1..n : ~ Tells(f, i, p)' PROVE Holding(f, p, S)'
    <3>1. ASSUME NEW j \in 1 + 1..n + 1 PROVE ~ Tells(f, j, p)
      <4>1. j - 1 \in 1..n /\ j - 1 \in 1..Len(stream'[f]) /\ (j - 1) + 1 = j BY <1>4
      <4>2. ~ Tells(f, j - 1, p)' BY <4>1, <2>2
      <4>3. ~ Tells(f, (j - 1) + 1, p) BY <4>1, <4>2, <1>9
      <4> QED BY <4>1, <4>3
    <3>2. CASE Tells(f, 1, p)
      <4>1. e.ref \in S /\ e.player = p /\ e.ref # Nil
        BY <3>1, <3>2, <1>4, <1>6 DEF HoldingAfter, Tells
      <4>2. CASE \E g \in Guilds : p \in Member[g]
        <5>1. e # NoEvent BY <1>4 DEF Events, NoEvent, CardsAssumption
        <5>2. Handling(f)' /\ Concerned(f)' BY <4>1, <4>2, <5>1, <1>3 DEF Handling, Concerned
        <5> QED BY <4>1, <5>2, <1>3 DEF Holding
      <4>3. CASE \A g \in Guilds : p \notin Member[g]
        <5>1. ref[p] = Nil BY <4>3 DEF Concluded
        <5> QED BY <4>1, <4>3, <5>1, <1>2, <1>3 DEF Holding, Concerned
      <4> QED BY <4>2, <4>3
    <3>3. CASE ~ Tells(f, 1, p)
      <4>1. \A j \in 1..n + 1 : ~ Tells(f, j, p) BY <3>1, <3>3
      <4>2. Holding(f, p, S) BY <4>1, <1>6 DEF HoldingAfter
      <4>3. ref[p] \in S \cup {Nil} BY <4>2, <1>1 DEF Holding
      <4> QED BY <4>3, <3>3, <1>2, <1>3, <1>4 DEF Holding, Tells
    <3> QED BY <3>2, <3>3
  <2> QED BY <2>1, <2>2 DEF HoldingAfter
<1>7. Streams'
  <2>1. ASSUME NEW h \in Feeds, NEW i \in 1..Len(stream'[h])
        PROVE  /\ IsTold(stream'[h][i])
               /\ Closes(stream'[h][i]) => HoldingAfter(h, stream[h][i].player, i - 1, Ended)'
    <3>1. CASE h # f
      <4>1. stream'[h] = stream[h] BY <3>1, <1>3
      <4>2. IsTold(stream[h][i]) BY <4>1 DEF Streams
      <4>3. ASSUME Closes(stream[h][i])
            PROVE  HoldingAfter(h, stream[h][i].player, i - 1, Ended)'
        <5>1. /\ HoldingAfter(h, stream[h][i].player, i - 1, Ended) /\ i - 1 \in Nat
              /\ stream[h][i].player \in Players
          BY <4>1, <4>3, EventsTyped DEF Streams
        <5> QED BY <5>1, <4>1, <1>2, <1>5, <3>1
      <4> QED BY <4>1, <4>2, <4>3
    <3>2. CASE h = f
      <4>1. stream'[f][i] = stream[f][i + 1] /\ i + 1 \in 1..Len(stream[f]) /\ i \in Nat
        BY <3>2, <1>4
      <4>2. IsTold(stream[f][i + 1]) /\ stream[f][i + 1].player \in Players
        BY <4>1, EventsTyped DEF Streams
      <4>3. ASSUME Closes(stream[f][i + 1])
            PROVE  HoldingAfter(f, stream[f][i].player, i - 1, Ended)'
        <5>1. HoldingAfter(f, stream[f][i + 1].player, (i + 1) - 1, Ended)
          BY <4>1, <4>3 DEF Streams
        <5>2. (i + 1) - 1 = (i - 1) + 1 /\ i - 1 \in 0..Len(stream'[f]) BY <3>2, <1>4
        <5>3. HoldingAfter(f, stream[f][i + 1].player, (i - 1) + 1, Ended) BY <5>1, <5>2
        <5> QED BY <5>2, <5>3, <4>1, <4>2, <1>2, <1>6
      <4> QED BY <3>2, <4>1, <4>2, <4>3
    <3> QED BY <3>1, <3>2
  <2>2. ASSUME NEW h \in feeds', NEW p \in Players, status'[p] = "in_game"
        PROVE  HoldingAfter(h, p, Len(stream[h]), Ended \cup {playing[p]})'
    <3>1. h \in Feeds /\ HoldingAfter(h, p, Len(stream[h]), Ended \cup {playing[p]})
      BY <2>2, <1>2 DEF Streams, CardsTyped, FeedsTyped
    <3>2. CASE h # f
      <4>1. stream'[h] = stream[h] /\ Len(stream[h]) \in Nat
        BY <3>1, <3>2, <1>3 DEF CardsTyped, FeedsTyped
      <4> QED BY <3>1, <3>2, <4>1, <1>2, <1>5
    <3>3. CASE h = f
      <4>1. Len(stream'[f]) \in 0..Len(stream'[f]) /\ Len(stream[f]) = Len(stream'[f]) + 1
        BY <1>4
      <4>2. HoldingAfter(f, p, Len(stream'[f]) + 1, Ended \cup {playing[p]}) BY <3>1, <3>3, <4>1
      <4> QED BY <3>3, <4>1, <4>2, <1>2, <1>6
    <3> QED BY <3>2, <3>3
  <2> QED BY <2>1, <2>2 DEF Streams
<1>8. Handled'
  <2>1. sending[f] = NoCall BY <1>1 DEF CardsTyped, FeedsTyped
  <2>2. IsTold(e) BY <1>4 DEF Streams
  <2>3. ASSUME Closes(e) PROVE ref[e.player] \in Ended \cup {Nil}
    <3>1. HoldingAfter(f, e.player, 1 - 1, Ended) BY <2>3, <1>4 DEF Streams
    <3>2. Holding(f, e.player, Ended) BY <3>1 DEF HoldingAfter
    <3> QED BY <3>2, <1>1 DEF Holding
  <2> QED BY <2>1, <2>2, <2>3, <1>2, <1>3 DEF Handled, Handling
<1> QED BY <1>7, <1>8

\* A guild is passed over: what the feed holds stays.
LEMMA PassEnded ==
  ASSUME CardsTyped, FeedsRun, Streams, Handled,
         NEW f \in Feeds, NEW g \in Guilds, Serving(f, g),
         Served(f, g), event[f].player \notin Member[g] \/ event[f].ref = Nil,
         UNCHANGED <<sending, ref, stream, feeds, world, strayed>>
  PROVE  Streams' /\ Handled'
<1>1. /\ Handling(f) /\ sending[f] = NoCall /\ g \in unserved[f] /\ Ended' = Ended
      /\ ref' = ref /\ sending' = sending
  BY DEF Serving, Ended, world
<1>2. /\ unserved'[f] = unserved[f] \ {g}
      /\ event'[f] = IF unserved[f] = {g} THEN NoEvent ELSE event[f]
      /\ \A h \in Feeds \ {f} : unserved'[h] = unserved[h] /\ event'[h] = event[h]
  BY DEF Served, CardsTyped, FeedsTyped
<1>3. ASSUME NEW h \in feeds, NEW p \in Players, NEW S, Holding(h, p, S) PROVE Holding(h, p, S)'
  <2> h \in Feeds BY DEF CardsTyped, FeedsTyped
  <2>1. CASE h # f BY <1>1, <1>2, <1>3, <2>1 DEF Holding, Handling, Concerned
  <2>2. CASE h = f /\ unserved[f] = {g}
    BY <1>1, <1>2, <1>3, <2>2 DEF Holding, Handling, Concerned
  <2>3. CASE h = f /\ unserved[f] # {g}
    BY <1>1, <1>2, <1>3, <2>3 DEF Holding, Handling, Concerned
  <2> QED BY <2>1, <2>2, <2>3
<1>4. Streams' BY <1>3, StreamsHold
<1>5. Handled' BY <1>1, <1>2 DEF Handled, Handling
<1> QED BY <1>4, <1>5

\* A card begins to be sent.
LEMMA ServeEnded ==
  ASSUME CardsAssumption, CardsTyped, FeedsRun, ~doubled, Streams, Handled, Concluded,
         NEW f \in Feeds, NEW g \in Guilds, ServeGuild(f, g)
  PROVE  Streams' /\ Handled' /\ Concluded'
<1> DEFINE e == event[f]
<1> DEFINE k == <<g, MatchRef(e)>>
<1>1. /\ Serving(f, g) /\ Handling(f) /\ sending[f] = NoCall /\ g \in unserved[f]
      /\ e.player \in Member[g] /\ e \in Events /\ e.player \in Players /\ IsTold(e)
      /\ UNCHANGED <<stream, feeds, world, strayed, fetching, applying, shown>>
  BY RefTyped DEF ServeGuild, Serving, Handled, results, marks
<1>2. Ended' = Ended BY <1>1 DEF Ended, world
<1>3. CASE MatchRef(e) = Nil \/ (e.new = "offline" /\ cards[k] = Nil)
  <2>1. e.ref = Nil BY <1>1, <1>3 DEF MatchRef, IsTold
  <2>2. Served(f, g) /\ UNCHANGED <<sending, ref>> BY <1>3 DEF ServeGuild
  <2>3. Streams' /\ Handled' BY <1>1, <2>1, <2>2, PassEnded
  <2>4. Concluded' BY <1>1, <1>2, <2>2 DEF Concluded, Shown
  <2> QED BY <2>3, <2>4
<1>4. CASE ~ (MatchRef(e) = Nil \/ (e.new = "offline" /\ cards[k] = Nil))
  <2> DEFINE new == [step |-> "resolve", key |-> k, shows |-> Shows(e), card |-> Nil]
  <2>1. /\ sending' = [sending EXCEPT ![f] = new] /\ unserved' = unserved /\ event' = event
        /\ ref' = IF e.new = "offline" THEN ref ELSE Remembered(e.player, MatchRef(e))
    BY <1>4 DEF ServeGuild
  <2>2. /\ new.key[1] = g /\ new.key[2] = MatchRef(e)
        /\ (new.shows = "finished" => Closes(e)) /\ (Closes(e) => e.new = "offline")
    BY DEF Shows, Closes
  <2> HIDE DEF new
  <2>3. /\ sending'[f] = new /\ \A h \in Feeds \ {f} : sending'[h] = sending[h]
    BY <2>1 DEF CardsTyped, FeedsTyped
  <2>4. e.ref # Nil => ref'[e.player] = e.ref
    BY <1>1, <2>1 DEF IsTold, MatchRef, Remembered, CardsTyped, CardsKnown
  <2>5. e.ref = Nil => ref' = ref BY <1>1, <2>1 DEF IsTold
  <2>6. \A p \in Players \ {e.player} : ref'[p] = ref[p]
    BY <2>1 DEF Remembered, CardsTyped, CardsKnown
  <2>7. ASSUME NEW h \in feeds PROVE h = f BY <1>1 DEF FeedsRun, Handling
  <2>8. ASSUME NEW h \in feeds, NEW p \in Players, NEW S, Holding(h, p, S)
        PROVE  Holding(h, p, S)'
    <3>1. CASE p # e.player BY <2>1, <2>6, <2>8, <3>1 DEF Holding, Handling, Concerned
    <3>2. CASE e.ref = Nil BY <2>1, <2>5, <2>8, <3>2 DEF Holding, Handling, Concerned
    <3>3. CASE p = e.player /\ e.ref # Nil
      BY <1>1, <2>1, <2>7, <2>8, <3>3 DEF Holding, Handling, Concerned
    <3> QED BY <3>1, <3>2, <3>3
  <2>9. Streams' BY <1>1, <2>8, StreamsHold
  <2>10. Handled'
    <3>1. ASSUME NEW h \in Feeds, Handling(h)' PROVE h = f
      BY <3>1, <2>1, <2>7 DEF FeedsRun, Handling
    <3>2. ASSUME Closes(e)
          PROVE  /\ ref'[e.player] \in Ended /\ MatchRef(e) \in Ended
      <4>1. e.ref = Nil /\ ref' = ref /\ ref[e.player] # Nil /\ MatchRef(e) = ref[e.player]
        BY <1>1, <1>4, <2>5, <3>2 DEF Closes, IsTold, MatchRef
      <4> QED BY <1>1, <3>2, <4>1 DEF Handled
    <3>3. /\ IsTold(event'[f]) /\ event'[f] = e /\ g \in unserved'[f] BY <1>1, <2>1
    <3> QED BY <1>1, <1>2, <2>2, <2>3, <2>4, <3>1, <3>2, <3>3 DEF Handled
  <2>11. Concluded' BY <1>1, <1>2, <2>6 DEF Concluded, Shown
  <2> QED BY <2>9, <2>10, <2>11
<1> QED BY <1>3, <1>4

\* The sending of a card comes to its end: a player who was told to be offline
\* is held in no match.
LEMMA SentEnded ==
  ASSUME CardsAssumption, CardsTyped, FeedsRun, ~doubled, Streams, Handled, Concluded,
         NEW f \in Feeds, sending[f] # NoCall, Sent(f)
  PROVE  /\ Streams' /\ Handled'
         /\ \A k \in Keys : fetching'[k] > 0 \/ applying'[k] # Nil => k[2] \in Ended'
         /\ \A p \in Players : (\A g \in Guilds : p \notin Member[g]) => ref'[p] = Nil
<1> DEFINE e == event[f]
<1> DEFINE k == sending[f].key
<1>1. /\ Handling(f) /\ e \in Events /\ e.player \in Players /\ IsTold(e) /\ k \in Keys
      /\ k[1] \in unserved[f] /\ e.player \in Member[k[1]] /\ k[1] \in Guilds
      /\ e.ref # Nil => ref[e.player] = e.ref
      /\ Closes(e) => k[2] \in Ended
  BY RefTyped DEF Handled, CardsTyped, FeedsTyped, Calls, Keys
<1>2. /\ UNCHANGED <<stream, feeds, world, strayed, applying>> /\ Served(f, k[1])
      /\ sending' = [sending EXCEPT ![f] = NoCall]
      /\ ref' = IF e.new = "offline" THEN [ref EXCEPT ![e.player] = Nil] ELSE ref
      /\ fetching' = IF Closes(e) THEN [fetching EXCEPT ![k] = @ + 1] ELSE fetching
  BY DEF Sent
<1>3. Ended' = Ended BY <1>2 DEF Ended, world
<1>4. /\ unserved'[f] = unserved[f] \ {k[1]}
      /\ event'[f] = IF unserved[f] = {k[1]} THEN NoEvent ELSE e
      /\ \A h \in Feeds \ {f} : unserved'[h] = unserved[h] /\ event'[h] = event[h]
      /\ sending'[f] = NoCall
  BY <1>2 DEF Served, CardsTyped, FeedsTyped
<1>5. /\ e.ref = Nil => ref'[e.player] = Nil
      /\ e.ref # Nil => ref' = ref
      /\ \A p \in Players \ {e.player} : ref'[p] = ref[p]
  BY <1>1, <1>2 DEF IsTold, CardsTyped, CardsKnown
<1>6. ASSUME NEW h \in Feeds, h # f PROVE ~ Handling(h)' /\ h \notin feeds
  BY <1>1, <1>4, <1>6 DEF FeedsRun, Handling
<1>7. ASSUME NEW h \in feeds, NEW p \in Players, NEW S, Holding(h, p, S)
      PROVE  Holding(h, p, S)'
  <2>1. h = f /\ h \in Feeds BY <1>6 DEF CardsTyped, FeedsTyped
  <2>2. CASE p # e.player
    BY <1>4, <1>5, <1>7, <2>1, <2>2 DEF Holding, Handling, Concerned
  <2>3. CASE p = e.player /\ e.ref = Nil
    BY <1>4, <1>5, <1>7, <2>1, <2>3 DEF Holding, Handling, Concerned
  <2>4. CASE p = e.player /\ e.ref # Nil
    <3>1. e.ref \in S BY <1>1, <1>7, <2>1, <2>4 DEF Holding, Concerned
    <3>2. ref'[p] \in S BY <1>1, <1>5, <2>4, <3>1
    <3> QED BY <3>1, <3>2, <1>4, <2>1 DEF Holding, Handling, Concerned
  <2> QED BY <2>2, <2>3, <2>4
<1>8. Streams' BY <1>2, <1>7, StreamsHold
<1>9. Handled'
  <2>1. Closes(e) => ref'[e.player] = Nil BY <1>1, <1>5 DEF Closes, IsTold
  <2> QED BY <1>1, <1>4, <1>6, <2>1 DEF Handled, Handling
<1>10. ASSUME NEW j \in Keys, fetching'[j] > 0 \/ applying'[j] # Nil PROVE j[2] \in Ended'
  BY <1>1, <1>2, <1>3, <1>10 DEF Concluded, CardsTyped, CardsKnown
<1>11. ASSUME NEW p \in Players, \A g \in Guilds : p \notin Member[g] PROVE ref'[p] = Nil
  BY <1>1, <1>5, <1>11 DEF Concluded
<1> QED BY <1>8, <1>9, <1>10, <1>11

LEMMA OutcomeEnded ==
  ASSUME CardsAssumption, CardsTyped, FeedsRun, ~doubled, Streams, Handled, Concluded,
         NEW f \in Feeds, Outcome(f)
  PROVE  Streams' /\ Handled' /\ Concluded'
<1> DEFINE c == sending[f]
<1>1. c # NoCall /\ Sent(f)
  BY DEF Outcome, Unresolved, EditCard, SendCardFails, SendCard, At
<1>2. /\ c \in Calls /\ c.key \in Keys /\ c.shows # "result" /\ Ended' = Ended
      /\ c.shows = "finished" => c.key[2] \in Ended
  BY <1>1 DEF CardsTyped, FeedsTyped, Calls, Handled, Sent, Ended, world
<1>3. /\ Streams' /\ Handled'
      /\ \A k \in Keys : fetching'[k] > 0 \/ applying'[k] # Nil => k[2] \in Ended'
      /\ \A p \in Players : (\A g \in Guilds : p \notin Member[g]) => ref'[p] = Nil
  BY <1>1, SentEnded
<1>4. ASSUME NEW m \in Messages, shown'[m] # Nil, shown'[m].shows \in {"finished", "result"}
      PROVE  shown'[m].key[2] \in Ended
  <2>1. CASE shown'[m] = shown[m] BY <1>4, <2>1 DEF Concluded, Shown
  <2>2. CASE EditCard(f) /\ m = c.card
    <3>1. shown[m] # Nil /\ shown[m].key = c.key
      BY <1>1, <2>2 DEF EditCard, At, CardsTyped, CardsKnown, IsCardOf
    <3>2. shown[m] \in Cards BY <3>1 DEF CardsTyped, CardsKnown
    <3>3. shown'[m] = [shown[m] EXCEPT !.shows = c.shows]
      BY <2>2 DEF EditCard, CardsTyped, CardsKnown
    <3>4. shown'[m].shows = c.shows /\ shown'[m].key = c.key BY <3>1, <3>2, <3>3 DEF Cards
    <3> QED BY <1>2, <1>4, <3>4
  <2>3. ASSUME SendCard(f, m) PROVE shown'[m].key[2] \in Ended
    <3>1. shown'[m] = [key |-> c.key, shows |-> c.shows]
      BY <2>3 DEF SendCard, CardsTyped, CardsKnown
    <3>2. shown'[m].shows = c.shows /\ shown'[m].key = c.key BY <3>1
    <3> QED BY <1>2, <1>4, <3>2
  <2>4. shown'[m] = shown[m] \/ (EditCard(f) /\ m = c.card) \/ SendCard(f, m)
    BY DEF Outcome, Unresolved, EditCard, SendCardFails, SendCard, CardsTyped, CardsKnown
  <2> QED BY <2>1, <2>2, <2>3, <2>4
<1> QED BY <1>2, <1>3, <1>4 DEF Concluded, Shown

\* What a feed does before and between the awaits of a sending.
LEMMA HandleEnded ==
  ASSUME CardsAssumption, CardsTyped, FeedsRun, ~doubled, Streams, Handled, Concluded,
         NEW f \in Feeds, Handle(f)
  PROVE  Streams' /\ Handled' /\ Concluded'
<1>1. CASE Take(f)
  <2>1. UNCHANGED <<world, strayed, fetching, applying, shown, ref>>
    BY <1>1 DEF Take, results, marks
  <2>2. Concluded' BY <2>1 DEF Concluded, Shown, Ended, world
  <2> QED BY <1>1, <2>2, TakeEnded
<1>2. CASE ResolveLogs(f) \/ EditCardFails(f)
  <2>1. UNCHANGED <<world, strayed, fetching, applying, shown, ref, stream, feeds, event, unserved>>
    BY <1>2 DEF ResolveLogs, EditCardFails, results, marks
  <2>2. Concluded' BY <2>1 DEF Concluded, Shown, Ended, world
  <2>3. Streams'
    <3>1. \A h \in feeds, p \in Players : \A S : Holding(h, p, S) => Holding(h, p, S)'
      BY <2>1 DEF Holding, Handling, Concerned
    <3> QED BY <2>1, <3>1, StreamsHold
  <2>4. Handled'
    <3>1. /\ sending[f] # NoCall /\ sending[f] \in Calls
          /\ \A h \in Feeds \ {f} : sending'[h] = sending[h]
      BY <1>2 DEF ResolveLogs, EditCardFails, At, CardsTyped, FeedsTyped
    <3>2. sending'[f].key = sending[f].key /\ sending'[f].shows = sending[f].shows
      <4> DEFINE c == sending[f]
      <4>1. c = [step |-> c.step, key |-> c.key, shows |-> c.shows, card |-> c.card]
        BY <3>1 DEF Calls
      <4>2. CASE ResolveLogs(f)
        <5> DEFINE step == IF KnownCard(f) = Nil THEN "send" ELSE "edit"
        <5>1. sending'[f] = [c EXCEPT !.step = step, !.card = KnownCard(f)]
          BY <4>2 DEF ResolveLogs, CardsTyped, FeedsTyped
        <5> HIDE DEF step
        <5>2. sending'[f] = [step |-> step, key |-> c.key, shows |-> c.shows,
                             card |-> KnownCard(f)]
          BY <5>1, <3>1, Stepped
        <5> QED BY <5>2
      <4>3. CASE EditCardFails(f)
        <5>1. sending'[f] = [c EXCEPT !.step = "send"]
          BY <4>3 DEF EditCardFails, CardsTyped, FeedsTyped
        <5> QED BY <5>1, <4>1
      <4> QED BY <1>2, <4>2, <4>3
    <3>3. Ended' = Ended BY <2>1 DEF Ended, world
    <3>4. ASSUME NEW h \in Feeds, Handling(h)'
          PROVE  /\ Handling(h) /\ event'[h] = event[h] /\ unserved'[h] = unserved[h]
                 /\ sending'[h] # NoCall => sending[h] # NoCall /\ sending'[h].key = sending[h].key
                                            /\ sending'[h].shows = sending[h].shows
      BY <2>1, <3>1, <3>2, <3>4 DEF Handling
    <3> QED BY <2>1, <3>3, <3>4 DEF Handled
  <2> QED BY <2>2, <2>3, <2>4
<1>3. ASSUME NEW g \in Guilds, PassOver(f, g) PROVE Streams' /\ Handled' /\ Concluded'
  <2>1. /\ UNCHANGED <<world, strayed, fetching, applying, shown, ref, sending, stream, feeds>>
        /\ Serving(f, g) /\ Served(f, g) /\ event[f].player \notin Member[g]
    BY <1>3 DEF PassOver, results, marks
  <2>2. Concluded' BY <2>1 DEF Concluded, Shown, Ended, world
  <2>3. Streams' /\ Handled' BY <2>1, PassEnded
  <2> QED BY <2>2, <2>3
<1> QED BY <1>1, <1>2, <1>3, ServeEnded DEF Handle

LEMMA ConcludeEnded ==
  ASSUME CardsAssumption, CardsTyped, FeedsRun, Streams, Handled, Concluded, Conclude
  PROVE  Streams' /\ Handled' /\ Concluded'
<1> PICK k \in Keys : Fetch(k) \/ Apply(k) \/ ApplyFails(k) \/ Expire(k) BY DEF Conclude
<1>1. UNCHANGED <<world, strayed, ref, sending, stream, feeds, event, unserved>>
  BY DEF Fetch, Apply, ApplyFails, Expire, marks
<1>2. Ended' = Ended BY <1>1 DEF Ended, world
<1>3. Streams'
  <2>1. \A h \in feeds, p \in Players : \A S : Holding(h, p, S) => Holding(h, p, S)'
    BY <1>1 DEF Holding, Handling, Concerned
  <2> QED BY <1>1, <2>1, StreamsHold
<1>4. Handled' BY <1>1, <1>2 DEF Handled, Handling
<1>5. ASSUME NEW j \in Keys, fetching'[j] > 0 \/ applying'[j] # Nil PROVE j[2] \in Ended
  <2>1. fetching[j] > 0 \/ applying[j] # Nil
    <3>1. CASE Fetch(k) BY <1>5, <3>1 DEF Fetch, CardsTyped, CardsKnown
    <3>2. CASE ~ Fetch(k) BY <1>5, <3>2 DEF Apply, ApplyFails, Expire, CardsTyped, CardsKnown
    <3> QED BY <3>1, <3>2
  <2> QED BY <2>1 DEF Concluded
<1>6. ASSUME NEW m \in Messages, shown'[m] # Nil, shown'[m].shows \in {"finished", "result"}
      PROVE  shown'[m].key[2] \in Ended
  <2>1. CASE shown'[m] = shown[m] BY <1>6, <2>1 DEF Concluded, Shown
  <2>2. CASE Apply(k) /\ m = applying[k]
    <3>1. shown[m].key = k /\ shown'[m].key = shown[m].key
      BY <2>2, ApplyKept DEF Kept, CardsTyped, CardsKnown, IsCardOf
    <3>2. k[2] \in Ended BY <2>2 DEF Apply, Concluded
    <3> QED BY <3>1, <3>2
  <2>3. shown'[m] = shown[m] \/ (Apply(k) /\ m = applying[k])
    BY DEF Fetch, Apply, ApplyFails, Expire, CardsTyped, CardsKnown
  <2> QED BY <2>1, <2>2, <2>3
<1> QED BY <1>1, <1>2, <1>3, <1>4, <1>5, <1>6 DEF Concluded, Shown

\* More matches have ended: what was right stays so.
LEMMA MoreEnded ==
  ASSUME CardsTyped, Handled, Concluded, Ended \subseteq Ended',
         UNCHANGED <<event, unserved, sending, ref, fetching, applying, shown>>
  PROVE  Handled' /\ Concluded'
<1>1. Handled' BY DEF Handled, Handling
<1>2. Concluded' BY DEF Concluded, Shown
<1> QED BY <1>1, <1>2

LEMMA DisturbedEnded ==
  ASSUME CardsAssumption, CardsTyped, FeedsRun, ~doubled, ~doubled', Streams, Handled, Concluded,
         NEW f \in Feeds, Break(f) \/ Ready(f) \/ BotRestarts(f)
  PROVE  Streams' /\ Handled' /\ Concluded'
<1>1. CASE Break(f)
  <2>1. /\ stream[f] # <<>> /\ stream' = [stream EXCEPT ![f] = <<>>] /\ feeds' = feeds
        /\ strayed' = strayed \cup
             UNION {Believed(f, stream[f][i].player) : i \in DOMAIN stream[f]}
        /\ UNCHANGED <<world, event, unserved, sending, ref, fetching, applying, shown>>
    BY <1>1 DEF Break, results
  <2>2. /\ Ended \subseteq Ended' /\ status' = status /\ playing' = playing
    BY <2>1 DEF Ended, world
  <2>3. ASSUME NEW h \in Feeds PROVE stream'[h] = <<>> /\ (h \in feeds => h = f)
    BY <2>1 DEF FeedsRun, CardsTyped, FeedsTyped
  <2>4. ASSUME NEW p \in Players, status[p] = "in_game"
        PROVE  HoldingAfter(f, p, Len(stream[f]), Ended \cup {playing[p]})'
    <3>1. HoldingAfter(f, p, Len(stream[f]), Ended \cup {playing[p]})
      BY <2>1, <2>4 DEF Streams, FeedsRun
    <3>2. Holding(f, p, Ended \cup {playing[p]}) \/ Believed(f, p) \subseteq strayed'
      <4>1. CASE \A i \in 1..Len(stream[f]) : ~ Tells(f, i, p) BY <3>1, <4>1 DEF HoldingAfter
      <4>2. ASSUME NEW i \in 1..Len(stream[f]), Tells(f, i, p)
            PROVE  Believed(f, p) \subseteq strayed'
        <5>1. i \in DOMAIN stream[f] /\ stream[f][i].player = p
          BY <4>2 DEF Tells, CardsTyped, FeedsTyped
        <5> QED BY <5>1, <2>1
      <4> QED BY <4>1, <4>2
    <3>3. Holding(f, p, Ended \cup {playing[p]})'
      BY <3>2, <2>1, <2>2 DEF Holding, Believed, Handling, Concerned, Ended
    <3>4. Len(stream'[f]) = 0 BY <2>3
    <3> QED BY <2>2, <3>3, <3>4 DEF HoldingAfter
  <2>5. Streams'
    <3>1. \A h \in Feeds : \A i \in 1..Len(stream'[h]) : FALSE BY <2>3
    <3>2. \A h \in feeds', p \in Players : status'[p] = "in_game" =>
             HoldingAfter(h, p, Len(stream[h]), Ended \cup {playing[p]})'
      BY <2>1, <2>2, <2>3, <2>4 DEF CardsTyped, FeedsTyped
    <3> QED BY <3>1, <3>2 DEF Streams
  <2> QED BY <2>1, <2>2, <2>5, MoreEnded
<1>2. CASE Ready(f) BY <1>2 DEF Ready
<1>3. CASE BotRestarts(f)
  <2>1. /\ stream' = NoStreams /\ event' = NoEvents /\ sending' = NoCalls
        /\ ref' = Nobody /\ fetching' = [k \in Keys |-> 0] /\ applying' = NoCards
        /\ UNCHANGED <<world, strayed, shown>> /\ feeds' = {f}
    BY <1>3 DEF BotRestarts
  <2>2. Handled' BY <2>1 DEF Handled, Handling, NoEvents
  <2>3. Concluded' BY <2>1 DEF Concluded, Shown, Ended, world, NoCards, Nobody
  <2>4. \A p \in Players : \A S : Holding(f, p, S)'
    BY <2>1 DEF Holding, Handling, NoEvents, Nobody
  <2>5. \A h \in Feeds : stream'[h] = <<>> /\ Len(stream'[h]) = 0 BY <2>1 DEF NoStreams
  <2>6. Streams' BY <2>1, <2>4, <2>5 DEF Streams, HoldingAfter
  <2> QED BY <2>2, <2>3, <2>6
<1> QED BY <1>1, <1>2, <1>3

\* A transition is told: it is the last one on its way.
LEMMA ToldEnded ==
  ASSUME CardsAssumption, CardsTyped, FeedsRun, ~doubled, Streams, Handled, Concluded,
         UNCHANGED <<bot, shown>>, Ended \subseteq Ended',
         NEW e \in Events, Told(e), IsTold(e),
         Closes(e) => status[e.player] = "in_game" /\ playing[e.player] \in Ended',
         \A q \in Players : status'[q] = "in_game" =>
            IF q = e.player THEN e.ref # Nil /\ e.ref = playing'[q]
            ELSE status[q] = "in_game" /\ playing'[q] = playing[q]
  PROVE  Streams' /\ Handled' /\ Concluded'
<1>1. UNCHANGED <<feeds, event, unserved, sending, ref, fetching, applying, shown>>
  BY DEF bot, results
<1>2. PICK f \in Feeds : feeds = {f} BY DEF FeedsRun
<1> PICK n \in Nat : n = Len(stream[f])
  <2>1. stream[f] \in Seq(Events) BY DEF CardsTyped, FeedsTyped
  <2>2. Len(stream[f]) \in Nat BY <2>1
  <2> QED BY <2>2
<1>3. /\ n \in Nat /\ Len(stream'[f]) = n + 1 /\ stream'[f][n + 1] = e
      /\ \A i \in 1..n : stream'[f][i] = stream[f][i]
      /\ \A h \in Feeds \ {f} : stream'[h] = <<>>
  <2>1. stream[f] \in Seq(Events) BY DEF CardsTyped, FeedsTyped
  <2>2. /\ stream'[f] = Append(stream[f], e)
        /\ \A h \in Feeds \ {f} : stream'[h] = <<>>
    BY <1>2 DEF Told, FeedsRun, CardsTyped, FeedsTyped
  <2>3. /\ Len(Append(stream[f], e)) = n + 1 /\ Append(stream[f], e)[n + 1] = e
        /\ \A i \in 1..n : Append(stream[f], e)[i] = stream[f][i]
    BY <2>1
  <2> QED BY <2>1, <2>2, <2>3
<1>4. ASSUME NEW q \in Players, NEW i \in 0..n, NEW S, NEW T, S \subseteq T,
             HoldingAfter(f, q, i, S)
      PROVE  HoldingAfter(f, q, i, T)'
  <2>1. \A j \in 1..i : Tells(f, j, q)' <=> Tells(f, j, q) BY <1>3 DEF Tells
  <2>2. Holding(f, q, S) => Holding(f, q, T)'
    BY <1>1, <1>4 DEF Holding, Handling, Concerned
  <2>3. ASSUME NEW j \in 1..i, Tells(f, j, q)', \A l \in j + 1..i : ~ Tells(f, l, q)'
        PROVE  stream'[f][j].ref \in T
    <3>1. stream'[f][j] = stream[f][j] BY <1>3
    <3>2. \A l \in j + 1..i : ~ Tells(f, l, q) BY <2>1, <2>3
    <3> QED BY <1>4, <2>1, <2>3, <3>1, <3>2 DEF HoldingAfter
  <2>4. (\A j \in 1..i : ~ Tells(f, j, q)') => Holding(f, q, T)'
    BY <1>4, <2>1, <2>2 DEF HoldingAfter
  <2> QED BY <2>3, <2>4 DEF HoldingAfter
<1>5. ASSUME NEW i \in 1..Len(stream'[f])
      PROVE  /\ IsTold(stream'[f][i])
             /\ Closes(stream'[f][i]) => HoldingAfter(f, stream[f][i].player, i - 1, Ended)'
  <2>1. CASE i = n + 1
    <3>1. stream'[f][i] = e /\ i - 1 = n /\ n \in 0..n BY <1>3, <2>1
    <3>2. ASSUME Closes(e) PROVE HoldingAfter(f, e.player, n, Ended)'
      <4>1. e.player \in Players BY DEF Events
      <4>2. HoldingAfter(f, e.player, n, Ended \cup {playing[e.player]})
        BY <1>2, <3>2, <4>1 DEF Streams
      <4>3. Ended \cup {playing[e.player]} \subseteq Ended' BY <3>2
      <4> QED BY <1>4, <3>1, <4>1, <4>2, <4>3
    <3> QED BY <3>1, <3>2
  <2>2. CASE i \in 1..n
    <3>1. stream'[f][i] = stream[f][i] /\ i - 1 \in 0..n BY <1>3, <2>2
    <3>2. IsTold(stream[f][i]) /\ stream[f][i].player \in Players
      BY <2>2, EventsTyped DEF Streams
    <3>3. ASSUME Closes(stream[f][i]) PROVE HoldingAfter(f, stream[f][i].player, i - 1, Ended)'
      <4>1. HoldingAfter(f, stream[f][i].player, i - 1, Ended) BY <2>2, <3>3 DEF Streams
      <4>2. HoldingAfter(f, stream[f][i].player, i - 1, Ended') BY <4>1 DEF HoldingAfter, Holding
      <4> QED BY <1>4, <3>1, <3>2, <4>1
    <3> QED BY <3>1, <3>2, <3>3
  <2> QED BY <1>3, <2>1, <2>2
<1>6. ASSUME NEW q \in Players, status'[q] = "in_game"
      PROVE  HoldingAfter(f, q, Len(stream[f]), Ended \cup {playing[q]})'
  <2>1. CASE q = e.player
    <3>1. Tells(f, n + 1, q)' /\ stream'[f][n + 1].ref \in Ended' \cup {playing'[q]}
      BY <1>3, <1>6, <2>1 DEF Tells
    <3>2. \A i \in 1..n : n + 1 \in i + 1..n + 1 BY <1>3
    <3>3. n + 1 \in 1..n + 1 /\ \A i \in 1..n + 1 : i \in 1..n \/ i = n + 1 BY <1>3
    <3>4. HoldingAfter(f, q, n + 1, Ended \cup {playing[q]})'
      BY <3>1, <3>2, <3>3 DEF HoldingAfter
    <3> QED BY <1>3, <3>4
  <2>2. CASE q # e.player
    <3>1. status[q] = "in_game" /\ playing'[q] = playing[q] BY <1>6, <2>2
    <3>2. HoldingAfter(f, q, n, Ended \cup {playing[q]}) BY <1>2, <3>1 DEF Streams
    <3>3. HoldingAfter(f, q, n, Ended \cup {playing[q]})'
      BY <1>3, <1>4, <3>1, <3>2
    <3>4. ~ Tells(f, n + 1, q)' BY <1>3, <2>2 DEF Tells
    <3>5. /\ \A i \in 1..n + 1 : i \in 1..n \/ i = n + 1
          /\ \A i \in 1..n : i \in 1..n + 1 /\ \A j \in i + 1..n : j \in i + 1..n + 1
      BY <1>3
    <3>6. HoldingAfter(f, q, n + 1, Ended \cup {playing[q]})'
      BY <3>3, <3>4, <3>5 DEF HoldingAfter
    <3> QED BY <1>3, <3>6
  <2> QED BY <2>1, <2>2
<1>7. Streams'
  <2>1. \A h \in Feeds : \A i \in 1..Len(stream'[h]) : h = f BY <1>3
  <2> QED BY <1>1, <1>2, <1>5, <1>6, <2>1 DEF Streams
<1> QED BY <1>1, <1>7, MoreEnded

LEMMA PlayEnded ==
  ASSUME CardsAssumption, CardsTyped, FeedsRun, ~doubled, Streams, Handled, Concluded, Play
  PROVE  Streams' /\ Handled' /\ Concluded'
<1>1. UNCHANGED <<bot, shown, strayed>>
  BY DEF Play, EnterGame, GoOffline, EnterLobby, bot, marks
<1>2. PICK p \in Players : EnterGame(p) \/ GoOffline(p) \/ \E m \in Matches : EnterLobby(p, m)
  BY DEF Play
<1>3. CASE EnterGame(p)
  <2> DEFINE e == Transition(p, "in_game", playing[p])
  <2>1. /\ status' = [status EXCEPT ![p] = "in_game"] /\ playing' = playing /\ left' = left
        /\ playing[p] \in Matches /\ status[p] \in Statuses /\ Told(e)
    BY <1>3 DEF EnterGame, CardsTyped, PlayersTyped
  <2>2. e \in Events /\ e.player = p /\ e.new = "in_game" /\ e.ref = playing[p] /\ e.ref # Nil
    BY <2>1 DEF Transition, Events, Statuses, CardsAssumption
  <2> HIDE DEF e
  <2>3. IsTold(e) /\ ~ Closes(e) BY <2>2 DEF IsTold, Closes
  <2>4. Ended' = Ended BY <1>1, <2>1 DEF Ended
  <2>5. \A q \in Players : status'[q] = "in_game" =>
           IF q = e.player THEN e.ref # Nil /\ e.ref = playing'[q]
           ELSE status[q] = "in_game" /\ playing'[q] = playing[q]
    BY <2>1, <2>2 DEF CardsTyped, PlayersTyped
  <2> QED BY <1>1, <2>1, <2>2, <2>3, <2>4, <2>5, ToldEnded
<1>4. CASE GoOffline(p)
  <2> DEFINE e == Transition(p, "offline", Nil)
  <2>1. /\ status' = [status EXCEPT ![p] = "offline"] /\ playing' = [playing EXCEPT ![p] = Nil]
        /\ left' = IF status[p] = "in_game" THEN left \cup {playing[p]} ELSE left
        /\ status[p] \in Statuses /\ Told(e)
    BY <1>4 DEF GoOffline, CardsTyped, PlayersTyped
  <2>2. e \in Events /\ e.player = p /\ e.new = "offline" /\ e.ref = Nil /\ e.old = status[p]
    BY <2>1 DEF Transition, Events, Statuses
  <2> HIDE DEF e
  <2>3. IsTold(e) BY <2>2 DEF IsTold
  <2>4. Ended \subseteq Ended' /\ (status[p] = "in_game" => playing[p] \in Ended')
    BY <1>1, <2>1 DEF Ended
  <2>5. Closes(e) => status[e.player] = "in_game" /\ playing[e.player] \in Ended'
    BY <2>2, <2>4 DEF Closes
  <2>6. \A q \in Players : status'[q] = "in_game" =>
           IF q = e.player THEN e.ref # Nil /\ e.ref = playing'[q]
           ELSE status[q] = "in_game" /\ playing'[q] = playing[q]
    BY <2>1, <2>2 DEF CardsTyped, PlayersTyped
  <2> QED BY <1>1, <2>1, <2>2, <2>3, <2>4, <2>5, <2>6, ToldEnded
<1>5. ASSUME NEW m \in Matches, EnterLobby(p, m) PROVE Streams' /\ Handled' /\ Concluded'
  <2> DEFINE e == Transition(p, "in_lobby", m)
  <2>1. /\ status' = [status EXCEPT ![p] = "in_lobby"] /\ playing' = [playing EXCEPT ![p] = m]
        /\ left' = left /\ status[p] \in Statuses /\ Told(e)
    BY <1>5 DEF EnterLobby, CardsTyped, PlayersTyped
  <2>2. e \in Events /\ e.player = p /\ e.new = "in_lobby" /\ e.ref = m /\ e.ref # Nil
    BY <2>1 DEF Transition, Events, Statuses, CardsAssumption
  <2> HIDE DEF e
  <2>3. IsTold(e) /\ ~ Closes(e) BY <2>2 DEF IsTold, Closes
  <2>4. Ended' = Ended BY <1>1, <2>1 DEF Ended
  <2>5. \A q \in Players : status'[q] = "in_game" =>
           IF q = e.player THEN e.ref # Nil /\ e.ref = playing'[q]
           ELSE status[q] = "in_game" /\ playing'[q] = playing[q]
    BY <2>1, <2>2 DEF CardsTyped, PlayersTyped
  <2> QED BY <1>1, <2>1, <2>2, <2>3, <2>4, <2>5, ToldEnded
<1> QED BY <1>2, <1>3, <1>4, <1>5

LEMMA EndedInit == ASSUME CardsAssumption, CardsInit PROVE EndedInv
<1>1. Streams
  <2>1. \A f \in Feeds : stream[f] = <<>> /\ Len(stream[f]) = 0 BY DEF CardsInit, NoStreams
  <2>2. \A p \in Players : status[p] # "in_game" BY DEF CardsInit
  <2> QED BY <2>1, <2>2 DEF Streams
<1>2. Handled BY DEF CardsInit, NoEvents, Handled, Handling
<1>3. Concluded BY DEF CardsInit, NoCards, Nobody, Concluded, Shown
<1> QED BY <1>1, <1>2, <1>3 DEF EndedInv

LEMMA EndedStep ==
  ASSUME CardsAssumption, CardsTyped, FeedsRun, EndedInv, [CardsNext]_cardVars
  PROVE  EndedInv'
<1>1. doubled => doubled'
  BY DEF cardVars, bot, marks, CardsNext, Consume, Conclude, Play, Take, ResolveLogs, Unresolved,
     EditCard, EditCardFails, SendCardFails, PassOver, ServeGuild, SendCard, Sent, Break, Ready,
     BotRestarts, Fetch, Apply, ApplyFails, Expire, EnterGame, GoOffline, EnterLobby
<1>2. SUFFICES ASSUME ~doubled, ~doubled', Streams, Handled, Concluded
               PROVE  Streams' /\ Handled' /\ Concluded'
  BY <1>1 DEF EndedInv
<1>3. CASE UNCHANGED cardVars
  <2>1. UNCHANGED <<stream, feeds, world, strayed, event, unserved, sending, ref, fetching,
                    applying, shown>>
    BY <1>3 DEF cardVars, bot, marks, results
  <2>2. Ended' = Ended BY <2>1 DEF Ended, world
  <2>3. \A f \in feeds, p \in Players : \A S : Holding(f, p, S) => Holding(f, p, S)'
    BY <2>1 DEF Holding, Handling, Concerned
  <2> QED BY <1>2, <2>1, <2>2, <2>3, StreamsHold, MoreEnded
<1>4. ASSUME NEW f \in Feeds, Consume(f) PROVE Streams' /\ Handled' /\ Concluded'
  BY <1>2, <1>4, OutcomeEnded, HandleEnded DEF Consume, Outcome, Handle
<1>5. CASE CardsNext
  BY <1>2, <1>4, <1>5, DisturbedEnded, ConcludeEnded, PlayEnded DEF CardsNext
<1> QED BY <1>3, <1>5

\* A card says that its match is over only when a player has left that match
\* after its launch, or the bot lost the transitions of a player it held in it.
THEOREM CardsEndRightly == CardsSpec => []EndedWasLeft
<1>1. CardsInit => CardsTyped /\ FeedsRun /\ EndedInv
  BY CardsTypedInit, OpenInit, EndedInit, CardsAssumption
<1>2. CardsTyped /\ FeedsRun /\ EndedInv /\ [CardsNext]_cardVars
        => CardsTyped' /\ FeedsRun' /\ EndedInv'
  BY CardsTypedStep, FeedsRunStep, EndedStep, CardsAssumption
<1>3. CardsTyped /\ EndedInv => EndedWasLeft BY DEF EndedInv, Concluded, Ended, EndedWasLeft
<1> QED BY <1>1, <1>2, <1>3, PTL DEF CardsSpec

\* Both: one message per match until its card was closed, and no end of a match
\* that none of its players has left.
THEOREM CardsFollowMatches == CardsSpec => []CardsFollow
<1>1. OneMessage /\ EndedWasLeft => CardsFollow BY DEF CardsFollow
<1> QED BY <1>1, CardsAreOne, CardsEndRightly, PTL

-----------------------------------------------------------------------------
(* THE ROLES.                                                               *)

CallKinds == {"mods", "bot", "channel", "edit"}
USE DEF CallKinds

\* What a caller has in hand at each step.
Fits(step, n, r, N, what) ==
  /\ step \in {"idle", "next"} => n = NoRole /\ r = NoRole
  /\ step \in {"idle", "fill"} <=> what = NoRole
  /\ step \notin {"idle", "next"} => n \in Names
  /\ step \in {"store", "cache", "serve", "policy", "fill"} => r \in Roles
  /\ step = "store" => n \in RoleKeys
  /\ step \in {"serve", "policy"} => n = Admin
  /\ what \in CallKinds \ {"mods"} => N \subseteq {Admin} /\ n \in {Admin, NoRole}
  /\ what \in {"channel", "edit"} /\ step = "next" => Admin \in N
  /\ step = "policy" => what \in {"channel", "edit"}
CallShaped(c) == Fits(setup[c], asked[c], role[c], names[c], call[c])
RolesTyped == RolesTypeOK /\ \A c \in RoleCallers : CallShaped(c)

LEMMA RefusalTyped ==
  ASSUME RolesTypeOK, Refusal \/ Unhindered
  PROVE  /\ healed' \subseteq CallKinds /\ tainted' \in BOOLEAN
         /\ refusals' \in Nat
<1>1. /\ healed \subseteq CallKinds /\ tainted \in BOOLEAN
      /\ refusals \in Nat
  BY DEF RolesTypeOK
<1>2. CASE Refusal BY <1>1, <1>2 DEF Refusal
<1>3. CASE Unhindered BY <1>1, <1>3 DEF Unhindered, roleHistory
<1> QED BY <1>2, <1>3

\* A caller goes on, or ends: the others stay as they are.
LEMMA GoesTyped ==
  ASSUME RolesTyped, NEW c \in RoleCallers,
         NEW step \in {"idle", "next", "create", "store", "cache", "serve", "policy", "fill"},
         NEW n \in Names \cup {NoRole}, NEW r \in Roles \cup {NoRole}, Goes(c, step, n, r),
         names' \in [RoleCallers -> SUBSET Names],
         call' \in [RoleCallers -> CallKinds \cup {NoRole}],
         \A d \in RoleCallers \ {c} : names'[d] = names[d] /\ call'[d] = call[d]
  PROVE  /\ setup' \in [RoleCallers -> {"idle", "next", "create", "store", "cache", "serve",
                                        "policy", "fill"}]
         /\ asked' \in [RoleCallers -> Names \cup {NoRole}]
         /\ role' \in [RoleCallers -> Roles \cup {NoRole}]
         /\ setup'[c] = step /\ asked'[c] = n /\ role'[c] = r
         /\ \A d \in RoleCallers \ {c} : /\ setup'[d] = setup[d] /\ asked'[d] = asked[d]
                                         /\ role'[d] = role[d] /\ CallShaped(d)'
<1>1. /\ setup' \in [RoleCallers -> {"idle", "next", "create", "store", "cache", "serve",
                                     "policy", "fill"}]
      /\ asked' \in [RoleCallers -> Names \cup {NoRole}]
      /\ role' \in [RoleCallers -> Roles \cup {NoRole}]
      /\ setup'[c] = step /\ asked'[c] = n /\ role'[c] = r
      /\ \A d \in RoleCallers \ {c} : /\ setup'[d] = setup[d] /\ asked'[d] = asked[d]
                                      /\ role'[d] = role[d]
  BY DEF Goes, RolesTyped, RolesTypeOK
<1> QED BY <1>1 DEF RolesTyped, CallShaped, Fits

\* What a caller does to the guild and to the stores.
CallerActs(c) ==
  \/ \E what \in CallKinds : Call(c, what)
  \/ LookUp(c) \/ CreateRole(c) \/ Fails(c) \/ Store(c) \/ Cache(c)
  \/ ServeRole(c) \/ Policy(c) \/ Done(c) \/ Fill(c)
  \/ \E n \in Names : ResolveRole(c, n)

GuildTyped ==
  /\ name \in [Roles -> Names \cup {NoRole, Deleted, Other}]
  /\ holders \in [Roles -> SUBSET Operators] /\ visible \subseteq Roles
  /\ mapping \in [RoleKeys -> Roles \cup {NoRole}] /\ roleCache \in [Names -> Roles \cup {NoRole}]
HistoryTyped ==
  /\ healed \subseteq CallKinds /\ tainted \in BOOLEAN
  /\ {calls, refusals, meddlings} \subseteq Nat

LEMMA LiveTyped == ASSUME RolesTypeOK PROVE Live \subseteq Roles BY DEF Live

LEMMA AnswersTyped ==
  ASSUME RolesTypeOK, NEW n \in Names PROVE Answers(n) \subseteq Roles \cup {NoRole}
  BY DEF RolesTypeOK, Answers, Bearing, Live

LEMMA HistoryStep ==
  ASSUME RolesTypeOK, [RolesNext]_roleVars PROVE HistoryTyped'
<1>1. /\ healed \subseteq CallKinds /\ tainted \in BOOLEAN
      /\ calls \in Nat /\ refusals \in Nat /\ meddlings \in Nat
  BY DEF RolesTypeOK
<1>2. calls' \in Nat
  <2>1. calls' = calls \/ calls' = calls + 1
    BY DEF RolesNext, Call, LookUp, CreateRole, Fails, Store, Cache, ServeRole, Policy, Done, Fill,
       ResolveRole, EntryExpires, Alter, Strip, RoleRestart, roleVars, roleCounts
  <2> QED BY <1>1, <2>1
<1>3. meddlings' \in Nat
  <2>1. meddlings' = meddlings \/ meddlings' = meddlings + 1
    BY DEF RolesNext, Call, LookUp, CreateRole, Fails, Store, Cache, ServeRole, Policy, Done, Fill,
       ResolveRole, EntryExpires, Alter, Strip, RoleRestart, roleVars, roleCounts
  <2> QED BY <1>1, <2>1
<1>4. /\ refusals' = refusals \/ refusals' = refusals + 1
      /\ \/ healed' \in {{}, healed} /\ tainted' \in {TRUE, tainted}
         \/ /\ healed' \subseteq healed \cup CallKinds
            /\ tainted' = (tainted \/ Working # {})
  BY DEF RolesNext, Call, LookUp, CreateRole, Fails, Store, Cache, ServeRole, Policy, Done, Fill,
     ResolveRole, EntryExpires, Alter, Strip, RoleRestart, roleVars, roleCounts, roleHistory,
     Refusal, Unhindered, Caches
<1>5. refusals' \in Nat BY <1>1, <1>4
<1>6. healed' \subseteq CallKinds /\ tainted' \in BOOLEAN BY <1>1, <1>4
<1> QED BY <1>2, <1>3, <1>5, <1>6 DEF HistoryTyped

LEMMA GuildStep ==
  ASSUME RolesTyped, RolesAssumption, [RolesNext]_roleVars PROVE GuildTyped'
<1> USE DEF RolesTyped, RolesTypeOK, GuildTyped
<1>1. CASE UNCHANGED roleVars BY <1>1 DEF roleVars, roleGuild, roleStores
<1>2. ASSUME NEW c \in RoleCallers, CallerActs(c) PROVE GuildTyped'
  <2>1. CASE (\E what \in CallKinds : Call(c, what)) \/ LookUp(c) \/ Fails(c)
             \/ Done(c) \/ \E n \in Names : ResolveRole(c, n)
    BY <2>1 DEF Call, LookUp, Fails, Done, ResolveRole, roleGuild, roleStores
  <2>2. CASE CreateRole(c)
    BY <2>2 DEF CreateRole, CallShaped, Fits, roleStores
  <2>3. CASE Store(c)
    BY <2>3 DEF Store, CallShaped, Fits, roleGuild
  <2>4. CASE Cache(c) \/ Fill(c)
    BY <2>4 DEF Cache, Fill, Caches, CallShaped, Fits, roleGuild
  <2>5. CASE ServeRole(c)
    <3>1. PICK P \in SUBSET Operators : holders' = Granted(role[c], P)
      BY <2>5 DEF ServeRole, NamedBy
    <3>2. role[c] \in Roles BY <2>5 DEF ServeRole, CallShaped, Fits
    <3>3. holders' \in [Roles -> SUBSET Operators] BY <3>1, <3>2 DEF Granted
    <3> QED BY <2>5, <3>3 DEF ServeRole, roleStores
  <2>6. CASE Policy(c)
    BY <2>6 DEF Policy, CallShaped, Fits, roleStores
  <2> QED BY <1>2, <2>1, <2>2, <2>3, <2>4, <2>5, <2>6 DEF CallerActs
<1>3. ASSUME NEW n \in Names, EntryExpires(n) PROVE GuildTyped'
  BY <1>3 DEF EntryExpires, roleGuild
<1>4. ASSUME NEW x \in {Deleted, Other}, Alter(x) PROVE GuildTyped'
  BY <1>4 DEF Alter, Live, roleStores
<1>5. CASE Strip BY <1>5 DEF Strip, Live, roleStores
<1>6. CASE RoleRestart BY <1>6 DEF RoleRestart, roleGuild, roleStores
<1> QED BY <1>1, <1>2, <1>3, <1>4, <1>5, <1>6 DEF RolesNext, CallerActs

Steps == {"idle", "next", "create", "store", "cache", "serve", "policy", "fill"}
LocalsTyped ==
  /\ setup \in [RoleCallers -> Steps]
  /\ names \in [RoleCallers -> SUBSET Names] /\ asked \in [RoleCallers -> Names \cup {NoRole}]
  /\ role \in [RoleCallers -> Roles \cup {NoRole}]
  /\ call \in [RoleCallers -> CallKinds \cup {NoRole}]
  /\ \A c \in RoleCallers : CallShaped(c)

\* No name and no role is the mark of none.
LEMMA NoRoleApart ==
  ASSUME RolesAssumption
  PROVE  NoRole \notin Names /\ NoRole \notin Roles /\ Admin \in Names /\ Admin \notin RoleKeys
         /\ RoleKeys \subseteq Names /\ NoRole \notin CallKinds
  BY DEF RolesAssumption, Names

\* A step of a caller is typed if that caller is.
Becomes(c, step, n, r, N, what) ==
  /\ step \in Steps /\ n \in Names \cup {NoRole} /\ r \in Roles \cup {NoRole} /\ N \in SUBSET Names
  /\ what \in CallKinds \cup {NoRole} /\ Fits(step, n, r, N, what)
  /\ Goes(c, step, n, r)
  /\ names' = [names EXCEPT ![c] = N] /\ call' = [call EXCEPT ![c] = what]
LEMMA OneCaller ==
  ASSUME RolesTyped, NEW c \in RoleCallers, NEW step, NEW n, NEW r, NEW N, NEW w,
         Becomes(c, step, n, r, N, w)
  PROVE  LocalsTyped'
<1> USE DEF Becomes
<1>1. /\ names' \in [RoleCallers -> SUBSET Names] /\ names'[c] = N
      /\ call' \in [RoleCallers -> CallKinds \cup {NoRole}] /\ call'[c] = w
      /\ \A d \in RoleCallers \ {c} : names'[d] = names[d] /\ call'[d] = call[d]
  BY DEF RolesTyped, RolesTypeOK
<1>2. /\ setup' \in [RoleCallers -> Steps] /\ asked' \in [RoleCallers -> Names \cup {NoRole}]
      /\ role' \in [RoleCallers -> Roles \cup {NoRole}]
      /\ setup'[c] = step /\ asked'[c] = n /\ role'[c] = r
      /\ \A d \in RoleCallers \ {c} : CallShaped(d)'
  BY <1>1, GoesTyped DEF Steps
<1>3. CallShaped(c)' BY <1>1, <1>2 DEF CallShaped
<1> QED BY <1>1, <1>2, <1>3 DEF LocalsTyped

LEMMA EndsTyped ==
  ASSUME RolesTyped, RolesAssumption, NEW c \in RoleCallers, Ends(c) PROVE LocalsTyped'
<1>1. Goes(c, "idle", NoRole, NoRole) /\ names' = [names EXCEPT ![c] = {}]
      /\ call' = [call EXCEPT ![c] = NoRole]
  BY DEF Ends
<1>2. {} \in SUBSET Names /\ Fits("idle", NoRole, NoRole, {}, NoRole) BY NoRoleApart DEF Fits
<1>3. Becomes(c, "idle", NoRole, NoRole, {}, NoRole) BY <1>1, <1>2 DEF Becomes, Steps
<1> QED BY <1>3, OneCaller

\* The rest of what a caller was called for stays.
LEMMA StaysTyped ==
  ASSUME RolesTyped, NEW c \in RoleCallers, setup[c] \notin {"idle", "fill"},
         NEW step \in Steps \ {"idle", "fill"},
         NEW n \in Names \cup {NoRole}, NEW r \in Roles \cup {NoRole}, Goes(c, step, n, r),
         UNCHANGED <<names, call>>,
         Fits(step, n, r, names[c], call[c])
  PROVE  LocalsTyped'
<1> PICK N \in SUBSET Names, w \in CallKinds \cup {NoRole} : N = names[c] /\ w = call[c]
  BY DEF RolesTyped, RolesTypeOK
<1>1. names' = [names EXCEPT ![c] = N] /\ call' = [call EXCEPT ![c] = w]
  BY DEF RolesTyped, RolesTypeOK
<1>2. step \in Steps /\ Fits(step, n, r, N, w) BY DEF Steps
<1>3. Becomes(c, step, n, r, N, w) BY <1>1, <1>2 DEF Becomes
<1> QED BY <1>3, OneCaller

LEMMA LocalsStep ==
  ASSUME RolesTyped, RolesAssumption, [RolesNext]_roleVars
  PROVE  LocalsTyped'
<1> USE NoRoleApart
<1>1. CASE UNCHANGED roleVars
  BY <1>1 DEF roleVars, roleLocals, LocalsTyped, RolesTyped, RolesTypeOK, CallShaped, Fits, Steps
<1>2. ASSUME NEW c \in RoleCallers, CallerActs(c) PROVE LocalsTyped'
  <2> USE DEF Steps
  <2>1. ASSUME NEW what \in CallKinds, Call(c, what) PROVE LocalsTyped'
    <3> DEFINE N == IF what = "mods" THEN RoleKeys ELSE {Admin}
    <3>1. /\ setup' = [setup EXCEPT ![c] = "next"] /\ call' = [call EXCEPT ![c] = what]
          /\ names' = [names EXCEPT ![c] = N] /\ asked' = asked /\ role' = role
          /\ setup[c] = "idle"
      BY <2>1 DEF Call
    <3>2. asked[c] = NoRole /\ role[c] = NoRole BY <3>1 DEF RolesTyped, CallShaped, Fits
    <3>3. Goes(c, "next", NoRole, NoRole) BY <3>1, <3>2 DEF Goes, RolesTyped, RolesTypeOK
    <3>4. N \subseteq Names /\ (what \in CallKinds \ {"mods"} => N = {Admin}) OBVIOUS
    <3>5. Fits("next", NoRole, NoRole, N, what) BY <3>4 DEF Fits
    <3> HIDE DEF N
    <3>6. Becomes(c, "next", NoRole, NoRole, N, what) BY <3>1, <3>3, <3>4, <3>5 DEF Becomes
    <3> QED BY <3>6, OneCaller
  <2>2. CASE LookUp(c)
    <3>1. PICK n \in names[c] :
             /\ names' = [names EXCEPT ![c] = @ \ {n}]
             /\ IF n \in RoleKeys /\ Mapped(n) THEN Goes(c, "cache", n, mapping[n])
                ELSE IF Named(n) = {} THEN Goes(c, "create", n, NoRole)
                ELSE \E r \in Named(n) : Goes(c, IF n \in RoleKeys THEN "store" ELSE "cache", n, r)
      BY <2>2 DEF LookUp
    <3>2. /\ n \in Names /\ names[c] \in SUBSET Names /\ call[c] # NoRole /\ call' = call
          /\ call[c] \in CallKinds \ {"mods"} => names[c] \subseteq {Admin}
          /\ call[c] \in CallKinds \cup {NoRole}
      BY <2>2, <3>1 DEF LookUp, RolesTyped, RolesTypeOK, CallShaped, Fits
    <3>3. /\ call' = [call EXCEPT ![c] = call[c]]
          /\ names' = [names EXCEPT ![c] = names[c] \ {n}]
      BY <3>1, <3>2 DEF RolesTyped, RolesTypeOK
    <3>4. PICK step \in {"cache", "create", "store"}, r \in Roles \cup {NoRole} :
             /\ Goes(c, step, n, r)
             /\ step # "create" => r \in Roles
             /\ step = "store" => n \in RoleKeys
      <4>1. CASE n \in RoleKeys /\ Mapped(n)
        <5>1. mapping[n] \in Roles BY <4>1, LiveTyped DEF Mapped, RolesTyped
        <5> QED BY <3>1, <4>1, <5>1
      <4>2. CASE ~ (n \in RoleKeys /\ Mapped(n)) /\ Named(n) = {} BY <3>1, <4>2
      <4>3. CASE ~ (n \in RoleKeys /\ Mapped(n)) /\ Named(n) # {}
        <5>1. PICK r \in Named(n) : Goes(c, IF n \in RoleKeys THEN "store" ELSE "cache", n, r)
          BY <3>1, <4>3
        <5>2. r \in Roles BY LiveTyped DEF Named, Bearing, RolesTyped
        <5> QED BY <5>1, <5>2
      <4> QED BY <4>1, <4>2, <4>3
    <3> DEFINE N == names[c] \ {n}
    <3> DEFINE w == call[c]
    <3>5. /\ N \in SUBSET Names /\ w \in CallKinds \cup {NoRole} /\ w # NoRole
          /\ w \in CallKinds \ {"mods"} => N \subseteq {Admin} /\ n \in {Admin, NoRole}
          /\ call' = [call EXCEPT ![c] = w] /\ names' = [names EXCEPT ![c] = N]
      BY <3>2, <3>3
    <3>6. /\ step \in Steps /\ step \notin {"idle", "next", "fill", "serve", "policy"}
          /\ step \in {"store", "cache", "serve", "policy", "fill"} => r \in Roles
          /\ step = "store" => n \in RoleKeys
      BY <3>4
    <3>7. /\ n \in Names \cup {NoRole} /\ r \in Roles \cup {NoRole} /\ Goes(c, step, n, r)
          /\ n \in Names
      BY <3>2, <3>4
    <3>8. Fits(step, n, r, N, w) BY <3>5, <3>6, <3>7 DEF Fits
    <3> HIDE DEF N, w, Steps
    <3>9. Becomes(c, step, n, r, N, w) BY <3>5, <3>6, <3>7, <3>8 DEF Becomes
    <3> QED BY <3>9, OneCaller
  <2>3. CASE CreateRole(c)
    <3>1. PICK r \in Roles :
             Goes(c, IF asked[c] \in RoleKeys THEN "store" ELSE "serve", asked[c], r)
      BY <2>3 DEF CreateRole
    <3>2. /\ asked[c] \in Names
          /\ call[c] \in CallKinds \ {"mods"} => asked[c] \in {Admin, NoRole}
          /\ UNCHANGED <<names, call>> /\ setup[c] = "create"
      BY <2>3 DEF CreateRole, RolesTyped, CallShaped, Fits
    <3>3. asked[c] \notin RoleKeys => asked[c] = Admin BY <3>2 DEF Names
    <3> DEFINE step == IF asked[c] \in RoleKeys THEN "store" ELSE "serve"
    <3>4. call[c] # NoRole BY <3>2 DEF RolesTyped, CallShaped, Fits
    <3>5. step \in Steps \ {"idle", "fill"} /\ Fits(step, asked[c], r, names[c], call[c])
      <4>1. call[c] \in CallKinds \ {"mods"} => names[c] \subseteq {Admin}
        BY DEF RolesTyped, CallShaped, Fits
      <4> QED BY <3>1, <3>2, <3>3, <3>4, <4>1 DEF Fits
    <3> HIDE DEF step
    <3> QED BY <3>1, <3>2, <3>5, StaysTyped DEF step
  <2>4. CASE Fails(c) \/ Policy(c) \/ Done(c) \/ Fill(c)
    BY <2>4, EndsTyped DEF Fails, Policy, Done, Fill
  <2>5. CASE Store(c)
    <3>1. /\ setup[c] = "store" /\ Goes(c, "cache", asked[c], role[c]) /\ UNCHANGED <<names, call>>
          /\ asked[c] \in Names /\ role[c] \in Roles
          /\ call[c] \in CallKinds \ {"mods"} => asked[c] \in {Admin, NoRole}
      BY <2>5 DEF Store, RolesTyped, CallShaped, Fits
    <3>2. Fits("cache", asked[c], role[c], names[c], call[c])
      BY <3>1 DEF RolesTyped, CallShaped, Fits
    <3> QED BY <3>1, <3>2, StaysTyped
  <2>6. CASE Cache(c)
    <3>1. /\ setup[c] = "cache" /\ UNCHANGED <<names, call>>
          /\ asked[c] \in Names /\ role[c] \in Roles
          /\ call[c] \in CallKinds \ {"mods"} => asked[c] \in {Admin, NoRole}
      BY <2>6 DEF Cache, RolesTyped, CallShaped, Fits
    <3>2. CASE asked[c] = Admin
      <4>1. Goes(c, "serve", Admin, role[c]) BY <2>6, <3>2 DEF Cache
      <4>2. Fits("serve", Admin, role[c], names[c], call[c])
        BY <3>1, <3>2 DEF RolesTyped, CallShaped, Fits
      <4> QED BY <3>1, <4>1, <4>2, StaysTyped
    <3>3. CASE asked[c] # Admin
      <4>1. Goes(c, "next", NoRole, NoRole) BY <2>6, <3>3 DEF Cache
      <4>2. Fits("next", NoRole, NoRole, names[c], call[c])
        BY <3>1, <3>3 DEF RolesTyped, CallShaped, Fits
      <4> QED BY <3>1, <4>1, <4>2, StaysTyped
    <3> QED BY <3>2, <3>3
  <2>7. CASE ServeRole(c)
    <3>1. /\ setup[c] = "serve" /\ Goes(c, "policy", Admin, role[c]) /\ UNCHANGED <<names, call>>
          /\ role[c] \in Roles /\ call[c] \in {"channel", "edit"}
      BY <2>7 DEF ServeRole, RolesTyped, CallShaped, Fits
    <3>2. Fits("policy", Admin, role[c], names[c], call[c])
      BY <3>1 DEF RolesTyped, CallShaped, Fits
    <3> QED BY <3>1, <3>2, StaysTyped
  <2>8. ASSUME NEW n \in Names, ResolveRole(c, n) PROVE LocalsTyped'
    <3>1. PICK r \in Answers(n) \ {NoRole} : Goes(c, "fill", n, r) BY <2>8 DEF ResolveRole
    <3>2. r \in Roles BY AnswersTyped DEF RolesTyped
    <3>3. names[c] \in SUBSET Names /\ call[c] = NoRole
      BY <2>8 DEF ResolveRole, RolesTyped, RolesTypeOK, CallShaped, Fits
    <3>4. call' = [call EXCEPT ![c] = NoRole] /\ names' = [names EXCEPT ![c] = names[c]]
      BY <2>8, <3>3 DEF ResolveRole, RolesTyped, RolesTypeOK
    <3>5. Fits("fill", n, r, names[c], NoRole) BY <3>2 DEF Fits
    <3>6. Becomes(c, "fill", n, r, names[c], NoRole) BY <3>1, <3>2, <3>3, <3>4, <3>5 DEF Becomes
    <3> QED BY <3>6, OneCaller
  <2> QED BY <1>2, <2>1, <2>2, <2>3, <2>4, <2>5, <2>6, <2>7, <2>8 DEF CallerActs
<1>3. CASE RoleRestart BY <1>3 DEF RoleRestart, LocalsTyped, CallShaped, Fits, Steps
<1>4. CASE \/ \E n \in Names : EntryExpires(n)
           \/ \E x \in {Deleted, Other} : Alter(x)
           \/ Strip
  BY <1>4 DEF EntryExpires, Alter, Strip, roleLocals, LocalsTyped, RolesTyped, RolesTypeOK,
     CallShaped, Fits, Steps
<1> QED BY <1>1, <1>2, <1>3, <1>4 DEF RolesNext, CallerActs

LEMMA RolesTypedInit == ASSUME RolesAssumption, RolesInit PROVE RolesTyped
<1>1. GuildTyped BY DEF RolesInit, GuildTyped
<1>2. LocalsTyped BY NoRoleApart DEF RolesInit, LocalsTyped, CallShaped, Fits, Steps
<1>3. HistoryTyped
  <2>1. calls = 0 /\ refusals = 0 /\ meddlings = 0 /\ healed = {} /\ tainted = FALSE
    BY DEF RolesInit
  <2>2. {calls, refusals, meddlings} \subseteq Nat BY <2>1
  <2> QED BY <2>1, <2>2 DEF HistoryTyped
<1> QED BY <1>1, <1>2, <1>3
     DEF GuildTyped, LocalsTyped, HistoryTyped, RolesTyped, RolesTypeOK, Steps

LEMMA RolesTypedStep ==
  ASSUME RolesAssumption, RolesTyped, [RolesNext]_roleVars PROVE RolesTyped'
<1>1. GuildTyped' BY GuildStep
<1>2. LocalsTyped' BY LocalsStep
<1>3. HistoryTyped' BY HistoryStep DEF RolesTyped
<1> QED BY <1>1, <1>2, <1>3
     DEF GuildTyped, LocalsTyped, HistoryTyped, RolesTyped, RolesTypeOK, Steps

\* Every reachable state of the roles is well typed, for every set of roles, of
\* declared keys, of operators and of callers.
THEOREM RolesTypeCorrect == RolesSpec => []RolesTypeOK
<1>1. RolesInit => RolesTyped BY RolesTypedInit, RolesAssumption
<1>2. RolesTyped /\ [RolesNext]_roleVars => RolesTyped' BY RolesTypedStep, RolesAssumption
<1>3. RolesTyped => RolesTypeOK BY DEF RolesTyped
<1> QED BY <1>1, <1>2, <1>3, PTL DEF RolesSpec

-----------------------------------------------------------------------------
(* What runs undisturbed heals.                                             *)

\* Calls that nothing disturbed, or that were never tainted, run alone.
Alone == healed # {} \/ ~tainted => \A c, d \in Working : c = d

\* The role a caller has in hand lives, is the one mapped once it is to be
\* cached, and is held by every operator once it is to see the channel of a call
\* that names them.
InHand(c) ==
  /\ setup[c] \in {"store", "cache", "serve", "policy"} =>
       role[c] \in Live /\ (asked[c] = Admin => role[c] \in Bearing(Admin))
  /\ setup[c] = "cache" /\ asked[c] \in RoleKeys => mapping[asked[c]] = role[c]
  /\ setup[c] = "policy" /\ call[c] = "channel" => holders[role[c]] = Operators
  /\ "mods" \in healed /\ setup[c] = "fill" /\ asked[c] \in RoleKeys
       => role[c] = mapping[asked[c]]

\* A key is provisioned, or the setup that is to provision it goes on.
KeyDone(k) == mapping[k] \in Live /\ roleCache[k] \in {NoRole, mapping[k]}
KeyDue(k) == \E c \in RoleCallers : call[c] = "mods" /\ (k \in names[c] \/ asked[c] = k)
\* A role of the administrators sees the channel, held by every operator if the
\* calls in question are those that name them; or such a call goes on.
ChannelKinds == {{"channel"}, {"channel", "edit"}}
ChannelDone(K) == \E r \in Bearing(Admin) \cap visible : "edit" \in K \/ holders[r] = Operators
ChannelDue(K) == \E c \in RoleCallers : call[c] \in K
Heals ==
  healed # {} =>
    /\ \A c \in RoleCallers : InHand(c)
    /\ "mods" \in healed => \A k \in RoleKeys : KeyDone(k) \/ KeyDue(k)
    /\ \A K \in ChannelKinds : healed \cap K # {} => ChannelDone(K) \/ ChannelDue(K)

\* No two roles bear one name, and none bears the name of a role to be created.
Adopted ==
  ~tainted =>
    /\ \A n \in Names : \A r, s \in Bearing(n) : r = s
    /\ \A c \in RoleCallers : setup[c] = "create" => Bearing(asked[c]) = {}

LEMMA AloneStep ==
  ASSUME RolesAssumption, RolesTyped, Alone, [RolesNext]_roleVars
  PROVE  Alone'
<1> USE DEF RolesTyped, RolesTypeOK
<1>1. CASE UNCHANGED roleVars BY <1>1 DEF roleVars, roleLocals, roleHistory, Alone, Working
<1>2. ASSUME NEW c \in RoleCallers, CallerActs(c) PROVE Alone'
  <2>1. CASE \/ LookUp(c) \/ CreateRole(c) \/ Fails(c) \/ Store(c) \/ Cache(c)
             \/ ServeRole(c) \/ Policy(c) \/ Done(c) \/ Fill(c)
    <3>1. /\ setup[c] # "idle" /\ \E step \in Steps : setup' = [setup EXCEPT ![c] = step]
      BY <2>1 DEF LookUp, CreateRole, Fails, Store, Cache, ServeRole, Policy, Done, Fill, Goes,
         Ends, Steps
    <3>2. Working' \subseteq Working BY <3>1 DEF Working
    <3>3. (healed' # {} => healed # {}) /\ (~tainted' => ~tainted)
      BY <2>1 DEF LookUp, CreateRole, Fails, Store, Cache, ServeRole, Policy, Done, Fill,
         Caches, Refusal, Unhindered, roleHistory
    <3> QED BY <3>2, <3>3 DEF Alone
  <2>2. CASE \/ \E what \in CallKinds : Call(c, what)
             \/ \E n \in Names : ResolveRole(c, n)
    <3>1. Working' \subseteq Working \cup {c}
      BY <2>2 DEF Call, ResolveRole, Goes, Working
    <3>2. healed' # {} \/ ~tainted' => Working = {}
      BY <2>2 DEF Call, ResolveRole
    <3> QED BY <3>1, <3>2 DEF Alone
  <2> QED BY <1>2, <2>1, <2>2 DEF CallerActs
<1>3. CASE RoleRestart BY <1>3 DEF RoleRestart, Alone, Working
<1>4. CASE \/ \E n \in Names : EntryExpires(n)
           \/ \E x \in {Deleted, Other} : Alter(x)
           \/ Strip
  <2>1. Working' = Working BY <1>4 DEF EntryExpires, Alter, Strip, roleLocals, Working
  <2>2. (healed' # {} => healed # {}) /\ (~tainted' => ~tainted)
    BY <1>4 DEF EntryExpires, Alter, Strip, roleHistory
  <2> QED BY <2>1, <2>2 DEF Alone
<1> QED BY <1>1, <1>2, <1>3, <1>4 DEF RolesNext, CallerActs

\* The names of the roles change in two ways.
LEMMA NamesStep ==
  ASSUME RolesAssumption, RolesTyped, [RolesNext]_roleVars
  PROVE  \/ name' = name
         \/ \E c \in RoleCallers : CreateRole(c)
         \/ \E x \in {Deleted, Other} : Alter(x)
  BY DEF RolesNext, Call, LookUp, CreateRole, Fails, Store, Cache, ServeRole, Policy, Done, Fill,
     ResolveRole, EntryExpires, Alter, Strip, RoleRestart, roleVars, roleGuild

LEMMA CreatedNames ==
  ASSUME RolesAssumption, RolesTyped, NEW c \in RoleCallers, CreateRole(c)
  PROVE  \E r \in Roles \ Live :
           /\ Goes(c, IF asked[c] \in RoleKeys THEN "store" ELSE "serve", asked[c], r)
           /\ Live' = Live \cup {r}
           /\ \A n \in Names : Bearing(n)' = Bearing(n) \cup (IF n = asked[c] THEN {r} ELSE {})
<1>1. PICK r \in Roles : /\ name[r] = NoRole /\ name' = [name EXCEPT ![r] = asked[c]]
                         /\ Goes(c, IF asked[c] \in RoleKeys THEN "store" ELSE "serve", asked[c], r)
  BY DEF CreateRole
<1>2. asked[c] \in Names BY DEF CreateRole, RolesTyped, CallShaped, Fits
<1>3. asked[c] # NoRole /\ asked[c] # Deleted BY <1>2 DEF RolesAssumption
<1>4. /\ name'[r] = asked[c] /\ \A s \in Roles \ {r} : name'[s] = name[s]
  BY <1>1 DEF RolesTyped, RolesTypeOK
<1>5. r \notin Live /\ Live' = Live \cup {r} BY <1>1, <1>3, <1>4 DEF Live
<1>6. ASSUME NEW n \in Names
      PROVE  Bearing(n)' = Bearing(n) \cup (IF n = asked[c] THEN {r} ELSE {})
  BY <1>4, <1>5 DEF Bearing, Live
<1> QED BY <1>1, <1>5, <1>6

LEMMA AdoptedStep ==
  ASSUME RolesAssumption, RolesTyped, Alone, Adopted, [RolesNext]_roleVars
  PROVE  Adopted'
<1> SUFFICES ASSUME ~tainted'
             PROVE  /\ \A n \in Names : \A r, s \in Bearing(n)' : r = s
                    /\ \A c \in RoleCallers : setup'[c] = "create" => Bearing(asked[c])' = {}
  BY DEF Adopted
<1>1. ~tainted
  BY DEF RolesNext, Call, LookUp, CreateRole, Fails, Store, Cache, ServeRole, Policy, Done, Fill,
     ResolveRole, EntryExpires, Alter, Strip, RoleRestart, roleVars, roleHistory, Refusal,
     Unhindered, Caches
<1>2. /\ \A n \in Names : \A r, s \in Bearing(n) : r = s
      /\ \A c \in RoleCallers : setup[c] = "create" => Bearing(asked[c]) = {}
  BY <1>1 DEF Adopted
<1>3. ASSUME NEW d \in RoleCallers, setup'[d] = "create"
      PROVE  \/ setup[d] = "create" /\ asked'[d] = asked[d]
             \/ name' = name /\ Bearing(asked'[d]) = {}
  <2> USE <1>3 DEF RolesTyped, RolesTypeOK
  <2>1. CASE UNCHANGED roleVars BY <2>1 DEF roleVars, roleLocals
  <2>2. ASSUME NEW c \in RoleCallers, CallerActs(c)
        PROVE  \/ setup[d] = "create" /\ asked'[d] = asked[d]
               \/ name' = name /\ Bearing(asked'[d]) = {}
    <3>1. CASE d = c
      <4>1. LookUp(c)
        BY <2>2, <3>1 DEF CallerActs, Call, CreateRole, Fails, Store, Cache, ServeRole, Policy,
           Done, Fill, ResolveRole, Goes, Ends
      <4>2. PICK n \in names[c] :
              IF n \in RoleKeys /\ Mapped(n) THEN Goes(c, "cache", n, mapping[n])
              ELSE IF Named(n) = {} THEN Goes(c, "create", n, NoRole)
              ELSE \E r \in Named(n) : Goes(c, IF n \in RoleKeys THEN "store" ELSE "cache", n, r)
        BY <4>1 DEF LookUp
      <4>3. asked'[c] = n /\ Named(n) = {} BY <3>1, <4>2 DEF Goes
      <4> QED BY <3>1, <4>1, <4>3 DEF LookUp, Named, roleGuild
    <3>2. CASE d # c
      BY <2>2, <3>2 DEF CallerActs, Call, LookUp, CreateRole, Fails, Store, Cache, ServeRole,
         Policy, Done, Fill, ResolveRole, Goes, Ends
    <3> QED BY <3>1, <3>2
  <2>3. CASE RoleRestart BY <2>3 DEF RoleRestart
  <2>4. CASE \/ \E n \in Names : EntryExpires(n)
             \/ \E x \in {Deleted, Other} : Alter(x)
             \/ Strip
    BY <2>4 DEF EntryExpires, Alter, Strip, roleLocals
  <2> QED BY <2>1, <2>2, <2>3, <2>4 DEF RolesNext, CallerActs
<1>4. CASE name' = name
  BY <1>2, <1>3, <1>4 DEF Bearing, Live
<1>5. ASSUME NEW c \in RoleCallers, CreateRole(c)
      PROVE  /\ \A n \in Names : \A r, s \in Bearing(n)' : r = s
             /\ \A d \in RoleCallers : setup'[d] = "create" => Bearing(asked[d])' = {}
  <2>1. PICK r \in Roles \ Live :
           /\ Goes(c, IF asked[c] \in RoleKeys THEN "store" ELSE "serve", asked[c], r)
           /\ \A n \in Names : Bearing(n)' = Bearing(n) \cup (IF n = asked[c] THEN {r} ELSE {})
    BY <1>5, CreatedNames
  <2>2. setup[c] = "create" /\ Bearing(asked[c]) = {} BY <1>2, <1>5 DEF CreateRole
  <2>3. \A n \in Names : \A q, s \in Bearing(n)' : q = s BY <1>2, <2>1, <2>2
  <2>4. ASSUME NEW d \in RoleCallers, setup'[d] = "create" PROVE FALSE
    <3>1. d # c BY <2>1, <2>4 DEF Goes, RolesTyped, RolesTypeOK
    <3>2. setup[d] = "create" BY <1>5, <2>1, <2>4, <3>1 DEF Goes, RolesTyped, RolesTypeOK
    <3> QED BY <1>1, <2>2, <3>1, <3>2 DEF Alone, Working
  <2> QED BY <2>3, <2>4
<1>6. ASSUME NEW x \in {Deleted, Other}, Alter(x)
      PROVE  /\ \A n \in Names : \A r, s \in Bearing(n)' : r = s
             /\ \A d \in RoleCallers : setup'[d] = "create" => Bearing(asked[d])' = {}
  <2>1. x \notin Names BY DEF RolesAssumption
  <2>2. \A n \in Names : Bearing(n)' \subseteq Bearing(n)
    BY <1>6, <2>1 DEF Alter, Bearing, Live, RolesTyped, RolesTypeOK
  <2>3. UNCHANGED <<setup, asked>> BY <1>6 DEF Alter, roleLocals
  <2>4. \A d \in RoleCallers : setup[d] = "create" => asked[d] \in Names
    BY DEF RolesTyped, CallShaped, Fits
  <2> QED BY <1>2, <2>2, <2>3, <2>4
<1> QED BY <1>4, <1>5, <1>6, NamesStep

\* A caller acts for itself.
Others(c) ==
  \A d \in RoleCallers \ {c} :
    /\ setup'[d] = setup[d] /\ names'[d] = names[d] /\ asked'[d] = asked[d]
    /\ role'[d] = role[d] /\ call'[d] = call[d]
LEMMA CallerOthers ==
  ASSUME RolesTyped, NEW c \in RoleCallers, CallerActs(c) PROVE Others(c)
<1> USE DEF RolesTyped, RolesTypeOK, Others
<1>1. CASE \/ \E what \in CallKinds : Call(c, what)
           \/ \E n \in Names : ResolveRole(c, n)
           \/ LookUp(c)
  BY <1>1 DEF Call, ResolveRole, LookUp, Goes
<1>2. CASE CreateRole(c) \/ Store(c) \/ Cache(c) \/ ServeRole(c)
  BY <1>2 DEF CreateRole, Store, Cache, ServeRole, Goes
<1>3. CASE Fails(c) \/ Policy(c) \/ Done(c) \/ Fill(c)
  BY <1>3 DEF Fails, Policy, Done, Fill, Ends, Goes
<1> QED BY <1>1, <1>2, <1>3 DEF CallerActs

\* The callers beside the one that acts have nothing in hand.
LEMMA OthersIdle ==
  ASSUME RolesTyped, Alone, NEW c \in RoleCallers, CallerActs(c), healed' # {}
  PROVE  /\ \A d \in RoleCallers \ {c} : setup[d] = "idle" /\ InHand(d)'
         /\ (\A what \in CallKinds : ~ Call(c, what)) => healed' = healed
<1>1. ASSUME NEW d \in RoleCallers \ {c} PROVE setup[d] = "idle"
  <2>1. CASE Working = {} BY <2>1 DEF Working
  <2>2. CASE Working # {}
    <3>1. setup[c] # "idle" /\ healed # {}
      BY <2>2 DEF CallerActs, Call, LookUp, CreateRole, Fails, Store, Cache, ServeRole, Policy,
         Done, Fill, ResolveRole, Caches, Refusal, Unhindered, roleHistory
    <3> QED BY <3>1 DEF Alone, Working
  <2> QED BY <2>1, <2>2
<1>2. \A d \in RoleCallers \ {c} : InHand(d)'
  BY <1>1, CallerOthers DEF Others, InHand
<1>3. (\A what \in CallKinds : ~ Call(c, what)) => healed' = healed
  BY DEF CallerActs, LookUp, CreateRole, Fails, Store, Cache, ServeRole, Policy, Done, Fill,
     ResolveRole, Caches, Refusal, Unhindered, roleHistory
<1> QED BY <1>1, <1>2, <1>3

\* What is due stays due, or is due no more of the caller that acts.
LEMMA StaysDue ==
  ASSUME RolesTyped, NEW c \in RoleCallers, CallerActs(c)
  PROVE  /\ \A k \in RoleKeys :
              KeyDue(k) => KeyDue(k)' \/ (call[c] = "mods" /\ (k \in names[c] \/ asked[c] = k))
         /\ \A K \in ChannelKinds : ChannelDue(K) => ChannelDue(K)' \/ call[c] \in K
<1>1. Others(c) BY CallerOthers
<1> QED BY <1>1 DEF Others, KeyDue, ChannelDue

LEMMA HealsCall ==
  ASSUME RolesAssumption, RolesTyped, Alone, Heals, NEW c \in RoleCallers, healed' # {},
         NEW what \in CallKinds, Call(c, what)
  PROVE  Heals'
<1>1. /\ Working = {} /\ healed' = healed \cup {what} /\ setup' = [setup EXCEPT ![c] = "next"]
      /\ call' = [call EXCEPT ![c] = what]
      /\ UNCHANGED <<name, holders, visible, mapping, roleCache>>
      /\ names' = [names EXCEPT ![c] = IF what = "mods" THEN RoleKeys ELSE {Admin}]
  BY DEF Call, roleGuild, roleStores
<1>2. call'[c] = what /\ (what = "mods" => names'[c] = RoleKeys) /\ setup'[c] = "next"
  BY <1>1 DEF RolesTyped, RolesTypeOK
<1>3. \A d \in RoleCallers : call[d] = NoRole BY <1>1 DEF RolesTyped, CallShaped, Fits, Working
<1>4. (\A k \in RoleKeys : ~ KeyDue(k)) /\ \A K \in ChannelKinds : ~ ChannelDue(K)
  BY <1>3, NoRoleApart DEF KeyDue, ChannelDue, ChannelKinds
<1>5. \A d \in RoleCallers : InHand(d)'
  <2>1. CallerActs(c) BY DEF CallerActs
  <2>2. InHand(c)' BY <1>2 DEF InHand
  <2> QED BY <2>1, <2>2, OthersIdle
<1>6. ASSUME NEW k \in RoleKeys, "mods" \in healed' PROVE KeyDone(k)' \/ KeyDue(k)'
  <2>1. CASE what = "mods" BY <1>2, <2>1 DEF KeyDue
  <2>2. CASE what # "mods"
    <3>1. KeyDone(k) BY <1>1, <1>4, <1>6, <2>2 DEF Heals
    <3> QED BY <1>1, <3>1 DEF KeyDone, Live
  <2> QED BY <2>1, <2>2
<1>7. ASSUME NEW K \in ChannelKinds, healed' \cap K # {} PROVE ChannelDone(K)' \/ ChannelDue(K)'
  <2>1. CASE what \in K BY <1>2, <2>1 DEF ChannelDue
  <2>2. CASE what \notin K
    <3>0. healed \cap K # {} BY <1>1, <1>7, <2>2
    <3>1. ChannelDone(K) BY <1>4, <3>0 DEF Heals
    <3> QED BY <1>1, <3>1 DEF ChannelDone, Bearing, Live
  <2> QED BY <2>1, <2>2
<1> QED BY <1>5, <1>6, <1>7 DEF Heals

\* The other steps of a caller leave what was asked of it.
LEMMA HealsCaller ==
  ASSUME RolesAssumption, RolesTyped, Alone, Heals, NEW c \in RoleCallers, CallerActs(c),
         healed' = healed, InHand(c)',
         \A k \in RoleKeys : "mods" \in healed /\ KeyDone(k) => KeyDone(k)',
         \A k \in RoleKeys : call[c] = "mods" /\ (k \in names[c] \/ asked[c] = k)
                               => KeyDone(k)' \/ KeyDue(k)',
         \A K \in ChannelKinds : ChannelDone(K) => ChannelDone(K)',
         \A K \in ChannelKinds : call[c] \in K => ChannelDone(K)' \/ ChannelDue(K)'
  PROVE  Heals'
<1> SUFFICES ASSUME healed # {} PROVE Heals' BY DEF Heals
<1>1. \A d \in RoleCallers : InHand(d)' BY OthersIdle
<1>2. ASSUME NEW k \in RoleKeys, "mods" \in healed PROVE KeyDone(k)' \/ KeyDue(k)'
  BY <1>2, StaysDue DEF Heals
<1>3. ASSUME NEW K \in ChannelKinds, healed \cap K # {} PROVE ChannelDone(K)' \/ ChannelDue(K)'
  BY <1>3, StaysDue DEF Heals
<1> QED BY <1>1, <1>2, <1>3 DEF Heals

LEMMA HealsLookUp ==
  ASSUME RolesAssumption, RolesTyped, Alone, Heals, NEW c \in RoleCallers, healed' # {}, LookUp(c)
  PROVE  Heals'
<1>1. PICK n \in names[c] :
        /\ names' = [names EXCEPT ![c] = @ \ {n}]
        /\ IF n \in RoleKeys /\ Mapped(n) THEN Goes(c, "cache", n, mapping[n])
           ELSE IF Named(n) = {} THEN Goes(c, "create", n, NoRole)
           ELSE \E r \in Named(n) : Goes(c, IF n \in RoleKeys THEN "store" ELSE "cache", n, r)
  BY DEF LookUp
<1>2. /\ setup[c] = "next" /\ healed' = healed
      /\ UNCHANGED <<name, holders, visible, mapping, roleCache, call>>
  BY DEF LookUp, Unhindered, roleHistory, roleGuild, roleStores
<1>3. asked[c] = NoRole BY <1>2 DEF RolesTyped, CallShaped, Fits
<1>4. asked'[c] = n /\ names'[c] = names[c] \ {n}
  BY <1>1 DEF Goes, RolesTyped, RolesTypeOK
<1>5. InHand(c)'
  <2>1. CASE n \in RoleKeys /\ Mapped(n)
    <3>1. setup'[c] = "cache" /\ role'[c] = mapping[n] /\ mapping[n] \in Live
      BY <1>1, <2>1 DEF Goes, Mapped, RolesTyped, RolesTypeOK
    <3> QED BY <1>2, <1>4, <2>1, <3>1, NoRoleApart DEF InHand, Live
  <2>2. CASE ~ (n \in RoleKeys /\ Mapped(n)) /\ Named(n) = {}
    <3>1. setup'[c] = "create" BY <1>1, <2>2 DEF Goes, RolesTyped, RolesTypeOK
    <3> QED BY <3>1 DEF InHand
  <2>3. CASE ~ (n \in RoleKeys /\ Mapped(n)) /\ Named(n) # {}
    <3>1. PICK r \in Named(n) : Goes(c, IF n \in RoleKeys THEN "store" ELSE "cache", n, r)
      BY <1>1, <2>3
    <3>2. /\ setup'[c] = IF n \in RoleKeys THEN "store" ELSE "cache"
          /\ role'[c] = r /\ r \in Live /\ name[r] = n
      BY <3>1 DEF Goes, Named, Bearing, RolesTyped, RolesTypeOK
    <3> QED BY <1>2, <1>4, <3>2 DEF InHand, Live, Bearing
  <2> QED BY <2>1, <2>2, <2>3
<1>6. \A k \in RoleKeys : KeyDone(k) => KeyDone(k)' BY <1>2 DEF KeyDone, Live
<1>7. ASSUME NEW k \in RoleKeys, call[c] = "mods", k \in names[c] \/ asked[c] = k PROVE KeyDue(k)'
  BY <1>2, <1>3, <1>4, <1>7, NoRoleApart DEF KeyDue
<1>8. \A K \in ChannelKinds :
        (ChannelDone(K) => ChannelDone(K)') /\ (call[c] \in K => ChannelDue(K)')
  BY <1>2 DEF ChannelDone, ChannelDue, Bearing, Live
<1>9. CallerActs(c) BY DEF CallerActs
<1> QED BY <1>2, <1>5, <1>6, <1>7, <1>8, <1>9, HealsCaller

LEMMA HealsCreate ==
  ASSUME RolesAssumption, RolesTyped, Alone, Heals, NEW c \in RoleCallers, healed' # {},
         CreateRole(c)
  PROVE  Heals'
<1>1. PICK r \in Roles \ Live :
        /\ Goes(c, IF asked[c] \in RoleKeys THEN "store" ELSE "serve", asked[c], r)
        /\ Live' = Live \cup {r}
        /\ \A n \in Names : Bearing(n)' = Bearing(n) \cup (IF n = asked[c] THEN {r} ELSE {})
  BY CreatedNames
<1>2. /\ setup[c] = "create" /\ healed' = healed /\ asked[c] \in Names
      /\ UNCHANGED <<holders, visible, mapping, roleCache, call, names>>
  BY DEF CreateRole, Unhindered, roleHistory, roleStores, RolesTyped, CallShaped, Fits
<1>3. /\ asked'[c] = asked[c] /\ role'[c] = r
      /\ setup'[c] = IF asked[c] \in RoleKeys THEN "store" ELSE "serve"
  BY <1>1 DEF Goes, RolesTyped, RolesTypeOK
<1>4. InHand(c)' BY <1>1, <1>2, <1>3 DEF InHand
<1>5. \A k \in RoleKeys : KeyDone(k) => KeyDone(k)' BY <1>1, <1>2 DEF KeyDone
<1>6. \A k \in RoleKeys : call[c] = "mods" /\ (k \in names[c] \/ asked[c] = k) => KeyDue(k)'
  BY <1>2, <1>3 DEF KeyDue
<1>7. \A K \in ChannelKinds :
        (ChannelDone(K) => ChannelDone(K)') /\ (call[c] \in K => ChannelDue(K)')
  BY <1>1, <1>2, NoRoleApart DEF ChannelDone, ChannelDue
<1>8. CallerActs(c) BY DEF CallerActs
<1> QED BY <1>2, <1>4, <1>5, <1>6, <1>7, <1>8, HealsCaller

LEMMA HealsStore ==
  ASSUME RolesAssumption, RolesTyped, Alone, Heals, NEW c \in RoleCallers, healed' # {}, Store(c)
  PROVE  Heals'
<1>1. /\ setup[c] = "store" /\ healed' = healed /\ asked[c] \in RoleKeys
      /\ mapping' = [mapping EXCEPT ![asked[c]] = role[c]]
      /\ Goes(c, "cache", asked[c], role[c])
      /\ UNCHANGED <<name, holders, visible, roleCache, call, names>>
  BY DEF Store, Unhindered, roleHistory, roleGuild, RolesTyped, CallShaped, Fits
<1>2. setup'[c] = "cache" /\ asked'[c] = asked[c] /\ role'[c] = role[c]
  BY <1>1 DEF Goes, RolesTyped, RolesTypeOK
<1>3. /\ mapping'[asked[c]] = role[c]
      /\ \A k \in RoleKeys \ {asked[c]} : mapping'[k] = mapping[k]
  BY <1>1 DEF RolesTyped, RolesTypeOK
<1>4. role[c] \in Live BY <1>1 DEF Heals, InHand
<1>5. call[c] = "mods" BY <1>1, NoRoleApart DEF RolesTyped, RolesTypeOK, CallShaped, Fits
<1>6. InHand(c)' BY <1>1, <1>2, <1>3, <1>4, NoRoleApart DEF InHand, Live
<1>7. \A k \in RoleKeys : call[c] = "mods" /\ (k \in names[c] \/ asked[c] = k) => KeyDue(k)'
  BY <1>1, <1>2 DEF KeyDue
<1>8. \A K \in ChannelKinds : (ChannelDone(K) => ChannelDone(K)') /\ call[c] \notin K
  BY <1>1, <1>5 DEF ChannelDone, ChannelKinds, Bearing, Live
<1>9. CallerActs(c) BY DEF CallerActs
<1>10. ASSUME NEW k \in RoleKeys, KeyDone(k) PROVE KeyDone(k)' \/ KeyDue(k)'
  <2>1. CASE k = asked[c] BY <1>5, <1>7, <2>1
  <2>2. CASE k # asked[c] BY <1>1, <1>3, <1>10, <2>2 DEF KeyDone, Live
  <2> QED BY <2>1, <2>2
<1>11. \A d \in RoleCallers : InHand(d)' BY <1>6, <1>9, OthersIdle
<1>12. ASSUME NEW k \in RoleKeys, "mods" \in healed PROVE KeyDone(k)' \/ KeyDue(k)'
  BY <1>5, <1>7, <1>9, <1>10, <1>12, StaysDue DEF Heals
<1>13. ASSUME NEW K \in ChannelKinds, healed \cap K # {} PROVE ChannelDone(K)' \/ ChannelDue(K)'
  BY <1>8, <1>9, <1>13, StaysDue DEF Heals
<1> QED BY <1>1, <1>11, <1>12, <1>13 DEF Heals

LEMMA HealsCache ==
  ASSUME RolesAssumption, RolesTyped, Alone, Heals, NEW c \in RoleCallers, healed' # {}, Cache(c)
  PROVE  Heals'
<1>1. /\ setup[c] = "cache" /\ healed' = healed /\ asked[c] \in Names
      /\ roleCache' = [roleCache EXCEPT ![asked[c]] = role[c]]
      /\ UNCHANGED <<name, holders, visible, mapping, call, names>>
  BY DEF Cache, Caches, Refusal, Unhindered, roleHistory, roleGuild, RolesTyped, CallShaped, Fits
<1>2. /\ roleCache'[asked[c]] = role[c]
      /\ \A k \in Names \ {asked[c]} : roleCache'[k] = roleCache[k]
  BY <1>1 DEF RolesTyped, RolesTypeOK
<1>3. /\ role[c] \in Live /\ (asked[c] = Admin => role[c] \in Bearing(Admin))
      /\ asked[c] \in RoleKeys => mapping[asked[c]] = role[c]
  BY <1>1 DEF Heals, InHand
<1>4. ASSUME NEW k \in RoleKeys, KeyDone(k) \/ k = asked[c] PROVE KeyDone(k)'
  <2>1. k \in Names BY NoRoleApart
  <2>2. CASE k = asked[c] BY <1>1, <1>2, <1>3, <2>2 DEF KeyDone, Live
  <2>3. CASE k # asked[c] BY <1>1, <1>2, <1>4, <2>1, <2>3 DEF KeyDone, Live
  <2> QED BY <2>2, <2>3
<1>5. InHand(c)'
  <2>1. CASE asked[c] = Admin
    <3>1. setup'[c] = "serve" /\ asked'[c] = Admin /\ role'[c] = role[c]
      BY <2>1 DEF Cache, Goes, RolesTyped, RolesTypeOK
    <3> QED BY <1>1, <1>3, <2>1, <3>1 DEF InHand, Bearing, Live
  <2>2. CASE asked[c] # Admin
    <3>1. setup'[c] = "next" BY <2>2 DEF Cache, Goes, RolesTyped, RolesTypeOK
    <3> QED BY <3>1 DEF InHand
  <2> QED BY <2>1, <2>2
<1>6. ASSUME NEW k \in RoleKeys, call[c] = "mods", k \in names[c] \/ asked[c] = k
      PROVE  KeyDone(k)' \/ KeyDue(k)'
  BY <1>1, <1>4, <1>6 DEF KeyDue
<1>7. \A K \in ChannelKinds :
        (ChannelDone(K) => ChannelDone(K)') /\ (call[c] \in K => ChannelDue(K)')
  BY <1>1 DEF ChannelDone, ChannelDue, Bearing, Live
<1>8. CallerActs(c) BY DEF CallerActs
<1> QED BY <1>1, <1>4, <1>5, <1>6, <1>7, <1>8, HealsCaller

LEMMA HealsServe ==
  ASSUME RolesAssumption, RolesTyped, Alone, Heals, NEW c \in RoleCallers, healed' # {},
         ServeRole(c)
  PROVE  Heals'
<1>1. /\ setup[c] = "serve" /\ healed' = healed /\ asked[c] = Admin
      /\ call[c] \in {"channel", "edit"}
      /\ holders' = Granted(role[c], NamedBy(c)) /\ Goes(c, "policy", Admin, role[c])
      /\ UNCHANGED <<name, visible, mapping, roleCache, call, names>>
  BY DEF ServeRole, Refusal, Unhindered, roleHistory, roleStores, RolesTyped, CallShaped, Fits
<1>2. role[c] \in Live /\ role[c] \in Bearing(Admin) BY <1>1 DEF Heals, InHand
<1>3. /\ call[c] = "channel" => holders'[role[c]] = Operators
      /\ \A r \in Roles : holders[r] = Operators => holders'[r] = Operators
  <2>1. role[c] \in Roles /\ holders[role[c]] \subseteq Operators
    BY <1>2, LiveTyped DEF RolesTyped, RolesTypeOK
  <2> QED BY <1>1, <1>2, <2>1 DEF Granted, NamedBy, RolesTyped, RolesTypeOK
<1>4. setup'[c] = "policy" /\ asked'[c] = Admin /\ role'[c] = role[c]
  BY <1>1 DEF Goes, RolesTyped, RolesTypeOK
<1>5. InHand(c)' BY <1>1, <1>2, <1>3, <1>4 DEF InHand, Bearing, Live
<1>6. \A k \in RoleKeys : KeyDone(k) => KeyDone(k)' BY <1>1 DEF KeyDone, Live
<1>7. \A K \in ChannelKinds : ChannelDone(K) => ChannelDone(K)'
  BY <1>1, <1>3, LiveTyped DEF ChannelDone, Bearing, Live, RolesTyped, RolesTypeOK
<1>8. CallerActs(c) /\ \A K \in ChannelKinds : call[c] \in K => ChannelDue(K)'
  BY <1>1 DEF CallerActs, ChannelDue
<1> QED BY <1>1, <1>5, <1>6, <1>7, <1>8, HealsCaller

\* The last step of a call: the role of the administrators sees the channel, or
\* there is nothing left of what was asked.
LEMMA HealsEnd ==
  ASSUME RolesAssumption, RolesTyped, Alone, Heals, NEW c \in RoleCallers, healed' # {},
         Policy(c) \/ Done(c)
  PROVE  Heals'
<1>1. /\ healed' = healed /\ setup'[c] = "idle" /\ UNCHANGED <<name, holders, mapping, roleCache>>
      /\ visible \subseteq visible'
  BY DEF Policy, Done, Refusal, Unhindered, roleHistory, roleGuild, roleStores, Ends, Goes,
     RolesTyped, RolesTypeOK
<1>2. InHand(c)' BY <1>1 DEF InHand
<1>3. \A k \in RoleKeys : KeyDone(k) => KeyDone(k)' BY <1>1 DEF KeyDone, Live
<1>4. \A K \in ChannelKinds : ChannelDone(K) => ChannelDone(K)' BY <1>1 DEF ChannelDone, Bearing, Live
<1>5. ASSUME NEW k \in RoleKeys, call[c] = "mods", k \in names[c] \/ asked[c] = k PROVE FALSE
  <2>1. CASE Policy(c) BY <1>5, <2>1 DEF Policy, RolesTyped, CallShaped, Fits
  <2>2. CASE Done(c)
    <3>1. setup[c] = "next" /\ names[c] = {} BY <1>5, <2>2 DEF Done
    <3>2. asked[c] = NoRole BY <3>1 DEF RolesTyped, CallShaped, Fits
    <3> QED BY <1>5, <3>1, <3>2, NoRoleApart
  <2> QED BY <2>1, <2>2
<1>6. ASSUME NEW K \in ChannelKinds, call[c] \in K PROVE ChannelDone(K)'
  <2>1. CASE Policy(c)
    <3>1. setup[c] = "policy" /\ asked[c] = Admin BY <2>1 DEF Policy, RolesTyped, CallShaped, Fits
    <3>2. /\ role[c] \in Live /\ role[c] \in Bearing(Admin)
          /\ "edit" \in K \/ holders[role[c]] = Operators
      BY <1>1, <1>6, <3>1 DEF Heals, InHand, ChannelKinds
    <3>3. role[c] \in visible' BY <2>1, <3>2 DEF Policy, Refusal
    <3> QED BY <1>1, <3>2, <3>3 DEF ChannelDone, Bearing, Live
  <2>2. CASE Done(c) BY <1>6, <2>2 DEF Done, ChannelKinds, RolesTyped, CallShaped, Fits
  <2> QED BY <2>1, <2>2
<1>7. CallerActs(c) BY DEF CallerActs
<1> QED BY <1>1, <1>2, <1>3, <1>4, <1>5, <1>6, <1>7, HealsCaller

LEMMA HealsFill ==
  ASSUME RolesAssumption, RolesTyped, Alone, Heals, NEW c \in RoleCallers, healed' # {}, Fill(c)
  PROVE  Heals'
<1>1. /\ setup[c] = "fill" /\ healed' = healed /\ asked[c] \in Names /\ call[c] = NoRole
      /\ roleCache' = [roleCache EXCEPT ![asked[c]] = role[c]] /\ setup'[c] = "idle"
      /\ UNCHANGED <<name, holders, visible, mapping>>
  BY DEF Fill, Caches, Refusal, Unhindered, roleHistory, roleGuild, RolesTyped, RolesTypeOK,
     CallShaped, Fits, Ends, Goes
<1>2. InHand(c)' BY <1>1 DEF InHand
<1>3. ASSUME NEW k \in RoleKeys, "mods" \in healed, KeyDone(k) PROVE KeyDone(k)'
  <2>1. k \in Names BY NoRoleApart
  <2>2. CASE k = asked[c]
    <3>1. role[c] = mapping[k] BY <1>1, <1>3, <2>2 DEF Heals, InHand
    <3> QED BY <1>1, <1>3, <2>2, <3>1 DEF KeyDone, Live, RolesTyped, RolesTypeOK
  <2>3. CASE k # asked[c]
    <3>1. roleCache'[k] = roleCache[k] BY <1>1, <2>1, <2>3 DEF RolesTyped, RolesTypeOK
    <3> QED BY <1>1, <1>3, <3>1 DEF KeyDone, Live
  <2> QED BY <2>2, <2>3
<1>4. call[c] # "mods" /\ \A K \in ChannelKinds : call[c] \notin K
  BY <1>1, NoRoleApart DEF ChannelKinds
<1>5. \A K \in ChannelKinds : ChannelDone(K) => ChannelDone(K)' BY <1>1 DEF ChannelDone, Bearing, Live
<1>6. CallerActs(c) BY DEF CallerActs
<1> QED BY <1>1, <1>2, <1>3, <1>4, <1>5, <1>6, HealsCaller

LEMMA HealsResolve ==
  ASSUME RolesAssumption, RolesTyped, Alone, Heals, NEW c \in RoleCallers, healed' # {},
         NEW n \in Names, ResolveRole(c, n)
  PROVE  Heals'
<1>1. /\ Working = {} /\ healed' = healed /\ setup[c] = "idle"
      /\ UNCHANGED <<name, holders, visible, mapping, roleCache>>
  BY DEF ResolveRole, roleGuild, roleStores
<1>2. PICK r \in Answers(n) \ {NoRole} : Goes(c, "fill", n, r) BY DEF ResolveRole
<1>3. setup'[c] = "fill" /\ asked'[c] = n /\ role'[c] = r
  BY <1>2 DEF Goes, RolesTyped, RolesTypeOK
<1>4. \A d \in RoleCallers : call[d] = NoRole BY <1>1 DEF RolesTyped, CallShaped, Fits, Working
<1>5. (\A k \in RoleKeys : ~ KeyDue(k)) /\ call[c] # "mods"
      /\ \A K \in ChannelKinds : call[c] \notin K
  BY <1>4, NoRoleApart DEF KeyDue, ChannelKinds
<1>6. ASSUME "mods" \in healed, n \in RoleKeys PROVE r = mapping[n]
  <2>1. mapping[n] \in Live BY <1>5, <1>6 DEF Heals, KeyDone
  <2>2. mapping[n] # NoRole BY <2>1, LiveTyped, NoRoleApart DEF RolesTyped
  <2> QED BY <1>2, <1>6, <2>2 DEF Answers
<1>7. InHand(c)' BY <1>1, <1>3, <1>6 DEF InHand
<1>8. \A k \in RoleKeys : KeyDone(k) => KeyDone(k)' BY <1>1 DEF KeyDone, Live
<1>9. \A K \in ChannelKinds : ChannelDone(K) => ChannelDone(K)' BY <1>1 DEF ChannelDone, Bearing, Live
<1>10. CallerActs(c) BY DEF CallerActs
<1> QED BY <1>1, <1>5, <1>7, <1>8, <1>9, <1>10, HealsCaller

LEMMA HealsStep ==
  ASSUME RolesAssumption, RolesTyped, Alone, Heals, [RolesNext]_roleVars
  PROVE  Heals'
<1> SUFFICES ASSUME healed' # {} PROVE Heals' BY DEF Heals
<1>1. ASSUME NEW c \in RoleCallers, CallerActs(c) PROVE Heals'
  <2>1. CASE Fails(c) BY <2>1 DEF Fails, Refusal
  <2> QED BY <1>1, <2>1, HealsCall, HealsLookUp, HealsCreate, HealsStore, HealsCache, HealsServe,
             HealsEnd, HealsFill, HealsResolve DEF CallerActs
<1>2. CASE UNCHANGED roleVars
  BY <1>2 DEF roleVars, roleGuild, roleStores, roleLocals, roleHistory, Heals, InHand, KeyDone,
     KeyDue, ChannelDone, ChannelDue, Bearing, Live
<1>3. ASSUME NEW n \in Names, EntryExpires(n) PROVE Heals'
  <2>1. UNCHANGED <<name, holders, visible, mapping, setup, names, asked, role, call, healed>>
    BY <1>3 DEF EntryExpires, roleGuild, roleLocals, roleHistory
  <2>2. \A k \in RoleKeys : roleCache'[k] \in {NoRole, roleCache[k]}
    BY <1>3, NoRoleApart DEF EntryExpires, RolesTyped, RolesTypeOK
  <2>3. \A k \in RoleKeys : KeyDone(k) => KeyDone(k)' BY <2>1, <2>2 DEF KeyDone, Live
  <2>4. /\ \A c \in RoleCallers : InHand(c) => InHand(c)'
        /\ \A k \in RoleKeys : KeyDue(k) => KeyDue(k)'
        /\ \A K \in ChannelKinds : (ChannelDone(K) => ChannelDone(K)')
                                  /\ (ChannelDue(K) => ChannelDue(K)')
    BY <2>1 DEF InHand, KeyDue, ChannelDone, ChannelDue, Bearing, Live
  <2> QED BY <2>1, <2>3, <2>4 DEF Heals
<1>4. CASE (\E x \in {Deleted, Other} : Alter(x)) \/ Strip \/ RoleRestart
  BY <1>4 DEF Alter, Strip, RoleRestart, Refusal
<1> QED BY <1>1, <1>2, <1>3, <1>4 DEF RolesNext, CallerActs

LEMMA HealsInit == ASSUME RolesAssumption, RolesInit PROVE Alone /\ Heals /\ Adopted
<1>1. Working = {} /\ healed = {} /\ Live = {} BY DEF RolesInit, Working, Live
<1>2. (\A n \in Names : Bearing(n) = {}) /\ \A c \in RoleCallers : setup[c] = "idle"
  BY <1>1 DEF RolesInit, Bearing
<1> QED BY <1>1, <1>2 DEF Alone, Heals, Adopted

\* What runs undisturbed heals the mappings, the cache and the role of the
\* administrators, and roles are adopted rather than doubled.
THEOREM RolesHeal == RolesSpec => []SetupHeals
<1>1. RolesInit => RolesTyped /\ Alone /\ Heals /\ Adopted
  BY RolesTypedInit, HealsInit, RolesAssumption
<1>2. RolesTyped /\ Alone /\ Heals /\ Adopted /\ [RolesNext]_roleVars
        => RolesTyped' /\ Alone' /\ Heals' /\ Adopted'
  BY RolesTypedStep, AloneStep, HealsStep, AdoptedStep, RolesAssumption
<1>3. RolesTyped /\ Heals /\ Adopted => SetupHeals
  <2> SUFFICES ASSUME RolesTyped, Heals, Adopted PROVE SetupHeals OBVIOUS
  <2>1. ASSUME Working = {} PROVE (\A k \in RoleKeys : ~ KeyDue(k)) /\ \A K \in ChannelKinds : ~ ChannelDue(K)
    <3>1. \A c \in RoleCallers : call[c] = NoRole BY <2>1 DEF RolesTyped, CallShaped, Fits, Working
    <3> QED BY <3>1, NoRoleApart, RolesAssumption DEF KeyDue, ChannelDue, ChannelKinds
  <2>2. ASSUME ~tainted, NEW n \in Names PROVE Cardinality(Bearing(n)) <= 1
    <3>1. CASE Bearing(n) = {} BY <3>1, FS_EmptySet
    <3>2. CASE Bearing(n) # {}
      <4>1. PICK r \in Bearing(n) : TRUE BY <3>2
      <4>2. Bearing(n) = {r} BY <2>2, <4>1 DEF Adopted
      <4> QED BY <4>2, FS_Singleton
    <3> QED BY <3>1, <3>2
  <2>3. ASSUME Working = {}, healed \cap {"channel", "edit"} # {}
        PROVE  Bearing(Admin) \cap visible # {}
    BY <2>1, <2>3 DEF Heals, ChannelDone, ChannelKinds
  <2>4. ASSUME Working = {}, "channel" \in healed
        PROVE  \E r \in Bearing(Admin) \cap visible : holders[r] = Operators
    <3>1. ChannelDone({"channel"}) BY <2>1, <2>4 DEF Heals, ChannelKinds
    <3> QED BY <3>1 DEF ChannelDone
  <2> QED BY <2>1, <2>2, <2>3, <2>4 DEF Heals, KeyDone, SetupHeals
<1> QED BY <1>1, <1>2, <1>3, PTL DEF RolesSpec

-----------------------------------------------------------------------------
(* THE SURFACES.                                                            *)

Menus == [channel : Channels, view : Views, language : Languages, pinned : BOOLEAN]
Stages == {"idle", "tree", "create", "pins", "edit", "send", "pin", "register"}

\* What a pass has in hand at each step: what is left, the channels resolved,
\* the declaration, the language built and the message.
PassFits(step, T, G, d, l, m) ==
  /\ step \in {"idle", "tree", "pins"} => d = None
  /\ step = "create" => d \in Decls /\ d \notin T /\ G[d] = None
  /\ step \in {"edit", "send", "pin", "register"} => d \in Views /\ l \in Languages
  /\ step \in {"edit", "pin", "register"} => m \in MessageIds
  /\ step \in {"tree", "create"} => \A e \in T : G[e] = None
  /\ step \notin {"tree", "create"} => G = Nothing /\ T \subseteq Views
  /\ step = "idle" => T = {}
PassShaped(c) == PassFits(pc[c], todo[c], got[c], at[c], built[c], sent[c])

SurfaceStores ==
  /\ stored \in [Decls -> Channels \cup {None}] /\ registry \in [Decls -> MessageIds \cup {None}]
  /\ cached \in [Decls -> MessageIds \cup {None}] /\ memory \in [Decls -> MessageIds \cup {None}]
  /\ rendered \in [Decls -> Languages \cup {None}]
SurfaceGuild ==
  /\ channel \in [Channels -> Decls \cup {None, Gone}] /\ language \in Languages
  /\ message \in [MessageIds -> {None, Gone} \cup Menus]
Passes ==
  /\ pc \in [Callers -> Stages] /\ todo \in [Callers -> SUBSET Decls]
  /\ got \in [Callers -> [Decls -> Channels \cup {None}]] /\ at \in [Callers -> Decls \cup {None}]
  /\ built \in [Callers -> Languages \cup {None}] /\ sent \in [Callers -> MessageIds \cup {None}]
  /\ \A c \in Callers : PassShaped(c)
SurfacesTyped ==
  SurfaceGuild /\ SurfaceStores /\ Passes /\ settled \in BOOLEAN /\ spoilt \in BOOLEAN

\* A pass goes on, the others stay as they are.
Turned(c, step, T, G, d, l, m) ==
  /\ step \in Stages /\ T \in SUBSET Decls /\ G \in [Decls -> Channels \cup {None}]
  /\ d \in Decls \cup {None} /\ l \in Languages \cup {None} /\ m \in MessageIds \cup {None}
  /\ PassFits(step, T, G, d, l, m)
  /\ pc' = [pc EXCEPT ![c] = step] /\ todo' = [todo EXCEPT ![c] = T]
  /\ got' = [got EXCEPT ![c] = G] /\ at' = [at EXCEPT ![c] = d]
  /\ built' = [built EXCEPT ![c] = l] /\ sent' = [sent EXCEPT ![c] = m]
OtherPasses(c) ==
  \A d \in Callers \ {c} :
    /\ pc'[d] = pc[d] /\ todo'[d] = todo[d] /\ got'[d] = got[d] /\ at'[d] = at[d]
    /\ built'[d] = built[d] /\ sent'[d] = sent[d]
LEMMA OnePass ==
  ASSUME Passes, NEW c \in Callers, NEW step, NEW T, NEW G, NEW d, NEW l, NEW m,
         Turned(c, step, T, G, d, l, m)
  PROVE  /\ Passes' /\ OtherPasses(c)
         /\ pc'[c] = step /\ todo'[c] = T /\ got'[c] = G /\ at'[c] = d /\ built'[c] = l
         /\ sent'[c] = m
<1>1. /\ pc' \in [Callers -> Stages] /\ todo' \in [Callers -> SUBSET Decls]
      /\ got' \in [Callers -> [Decls -> Channels \cup {None}]]
      /\ at' \in [Callers -> Decls \cup {None}]
      /\ built' \in [Callers -> Languages \cup {None}]
      /\ sent' \in [Callers -> MessageIds \cup {None}]
  BY DEF Turned, Passes
<1>2. /\ pc'[c] = step /\ todo'[c] = T /\ got'[c] = G /\ at'[c] = d /\ built'[c] = l
      /\ sent'[c] = m
  BY DEF Turned, Passes
<1>3. OtherPasses(c) BY DEF Turned, Passes, OtherPasses
<1>4. PassShaped(c)' BY <1>2 DEF PassShaped, Turned
<1>5. \A e \in Callers \ {c} : PassShaped(e)' BY <1>3 DEF OtherPasses, PassShaped, Passes
<1> QED BY <1>1, <1>2, <1>3, <1>4, <1>5 DEF Passes

LEMMA NothingTyped == Nothing \in [Decls -> Channels \cup {None}] BY DEF Nothing

\* The passes, step by step.
LEMMA BeginTurns ==
  ASSUME Passes, NEW c \in Callers, Sync(c) \/ BootPass(c)
  PROVE  /\ pc[c] = "idle"
         /\ Sync(c) => Turned(c, "tree", Decls, Nothing, None, built[c], sent[c])
         /\ ~ Sync(c) => Turned(c, "pins", Views, Nothing, None, built[c], sent[c])
<1>1. /\ pc[c] = "idle" /\ got' = [got EXCEPT ![c] = Nothing] /\ UNCHANGED <<at, built, sent>>
  BY DEF Sync, BootPass, Begin
<1>2. at[c] = None BY <1>1 DEF Passes, PassShaped, PassFits
<1>3. /\ at' = [at EXCEPT ![c] = None] /\ built' = [built EXCEPT ![c] = built[c]]
      /\ sent' = [sent EXCEPT ![c] = sent[c]] /\ built[c] \in Languages \cup {None}
      /\ sent[c] \in MessageIds \cup {None}
  BY <1>1, <1>2 DEF Passes
<1>4. PassFits("tree", Decls, Nothing, None, built[c], sent[c]) BY DEF PassFits, Nothing
<1>5. PassFits("pins", Views, Nothing, None, built[c], sent[c]) BY DEF PassFits
<1>6. Sync(c) => Turned(c, "tree", Decls, Nothing, None, built[c], sent[c])
  BY <1>1, <1>3, <1>4, NothingTyped DEF Turned, Sync, Stages
<1>7. ~ Sync(c) => Turned(c, "pins", Views, Nothing, None, built[c], sent[c])
  BY <1>1, <1>3, <1>5, NothingTyped DEF Turned, BootPass, Stages, Views
<1> QED BY <1>1, <1>6, <1>7

LEMMA ResolveTurns ==
  ASSUME SurfacesTyped, NEW c \in Callers, Resolve(c)
  PROVE  \E d \in todo[c] :
           /\ Turn(c, d)
           /\ \/ \E h \in Found(d) : Turned(c, "tree", todo[c] \ {d}, [got[c] EXCEPT ![d] = h],
                                            None, built[c], sent[c])
              \/ Found(d) = {} /\ Turned(c, "create", todo[c] \ {d}, got[c], d, built[c], sent[c])
<1>1. PICK d \in Decls :
        /\ Turn(c, d) /\ todo' = [todo EXCEPT ![c] = @ \ {d}]
        /\ IF Found(d) # {}
           THEN (\E h \in Found(d) : got' = [got EXCEPT ![c][d] = h]) /\ UNCHANGED <<pc, at>>
           ELSE pc' = [pc EXCEPT ![c] = "create"] /\ at' = [at EXCEPT ![c] = d] /\ UNCHANGED got
  BY DEF Resolve
<1>2. /\ pc[c] = "tree" /\ d \in todo[c] /\ at[c] = None /\ \A e \in todo[c] : got[c][e] = None
  BY <1>1 DEF Turn, SurfacesTyped, Passes, PassShaped, PassFits
<1>3. /\ todo' = [todo EXCEPT ![c] = todo[c] \ {d}] /\ built' = [built EXCEPT ![c] = built[c]]
      /\ sent' = [sent EXCEPT ![c] = sent[c]] /\ built[c] \in Languages \cup {None}
      /\ sent[c] \in MessageIds \cup {None} /\ todo[c] \in SUBSET Decls
      /\ got[c] \in [Decls -> Channels \cup {None}]
  BY <1>1 DEF Resolve, SurfacesTyped, Passes
<1>4. CASE Found(d) # {}
  <2>1. PICK h \in Found(d) : got' = [got EXCEPT ![c][d] = h] BY <1>1, <1>4
  <2>2. h \in Channels BY DEF Found, LiveChannel
  <2> DEFINE G == [got[c] EXCEPT ![d] = h]
  <2>3. G \in [Decls -> Channels \cup {None}] /\ \A e \in todo[c] \ {d} : G[e] = None
    BY <1>2, <1>3, <2>2
  <2>4. /\ got' = [got EXCEPT ![c] = G] /\ pc' = [pc EXCEPT ![c] = "tree"]
        /\ at' = [at EXCEPT ![c] = None]
    BY <1>1, <1>2, <1>4, <2>1 DEF SurfacesTyped, Passes
  <2> HIDE DEF G
  <2>5. PassFits("tree", todo[c] \ {d}, G, None, built[c], sent[c]) BY <2>3 DEF PassFits
  <2>6. Turned(c, "tree", todo[c] \ {d}, G, None, built[c], sent[c])
    BY <1>3, <2>3, <2>4, <2>5 DEF Turned, Stages
  <2> QED BY <1>1, <1>2, <2>6 DEF G
<1>5. CASE Found(d) = {}
  <2>1. /\ pc' = [pc EXCEPT ![c] = "create"] /\ at' = [at EXCEPT ![c] = d]
        /\ got' = [got EXCEPT ![c] = got[c]]
    BY <1>1, <1>5 DEF SurfacesTyped, Passes
  <2>2. PassFits("create", todo[c] \ {d}, got[c], d, built[c], sent[c]) BY <1>2 DEF PassFits
  <2>3. Turned(c, "create", todo[c] \ {d}, got[c], d, built[c], sent[c])
    BY <1>3, <2>1, <2>2 DEF Turned, Stages
  <2> QED BY <1>1, <1>2, <1>5, <2>3
<1> QED BY <1>4, <1>5

LEMMA CreateTurns ==
  ASSUME SurfacesTyped, NEW c \in Callers, Create(c)
  PROVE  \E h \in Channels :
           /\ channel[h] = None /\ channel' = [channel EXCEPT ![h] = at[c]]
           /\ at[c] \in Decls /\ at[c] \notin todo[c] /\ got[c][at[c]] = None
           /\ Turned(c, "tree", todo[c], [got[c] EXCEPT ![at[c]] = h], None, None, None)
<1>1. PICK h \in Channels : /\ channel[h] = None /\ channel' = [channel EXCEPT ![h] = at[c]]
                           /\ got' = [got EXCEPT ![c][at[c]] = h]
  BY DEF Create
<1>2. /\ pc[c] = "create" /\ Back(c, "tree") /\ at[c] \in Decls /\ at[c] \notin todo[c]
      /\ got[c][at[c]] = None /\ \A e \in todo[c] : got[c][e] = None
  BY DEF Create, SurfacesTyped, Passes, PassShaped, PassFits
<1> DEFINE G == [got[c] EXCEPT ![at[c]] = h]
<1>3. /\ G \in [Decls -> Channels \cup {None}] /\ (\A e \in todo[c] : G[e] = None)
      /\ got' = [got EXCEPT ![c] = G] /\ todo' = [todo EXCEPT ![c] = todo[c]]
      /\ todo[c] \in SUBSET Decls
  BY <1>1, <1>2 DEF Create, SurfacesTyped, Passes
<1> HIDE DEF G
<1>4. PassFits("tree", todo[c], G, None, None, None) BY <1>3 DEF PassFits
<1>5. Turned(c, "tree", todo[c], G, None, None, None)
  BY <1>2, <1>3, <1>4 DEF Turned, Back, Stages
<1> QED BY <1>1, <1>2, <1>5 DEF G
LEMMA PassHas ==
  ASSUME Passes, NEW c \in Callers
  PROVE  /\ pc[c] \in Stages /\ todo[c] \in SUBSET Decls
         /\ got[c] \in [Decls -> Channels \cup {None}] /\ at[c] \in Decls \cup {None}
         /\ built[c] \in Languages \cup {None} /\ sent[c] \in MessageIds \cup {None}
         /\ PassFits(pc[c], todo[c], got[c], at[c], built[c], sent[c])
         /\ todo = [todo EXCEPT ![c] = todo[c]] /\ got = [got EXCEPT ![c] = got[c]]
         /\ at = [at EXCEPT ![c] = at[c]] /\ built = [built EXCEPT ![c] = built[c]]
         /\ sent = [sent EXCEPT ![c] = sent[c]] /\ pc = [pc EXCEPT ![c] = pc[c]]
<1>1. /\ pc[c] \in Stages /\ todo[c] \in SUBSET Decls
      /\ got[c] \in [Decls -> Channels \cup {None}] /\ at[c] \in Decls \cup {None}
      /\ built[c] \in Languages \cup {None} /\ sent[c] \in MessageIds \cup {None}
      /\ PassFits(pc[c], todo[c], got[c], at[c], built[c], sent[c])
  BY DEF Passes, PassShaped
<1>2. /\ todo = [todo EXCEPT ![c] = todo[c]] /\ got = [got EXCEPT ![c] = got[c]]
      /\ at = [at EXCEPT ![c] = at[c]] /\ built = [built EXCEPT ![c] = built[c]]
      /\ sent = [sent EXCEPT ![c] = sent[c]] /\ pc = [pc EXCEPT ![c] = pc[c]]
  BY DEF Passes
<1> QED BY <1>1, <1>2

LEMMA RefusedTurns ==
  ASSUME Passes, NEW c \in Callers, Refused(c)
  PROVE  \E step \in {"idle", "tree"}, T \in SUBSET Decls, G \in {Nothing, got[c]},
            l \in Languages \cup {None}, m \in MessageIds \cup {None} :
           pc[c] # "idle" /\ Turned(c, step, T, G, None, l, m)
<1>1. /\ todo[c] \in SUBSET Decls /\ got[c] \in [Decls -> Channels \cup {None}]
      /\ built[c] \in Languages \cup {None} /\ sent[c] \in MessageIds \cup {None}
      /\ PassFits(pc[c], todo[c], got[c], at[c], built[c], sent[c])
  BY PassHas
<1>2. CASE Left(c) /\ pc[c] # "idle"
  <2>1. PassFits("idle", {}, Nothing, None, None, None) BY DEF PassFits
  <2>2. Turned(c, "idle", {}, Nothing, None, None, None)
    BY <1>2, <2>1, NothingTyped DEF Left, Back, Turned, Stages
  <2> QED BY <1>2, <2>2
<1>3. CASE \E d \in Decls : Turn(c, d) /\ todo' = [todo EXCEPT ![c] = @ \ {d}]
                            /\ UNCHANGED <<pc, got, at, built, sent>>
  <2>1. PICK d \in Decls : /\ Turn(c, d) /\ todo' = [todo EXCEPT ![c] = todo[c] \ {d}]
                           /\ UNCHANGED <<pc, got, at, built, sent>>
    BY <1>3
  <2>2. /\ pc[c] = "tree" /\ at[c] = None /\ \A e \in todo[c] : got[c][e] = None
    BY <1>1, <2>1 DEF Turn, PassFits
  <2>3. PassFits("tree", todo[c] \ {d}, got[c], None, built[c], sent[c]) BY <2>2 DEF PassFits
  <2>4. /\ pc' = [pc EXCEPT ![c] = "tree"] /\ got' = [got EXCEPT ![c] = got[c]]
        /\ at' = [at EXCEPT ![c] = None] /\ built' = [built EXCEPT ![c] = built[c]]
        /\ sent' = [sent EXCEPT ![c] = sent[c]]
    BY <2>1, <2>2, PassHas
  <2>5. Turned(c, "tree", todo[c] \ {d}, got[c], None, built[c], sent[c])
    BY <1>1, <2>1, <2>3, <2>4 DEF Turned, Stages
  <2> QED BY <1>1, <2>2, <2>5
<1>4. CASE pc[c] = "create" /\ Back(c, "tree") /\ UNCHANGED <<todo, got>>
  <2>1. PassFits("tree", todo[c], got[c], None, None, None) BY <1>1, <1>4 DEF PassFits
  <2>2. /\ todo' = [todo EXCEPT ![c] = todo[c]] /\ got' = [got EXCEPT ![c] = got[c]]
    BY <1>4, PassHas
  <2>3. Turned(c, "tree", todo[c], got[c], None, None, None)
    BY <1>1, <1>4, <2>1, <2>2 DEF Turned, Back, Stages
  <2> QED BY <1>1, <1>4, <2>3
<1> QED BY <1>2, <1>3, <1>4 DEF Refused, Turn

LEMMA PersistTurns ==
  ASSUME Passes, NEW c \in Callers, Persist(c)
  PROVE  /\ pc[c] = "tree" /\ todo[c] = {} /\ at[c] = None
         /\ Turned(c, "pins", Views, Nothing, None, built[c], sent[c])
<1>1. /\ pc[c] = "tree" /\ todo[c] = {} /\ pc' = [pc EXCEPT ![c] = "pins"]
      /\ todo' = [todo EXCEPT ![c] = Views] /\ got' = [got EXCEPT ![c] = Nothing]
      /\ UNCHANGED <<at, built, sent>>
  BY DEF Persist
<1>2. at[c] = None /\ built[c] \in Languages \cup {None} /\ sent[c] \in MessageIds \cup {None}
  BY <1>1, PassHas DEF PassFits
<1>3. /\ at' = [at EXCEPT ![c] = None] /\ built' = [built EXCEPT ![c] = built[c]]
      /\ sent' = [sent EXCEPT ![c] = sent[c]]
  BY <1>1, <1>2, PassHas
<1>4. PassFits("pins", Views, Nothing, None, built[c], sent[c]) BY DEF PassFits
<1>5. Views \in SUBSET Decls BY DEF Views
<1> QED BY <1>1, <1>2, <1>3, <1>4, <1>5, NothingTyped DEF Turned, Stages
\* The three ways in which a pass treats a menu.
LeftOut(c, d) ==
  /\ stored[d] \notin LiveChannel /\ UNCHANGED message
  /\ Turned(c, "pins", todo[c] \ {d}, Nothing, None, built[c], sent[c])
Repins(c, d) ==
  /\ \E m \in Fetched(d) : rendered[d] = language /\ message' = Repinned(m, TRUE)
  /\ Turned(c, "pins", todo[c] \ {d}, Nothing, None, built[c], sent[c])
Edits(c, d) ==
  /\ UNCHANGED message
  /\ \E m \in Fetched(d) : Turned(c, "edit", todo[c] \ {d}, Nothing, d, language, m)
Sends(c, d) ==
  /\ stored[d] \in LiveChannel /\ Fetched(d) = {} /\ UNCHANGED message
  /\ Turned(c, "send", todo[c] \ {d}, Nothing, d, language, sent[c])
LEMMA OpenTurns ==
  ASSUME Passes, SurfaceGuild, NEW c \in Callers, Open(c)
  PROVE  /\ pc[c] = "pins"
         /\ \E d \in todo[c] :
              /\ d \in Views /\ cached' = [cached EXCEPT ![d] = IF @ # None THEN @ ELSE registry[d]]
              /\ LeftOut(c, d) \/ Repins(c, d) \/ Edits(c, d) \/ Sends(c, d)
<1>1. PICK d \in todo[c] :
       /\ todo' = [todo EXCEPT ![c] = todo[c] \ {d}]
       /\ cached' = [cached EXCEPT ![d] = IF @ # None THEN @ ELSE registry[d]]
       /\ \/ /\ stored[d] \notin LiveChannel
             /\ UNCHANGED <<pc, at, built, sent, message>>
          \/ /\ stored[d] \in LiveChannel
             /\ \E m \in Fetched(d) : rendered[d] = language /\ message' = Repinned(m, TRUE)
             /\ UNCHANGED <<pc, at, built, sent>>
          \/ /\ stored[d] \in LiveChannel /\ (Fetched(d) # {} => rendered[d] # language)
             /\ IF Fetched(d) # {}
                THEN /\ \E m \in Fetched(d) : sent' = [sent EXCEPT ![c] = m]
                     /\ pc' = [pc EXCEPT ![c] = "edit"]
                ELSE pc' = [pc EXCEPT ![c] = "send"] /\ UNCHANGED sent
             /\ at' = [at EXCEPT ![c] = d] /\ built' = [built EXCEPT ![c] = language]
             /\ UNCHANGED message
  BY DEF Open
<1>2. /\ pc[c] = "pins" /\ todo[c] \in SUBSET Views /\ got[c] = Nothing /\ at[c] = None
      /\ todo[c] \ {d} \in SUBSET Decls /\ built[c] \in Languages \cup {None}
      /\ sent[c] \in MessageIds \cup {None} /\ got' = [got EXCEPT ![c] = Nothing]
      /\ language \in Languages /\ d \in Views /\ d \in Decls
  BY PassHas DEF Open, PassFits, SurfaceGuild
<1>3. PassFits("pins", todo[c] \ {d}, Nothing, None, built[c], sent[c]) BY <1>2 DEF PassFits
<1>4. UNCHANGED <<pc, at, built, sent>>
        => Turned(c, "pins", todo[c] \ {d}, Nothing, None, built[c], sent[c])
  <2> HAVE UNCHANGED <<pc, at, built, sent>>
  <2>1. /\ pc' = [pc EXCEPT ![c] = "pins"] /\ at' = [at EXCEPT ![c] = None]
        /\ built' = [built EXCEPT ![c] = built[c]] /\ sent' = [sent EXCEPT ![c] = sent[c]]
    BY <1>2, PassHas
  <2> QED BY <1>1, <1>2, <1>3, <2>1, NothingTyped DEF Turned, Stages
<1>5. ASSUME NEW m \in Fetched(d), sent' = [sent EXCEPT ![c] = m], pc' = [pc EXCEPT ![c] = "edit"],
             at' = [at EXCEPT ![c] = d], built' = [built EXCEPT ![c] = language]
      PROVE  Turned(c, "edit", todo[c] \ {d}, Nothing, d, language, m)
  <2>1. m \in MessageIds BY DEF Fetched, LiveMessage
  <2>2. PassFits("edit", todo[c] \ {d}, Nothing, d, language, m) BY <1>2, <2>1 DEF PassFits
  <2> QED BY <1>1, <1>2, <1>5, <2>1, <2>2, NothingTyped DEF Turned, Stages
<1>6. ASSUME UNCHANGED sent, pc' = [pc EXCEPT ![c] = "send"],
             at' = [at EXCEPT ![c] = d], built' = [built EXCEPT ![c] = language]
      PROVE  Turned(c, "send", todo[c] \ {d}, Nothing, d, language, sent[c])
  <2>1. sent' = [sent EXCEPT ![c] = sent[c]] BY <1>6, PassHas
  <2>2. PassFits("send", todo[c] \ {d}, Nothing, d, language, sent[c]) BY <1>2 DEF PassFits
  <2> QED BY <1>1, <1>2, <1>6, <2>1, <2>2, NothingTyped DEF Turned, Stages
<1>7. LeftOut(c, d) \/ Repins(c, d) \/ Edits(c, d) \/ Sends(c, d)
  <2>1. CASE stored[d] \notin LiveChannel BY <1>1, <1>4, <2>1 DEF LeftOut
  <2>2. CASE stored[d] \in LiveChannel /\ Fetched(d) # {}
    <3>1. CASE \E m \in Fetched(d) : rendered[d] = language /\ message' = Repinned(m, TRUE)
      BY <1>1, <1>4, <2>2, <3>1 DEF Repins
    <3>2. CASE ~ \E m \in Fetched(d) : rendered[d] = language /\ message' = Repinned(m, TRUE)
      BY <1>1, <1>5, <2>2, <3>2 DEF Edits
    <3> QED BY <3>1, <3>2
  <2>3. CASE stored[d] \in LiveChannel /\ Fetched(d) = {} BY <1>1, <1>6, <2>3 DEF Sends
  <2> QED BY <2>1, <2>2, <2>3
<1> QED BY <1>1, <1>2, <1>7

LEMMA EditTurns ==
  ASSUME Passes, SurfaceGuild, NEW c \in Callers, Edit(c) \/ GivenUp(c) \/ Register(c)
  PROVE  /\ Edit(c) => pc[c] = "edit"
         /\ GivenUp(c) => pc[c] \in {"send", "pin"}
         /\ Register(c) => pc[c] = "register"
         /\ Turned(c, "pins", todo[c], Nothing, None, None, None)
<1>1. /\ Edit(c) => pc[c] = "edit"
      /\ GivenUp(c) => pc[c] \in {"send", "pin"}
      /\ Register(c) => pc[c] = "register"
  BY DEF Edit, GivenUp, Register
<1>2. Back(c, "pins") /\ UNCHANGED <<todo, got>> BY DEF Edit, GivenUp, Register
<1>3. /\ got[c] = Nothing /\ todo[c] \in SUBSET Views /\ todo[c] \in SUBSET Decls
      /\ todo' = [todo EXCEPT ![c] = todo[c]] /\ got' = [got EXCEPT ![c] = got[c]]
  BY <1>1, <1>2, PassHas DEF PassFits
<1>4. PassFits("pins", todo[c], Nothing, None, None, None) BY <1>3 DEF PassFits
<1> QED BY <1>1, <1>2, <1>3, <1>4, NothingTyped DEF Turned, Back, Stages

LEMMA EditFailsTurns ==
  ASSUME Passes, SurfaceGuild, NEW c \in Callers, EditFails(c)
  PROVE  /\ pc[c] = "edit"
         /\ Turned(c, "send", todo[c], Nothing, at[c], language, None)
<1>1. /\ pc[c] = "edit" /\ pc' = [pc EXCEPT ![c] = "send"]
      /\ built' = [built EXCEPT ![c] = language] /\ sent' = [sent EXCEPT ![c] = None]
      /\ UNCHANGED <<todo, got, at>> /\ language \in Languages
  BY DEF EditFails, SurfaceGuild
<1>2. /\ got[c] = Nothing /\ todo[c] \in SUBSET Views /\ todo[c] \in SUBSET Decls
      /\ at[c] \in Views /\ at[c] \in Decls \cup {None}
      /\ todo' = [todo EXCEPT ![c] = todo[c]] /\ got' = [got EXCEPT ![c] = got[c]]
      /\ at' = [at EXCEPT ![c] = at[c]]
  BY <1>1, PassHas DEF PassFits
<1>3. PassFits("send", todo[c], Nothing, at[c], language, None) BY <1>1, <1>2 DEF PassFits
<1> QED BY <1>1, <1>2, <1>3, NothingTyped DEF Turned, Stages

LEMMA SendTurns ==
  ASSUME Passes, SurfaceGuild, NEW c \in Callers, Send(c)
  PROVE  /\ pc[c] = "send" /\ stored[at[c]] \in LiveChannel /\ at[c] \in Views
         /\ built[c] \in Languages
         /\ \E m \in MessageIds :
              /\ message[m] = None
              /\ message' = [message EXCEPT ![m] =
                   [channel |-> stored[at[c]], view |-> at[c], language |-> built[c],
                    pinned |-> FALSE]]
              /\ Turned(c, "pin", todo[c], Nothing, at[c], built[c], m)
<1>1. PICK m \in MessageIds :
       /\ message[m] = None
       /\ message' = [message EXCEPT ![m] =
            [channel |-> stored[at[c]], view |-> at[c], language |-> built[c], pinned |-> FALSE]]
       /\ sent' = [sent EXCEPT ![c] = m]
  BY DEF Send
<1>2. /\ pc[c] = "send" /\ pc' = [pc EXCEPT ![c] = "pin"] /\ UNCHANGED <<todo, got, at, built>>
      /\ stored[at[c]] \in LiveChannel
  BY DEF Send
<1>3. /\ got[c] = Nothing /\ todo[c] \in SUBSET Views /\ todo[c] \in SUBSET Decls
      /\ at[c] \in Views /\ at[c] \in Decls \cup {None} /\ built[c] \in Languages
      /\ todo' = [todo EXCEPT ![c] = todo[c]] /\ got' = [got EXCEPT ![c] = got[c]]
      /\ at' = [at EXCEPT ![c] = at[c]] /\ built' = [built EXCEPT ![c] = built[c]]
  BY <1>2, PassHas DEF PassFits
<1>4. PassFits("pin", todo[c], Nothing, at[c], built[c], m) BY <1>3 DEF PassFits
<1>5. Turned(c, "pin", todo[c], Nothing, at[c], built[c], m)
  BY <1>1, <1>2, <1>3, <1>4, NothingTyped DEF Turned, Stages
<1> QED BY <1>1, <1>2, <1>3, <1>5

LEMMA PinTurns ==
  ASSUME Passes, SurfaceGuild, NEW c \in Callers, Pin(c)
  PROVE  /\ pc[c] = "pin" /\ sent[c] \in LiveMessage
         /\ Turned(c, "register", todo[c], Nothing, at[c], built[c], sent[c])
<1>1. /\ pc[c] = "pin" /\ pc' = [pc EXCEPT ![c] = "register"] /\ sent[c] \in LiveMessage
      /\ UNCHANGED <<todo, got, at, built, sent>>
  BY DEF Pin
<1>2. /\ got[c] = Nothing /\ todo[c] \in SUBSET Views /\ todo[c] \in SUBSET Decls
      /\ at[c] \in Views /\ at[c] \in Decls \cup {None} /\ built[c] \in Languages
      /\ sent[c] \in MessageIds
      /\ todo' = [todo EXCEPT ![c] = todo[c]] /\ got' = [got EXCEPT ![c] = got[c]]
      /\ at' = [at EXCEPT ![c] = at[c]] /\ built' = [built EXCEPT ![c] = built[c]]
      /\ sent' = [sent EXCEPT ![c] = sent[c]]
  BY <1>1, PassHas DEF PassFits
<1>3. PassFits("register", todo[c], Nothing, at[c], built[c], sent[c]) BY <1>2 DEF PassFits
<1> QED BY <1>1, <1>2, <1>3, NothingTyped DEF Turned, Stages

LEMMA FinishTurns ==
  ASSUME Passes, NEW c \in Callers, Finish(c)
  PROVE  /\ pc[c] = "pins" /\ todo[c] = {} /\ got[c] = Nothing /\ at[c] = None
         /\ Turned(c, "idle", {}, Nothing, None, None, None)
<1>1. pc[c] = "pins" /\ todo[c] = {} /\ got[c] = Nothing /\ at[c] = None
  BY PassHas DEF Finish, PassFits
<1>2. PassFits("idle", {}, Nothing, None, None, None) BY DEF PassFits
<1> QED BY <1>1, <1>2, NothingTyped DEF Finish, Left, Back, Turned, Stages
-----------------------------------------------------------------------------
\* The menus.
LEMMA Apart ==
  ASSUME SurfacesAssumption
  PROVE  /\ None # Gone /\ None \notin Menus /\ Gone \notin Menus /\ Categories \subseteq Decls
         /\ \A x \in {None, Gone} :
              x \notin Decls /\ x \notin Channels /\ x \notin Languages /\ x \notin MessageIds
<1>1. /\ None # Gone /\ Categories \subseteq Decls
      /\ {None, Gone} \cap (Decls \cup Channels \cup Languages \cup MessageIds) = {}
      /\ \A h \in Channels, d \in Views, l \in Languages, x \in BOOLEAN :
           [channel |-> h, view |-> d, language |-> l, pinned |-> x] \notin {None, Gone}
  BY DEF SurfacesAssumption
<1>2. ASSUME NEW r \in Menus PROVE r \notin {None, Gone}
  <2>1. r = [channel |-> r.channel, view |-> r.view, language |-> r.language, pinned |-> r.pinned]
    BY DEF Menus
  <2>2. r.channel \in Channels /\ r.view \in Views /\ r.language \in Languages
    BY DEF Menus
  <2>3. r.pinned \in BOOLEAN BY DEF Menus
  <2> QED BY <1>1, <2>1, <2>2, <2>3
<1> QED BY <1>1, <1>2

\* A menu is pinned or edited where it is.
Remade(m, r) ==
  /\ m \in LiveMessage /\ message' = [message EXCEPT ![m] = r] /\ r \in Menus
  /\ r.channel = message[m].channel /\ r.view = message[m].view
MenusStay ==
  /\ LiveMessage' = LiveMessage
  /\ \A n \in LiveMessage :
       message'[n].channel = message[n].channel /\ message'[n].view = message[n].view
  /\ \A n \in MessageIds : (message'[n] = Gone <=> message[n] = Gone)
  /\ \A n \in MessageIds : (message'[n] = None <=> message[n] = None)
LEMMA RemadeStays ==
  ASSUME SurfacesAssumption, message \in [MessageIds -> {None, Gone} \cup Menus], NEW m, NEW r,
         Remade(m, r)
  PROVE  /\ message' \in [MessageIds -> {None, Gone} \cup Menus] /\ MenusStay
         /\ message'[m] = r /\ \A n \in MessageIds \ {m} : message'[n] = message[n]
<1>1. /\ m \in MessageIds /\ message[m] \notin {None, Gone} /\ r \in Menus
      /\ message' = [message EXCEPT ![m] = r]
  BY DEF Remade, LiveMessage
<1>2. r \notin {None, Gone} BY <1>1, Apart
<1>3. /\ message' \in [MessageIds -> {None, Gone} \cup Menus]
      /\ message'[m] = r /\ \A n \in MessageIds \ {m} : message'[n] = message[n]
  BY <1>1
<1>4. \A n \in MessageIds :
       /\ (message'[n] = Gone <=> message[n] = Gone)
       /\ (message'[n] = None <=> message[n] = None)
  BY <1>1, <1>2, <1>3
<1>5. LiveMessage' = LiveMessage BY <1>4 DEF LiveMessage
<1>6. \A n \in LiveMessage :
       message'[n].channel = message[n].channel /\ message'[n].view = message[n].view
  BY <1>3 DEF LiveMessage, Remade
<1> QED BY <1>3, <1>4, <1>5, <1>6 DEF MenusStay

LEMMA RepinnedIs ==
  ASSUME message \in [MessageIds -> {None, Gone} \cup Menus], NEW m \in LiveMessage,
         NEW x \in BOOLEAN, message' = Repinned(m, x)
  PROVE  Remade(m, [message[m] EXCEPT !.pinned = x])
<1>1. m \in MessageIds /\ message[m] \in Menus BY DEF LiveMessage
<1> DEFINE r == [message[m] EXCEPT !.pinned = x]
<1>2. r \in Menus /\ r.channel = message[m].channel /\ r.view = message[m].view BY <1>1 DEF Menus
<1>3. message' = [message EXCEPT ![m] = r] BY <1>1 DEF Repinned
<1> HIDE DEF r
<1>4. Remade(m, r) BY <1>2, <1>3 DEF Remade
<1> QED BY <1>4 DEF r

LEMMA EditIs ==
  ASSUME message \in [MessageIds -> {None, Gone} \cup Menus], NEW m \in LiveMessage,
         NEW l \in Languages,
         message' = [message EXCEPT ![m].language = l, ![m].pinned = TRUE]
  PROVE  Remade(m, [message[m] EXCEPT !.language = l, !.pinned = TRUE])
<1>1. m \in MessageIds /\ message[m] \in Menus BY DEF LiveMessage
<1> DEFINE r == [message[m] EXCEPT !.language = l, !.pinned = TRUE]
<1>2. r \in Menus /\ r.channel = message[m].channel /\ r.view = message[m].view BY <1>1 DEF Menus
<1>3. message' = [message EXCEPT ![m] = r] BY <1>1
<1> HIDE DEF r
<1>4. Remade(m, r) BY <1>2, <1>3 DEF Remade
<1> QED BY <1>4 DEF r

\* What each step does to the channels and the messages.
LEMMA ChannelsStay ==
  ASSUME UNCHANGED channel
  PROVE  LiveChannel' = LiveChannel
  BY DEF LiveChannel
LEMMA SurfacesTypedInit == ASSUME SurfacesInit PROVE SurfacesTyped
<1>1. \A c \in Callers : PassFits("idle", {}, Nothing, None, None, None) BY DEF PassFits
<1>2. Passes BY <1>1, NothingTyped DEF SurfacesInit, Passes, PassShaped, Stages
<1>3. SurfaceGuild BY DEF SurfacesInit, SurfaceGuild
<1>4. SurfaceStores BY DEF SurfacesInit, SurfaceStores, Nothing
<1> QED BY <1>2, <1>3, <1>4 DEF SurfacesInit, SurfacesTyped

\* The channels are resolved.
LEMMA BuildingTyped ==
  ASSUME SurfacesAssumption, SurfacesTyped, NEW c \in Callers,
         Sync(c) \/ BootPass(c) \/ Resolve(c) \/ Create(c) \/ Refused(c) \/ Persist(c)
  PROVE  SurfacesTyped'
<1>1. CASE Sync(c) \/ BootPass(c)
  <2>1. Passes' BY <1>1, BeginTurns, OnePass DEF SurfacesTyped
  <2>2. SurfaceGuild' /\ SurfaceStores'
    BY <1>1 DEF Sync, BootPass, SurfacesTyped, SurfaceGuild, SurfaceStores, guild, stores, process
  <2>3. settled' \in BOOLEAN /\ spoilt' \in BOOLEAN
    BY <1>1 DEF Sync, BootPass, Begin, SurfacesTyped
  <2> QED BY <2>1, <2>2, <2>3 DEF SurfacesTyped
<1>2. CASE Resolve(c)
  <2>1. Passes' BY <1>2, ResolveTurns, OnePass DEF SurfacesTyped
  <2> QED BY <1>2, <2>1 DEF Resolve, Fine, SurfacesTyped, SurfaceGuild, SurfaceStores, guild,
                       stores, process, history
<1>3. CASE Create(c)
  <2>1. PICK h \in Channels :
          /\ channel' = [channel EXCEPT ![h] = at[c]] /\ at[c] \in Decls
          /\ Turned(c, "tree", todo[c], [got[c] EXCEPT ![at[c]] = h], None, None, None)
    BY <1>3, CreateTurns
  <2>2. Passes' BY <2>1, OnePass DEF SurfacesTyped
  <2>3. SurfaceGuild'
    BY <1>3, <2>1 DEF Create, SurfacesTyped, SurfaceGuild
  <2> QED BY <1>3, <2>2, <2>3 DEF Create, Fine, SurfacesTyped, SurfaceStores, stores, process,
            history
<1>4. CASE Refused(c)
  <2>1. Passes' BY <1>4, RefusedTurns, OnePass DEF SurfacesTyped
  <2> QED BY <1>4, <2>1 DEF Refused, Fault, SurfacesTyped, SurfaceGuild, SurfaceStores, guild,
                       stores, process
<1>5. CASE Persist(c)
  <2>1. Passes' BY <1>5, PersistTurns, OnePass DEF SurfacesTyped
  <2>2. \E S \in SUBSET Decls : stored' = Persisted(c, S) BY <1>5 DEF Persist
  <2>3. got[c] \in [Decls -> Channels \cup {None}] BY PassHas DEF SurfacesTyped
  <2>4. stored' \in [Decls -> Channels \cup {None}]
    BY <2>2, <2>3 DEF Persisted, SurfacesTyped, SurfaceStores
  <2>5. settled' \in BOOLEAN /\ spoilt' \in BOOLEAN
    BY <1>5 DEF Persist, Fine, Fault, history, SurfacesTyped
  <2> QED BY <1>5, <2>1, <2>4, <2>5 DEF Persist, SurfacesTyped, SurfaceGuild, SurfaceStores, guild,
                                    process
<1> QED BY <1>1, <1>2, <1>3, <1>4, <1>5

\* The menus are ensured.
LEMMA PinningTyped ==
  ASSUME SurfacesAssumption, SurfacesTyped, NEW c \in Callers,
         \/ Open(c) \/ Edit(c) \/ EditFails(c) \/ Send(c) \/ Pin(c) \/ GivenUp(c) \/ Register(c)
         \/ Finish(c)
  PROVE  SurfacesTyped'
<1> USE DEF SurfacesTyped
<1>1. settled' \in BOOLEAN /\ spoilt' \in BOOLEAN
  BY DEF Open, Edit, EditFails, Send, Pin, GivenUp, Register, Finish, Fine, Fault, history
<1>2. CASE Open(c)
  <2>1. PICK d \in todo[c] :
          /\ d \in Views /\ cached' = [cached EXCEPT ![d] = IF @ # None THEN @ ELSE registry[d]]
          /\ LeftOut(c, d) \/ Repins(c, d) \/ Edits(c, d) \/ Sends(c, d)
    BY <1>2, OpenTurns
  <2>2. Passes' BY <2>1, OnePass DEF LeftOut, Repins, Edits, Sends
  <2>3. ASSUME NEW m \in Fetched(d), message' = Repinned(m, TRUE)
        PROVE  message' \in [MessageIds -> {None, Gone} \cup Menus]
    BY <2>3, RepinnedIs, RemadeStays DEF Fetched, SurfaceGuild
  <2>4. message' \in [MessageIds -> {None, Gone} \cup Menus]
    BY <2>1, <2>3 DEF LeftOut, Repins, Edits, Sends, SurfaceGuild
  <2>5. cached' \in [Decls -> MessageIds \cup {None}]
    BY <2>1 DEF SurfaceStores, Views
  <2> QED BY <1>1, <1>2, <2>2, <2>4, <2>5 DEF Open, SurfaceGuild, SurfaceStores, process
<1>3. CASE Edit(c)
  <2>1. Passes' BY <1>3, EditTurns, OnePass
  <2>2. pc[c] = "edit" /\ at[c] \in Views /\ built[c] \in Languages
    BY <1>3, PassHas DEF Edit, PassFits
  <2>3. message' \in [MessageIds -> {None, Gone} \cup Menus]
    BY <1>3, <2>2, EditIs, RemadeStays DEF Edit, SurfaceGuild
  <2>4. rendered' \in [Decls -> Languages \cup {None}]
    BY <1>3, <2>2 DEF Edit, Rendered, SurfaceStores
  <2> QED BY <1>1, <1>3, <2>1, <2>3, <2>4 DEF Edit, SurfaceGuild, SurfaceStores, stores
<1>4. CASE EditFails(c)
  <2>1. Passes' BY <1>4, EditFailsTurns, OnePass
  <2> QED BY <1>1, <1>4, <2>1 DEF EditFails, SurfaceGuild, SurfaceStores, guild, stores, process
<1>5. CASE Send(c)
  <2>1. /\ stored[at[c]] \in LiveChannel /\ at[c] \in Views /\ built[c] \in Languages
        /\ \E m \in MessageIds :
              /\ message' = [message EXCEPT ![m] =
                   [channel |-> stored[at[c]], view |-> at[c], language |-> built[c],
                    pinned |-> FALSE]]
              /\ Turned(c, "pin", todo[c], Nothing, at[c], built[c], m)
    BY <1>5, SendTurns
  <2>2. Passes' BY <2>1, OnePass
  <2>3. [channel |-> stored[at[c]], view |-> at[c], language |-> built[c], pinned |-> FALSE]
          \in Menus
    BY <2>1 DEF Menus, LiveChannel
  <2>4. message' \in [MessageIds -> {None, Gone} \cup Menus]
    BY <2>1, <2>3 DEF SurfaceGuild
  <2> QED BY <1>1, <1>5, <2>2, <2>4 DEF Send, SurfaceGuild, SurfaceStores, stores, process
<1>6. CASE Pin(c)
  <2>1. Passes' BY <1>6, PinTurns, OnePass
  <2>2. message' \in [MessageIds -> {None, Gone} \cup Menus]
    BY <1>6, RepinnedIs, RemadeStays DEF Pin, SurfaceGuild
  <2> QED BY <1>1, <1>6, <2>1, <2>2 DEF Pin, SurfaceGuild, SurfaceStores, stores, process
<1>7. CASE GivenUp(c)
  <2>1. Passes' BY <1>7, EditTurns, OnePass
  <2> QED BY <1>1, <1>7, <2>1 DEF GivenUp, SurfaceGuild, SurfaceStores, guild, stores, process
<1>8. CASE Register(c)
  <2>1. Passes' BY <1>8, EditTurns, OnePass
  <2>2. at[c] \in Decls /\ sent[c] \in MessageIds
    BY <1>8, PassHas DEF Register, PassFits, Views
  <2>3. /\ memory' \in [Decls -> MessageIds \cup {None}]
        /\ registry' \in [Decls -> MessageIds \cup {None}]
        /\ cached' \in [Decls -> MessageIds \cup {None}]
    BY <1>8, <2>2 DEF Register, Cached, SurfaceStores
  <2> QED BY <1>1, <1>8, <2>1, <2>3 DEF Register, SurfaceGuild, SurfaceStores, guild
<1>9. CASE Finish(c)
  <2>1. Passes' BY <1>9, FinishTurns, OnePass
  <2> QED BY <1>1, <1>9, <2>1 DEF Finish, SurfaceGuild, SurfaceStores, guild, stores, process
<1> QED BY <1>2, <1>3, <1>4, <1>5, <1>6, <1>7, <1>8, <1>9
\* The members, the administrators, the cache and the process.
Surroundings ==
  \/ \E h \in Channels : DeleteChannel(h)
  \/ \E m \in MessageIds : Meddle(m)
  \/ \E d \in Decls : CacheExpires(d)
  \/ ChangeLanguage
LEMMA SurroundingsTyped ==
  ASSUME SurfacesAssumption, SurfacesTyped, Surroundings
  PROVE  SurfacesTyped'
<1> USE DEF SurfacesTyped
<1>1. UNCHANGED locals BY DEF Surroundings, DeleteChannel, Meddle, CacheExpires, ChangeLanguage
<1>2. Passes' BY <1>1 DEF locals, Passes, PassShaped
<1>3. settled' \in BOOLEAN /\ spoilt' \in BOOLEAN
  BY DEF Surroundings, DeleteChannel, Meddle, CacheExpires, ChangeLanguage, Act
<1>4. ASSUME NEW h \in Channels, DeleteChannel(h) PROVE SurfacesTyped'
  <2>1. channel' \in [Channels -> Decls \cup {None, Gone}]
    BY <1>4 DEF DeleteChannel, SurfaceGuild
  <2>2. message' \in [MessageIds -> {None, Gone} \cup Menus]
    BY <1>4 DEF DeleteChannel, SurfaceGuild
  <2> QED BY <1>2, <1>3, <1>4, <2>1, <2>2 DEF DeleteChannel, SurfaceGuild, SurfaceStores, stores,
            process
<1>5. ASSUME NEW m \in MessageIds, Meddle(m) PROVE SurfacesTyped'
  <2>1. message' \in [MessageIds -> {None, Gone} \cup Menus]
    <3>1. CASE message' = Repinned(m, FALSE)
      BY <1>5, <3>1, RepinnedIs, RemadeStays DEF Meddle, SurfaceGuild
    <3>2. CASE message' = [message EXCEPT ![m] = Gone] BY <3>2 DEF SurfaceGuild
    <3> QED BY <1>5, <3>1, <3>2 DEF Meddle
  <2> QED BY <1>2, <1>3, <1>5, <2>1 DEF Meddle, SurfaceGuild, SurfaceStores, stores, process
<1>6. ASSUME NEW d \in Decls, CacheExpires(d) PROVE SurfacesTyped'
  <2>1. cached' \in [Decls -> MessageIds \cup {None}] BY <1>6 DEF CacheExpires, SurfaceStores
  <2> QED BY <1>2, <1>3, <1>6, <2>1 DEF CacheExpires, SurfaceGuild, SurfaceStores, guild, process
<1>7. ASSUME ChangeLanguage PROVE SurfacesTyped'
  BY <1>2, <1>3, <1>7 DEF ChangeLanguage, SurfaceGuild, SurfaceStores, stores, process
<1> QED BY <1>4, <1>5, <1>6, <1>7 DEF Surroundings

LEMMA RestartTyped ==
  ASSUME SurfacesTyped, Restart
  PROVE  SurfacesTyped'
<1>1. PassFits("idle", {}, Nothing, None, None, None) BY DEF PassFits
<1>2. Passes' BY <1>1, NothingTyped DEF Restart, Passes, PassShaped, Stages
<1>3. SurfaceStores' BY DEF Restart, SurfacesTyped, SurfaceStores, Nothing, stores
<1> QED BY <1>2, <1>3 DEF Restart, Act, SurfacesTyped, SurfaceGuild, guild

LEMMA SurfacesTypedStep ==
  ASSUME SurfacesAssumption, SurfacesTyped, [SurfacesNext]_surfaceVars
  PROVE  SurfacesTyped'
<1>1. CASE UNCHANGED surfaceVars
  BY <1>1 DEF surfaceVars, guild, stores, process, locals, history, SurfacesTyped, SurfaceGuild,
         SurfaceStores, Passes, PassShaped
<1>2. CASE SurfacesNext
  BY <1>2, BuildingTyped, PinningTyped, SurroundingsTyped, RestartTyped DEF SurfacesNext,
    Surroundings
<1> QED BY <1>1, <1>2

\* Every variable of the surfaces keeps its type, for every set of declarations,
\* channels and callers.
THEOREM SurfacesTypeCorrect == SurfacesSpec => []SurfacesTypeOK
<1>1. SurfacesInit => SurfacesTyped BY SurfacesTypedInit
<1>2. SurfacesTyped /\ [SurfacesNext]_surfaceVars => SurfacesTyped'
  BY SurfacesTypedStep, SurfacesAssumption
<1>3. SurfacesTyped => SurfacesTypeOK
  BY DEF SurfacesTyped, SurfaceGuild, SurfaceStores, Passes, SurfacesTypeOK, Menus
<1> QED BY <1>1, <1>2, <1>3, PTL DEF SurfacesSpec
-----------------------------------------------------------------------------
\* Whatever fails or overlaps, a record, a cache entry or a pass designates
\* something of the right kind: a channel that bears the name, a message that
\* shows the view, or what was deleted.
Bears(h, d) == h = None \/ channel[h] \in {d, Gone}
PinOf(m, d) == m = None \/ message[m] = Gone \/ (message[m] # None /\ message[m].view = d)
StoresLink ==
  \A d \in Decls :
    Bears(stored[d], d) /\ PinOf(registry[d], d) /\ PinOf(cached[d], d) /\ PinOf(memory[d], d)
PassLinks(c) ==
  /\ \A d \in Decls : Bears(got[c][d], d)
  /\ pc[c] \in {"edit", "pin", "register"} => PinOf(sent[c], at[c])
MenusLink ==
  \A m \in LiveMessage :
    message[m].channel \in LiveChannel /\ channel[message[m].channel] = message[m].view
Linked == StoresLink /\ (\A c \in Callers : PassLinks(c)) /\ MenusLink

\* Nothing changes its name or its view, and what is deleted stays deleted.
Grown ==
  /\ \A h \in Channels : channel[h] # None => channel'[h] \in {channel[h], Gone}
  /\ \A m \in MessageIds :
       /\ message[m] = Gone => message'[m] = Gone
       /\ message[m] # None
            => message'[m] = Gone \/ (message'[m] # None /\ message'[m].view = message[m].view)
LEMMA SurroundingsGrow ==
  ASSUME SurfacesAssumption, SurfacesTyped, Surroundings \/ Restart
  PROVE  Grown
<1> USE DEF SurfacesTyped, SurfaceGuild
<1>1. ASSUME NEW h \in Channels, DeleteChannel(h) PROVE Grown
  BY <1>1, Apart DEF DeleteChannel, Grown, LiveMessage
<1>2. ASSUME NEW m \in MessageIds, Meddle(m) PROVE Grown
  <2>1. CASE message' = Repinned(m, FALSE)
    <3>1. m \in LiveMessage BY <1>2 DEF Meddle
    <3>2. MenusStay BY <2>1, <3>1, RepinnedIs, RemadeStays
    <3> QED BY <1>2, <3>2 DEF Meddle, Grown, MenusStay, LiveMessage
  <2>2. CASE message' = [message EXCEPT ![m] = Gone]
    BY <1>2, <2>2, Apart DEF Meddle, Grown
  <2> QED BY <1>2, <2>1, <2>2 DEF Meddle
<1>3. ASSUME UNCHANGED <<channel, message>> PROVE Grown BY <1>3 DEF Grown
<1> QED BY <1>1, <1>2, <1>3 DEF Surroundings, CacheExpires, ChangeLanguage, Restart, guild

LEMMA StayGrows ==
  ASSUME SurfacesTyped, UNCHANGED channel, MenusStay \/ UNCHANGED message
  PROVE  Grown
  BY DEF Grown, MenusStay, LiveMessage

LEMMA GrownLinks ==
  ASSUME SurfacesAssumption, Grown, Linked, SurfacesTyped
  PROVE  /\ \A d \in Decls : /\ (stored'[d] = stored[d] => Bears(stored[d], d)')
                            /\ (registry'[d] = registry[d] => PinOf(registry[d], d)')
                            /\ (cached'[d] = cached[d] => PinOf(cached[d], d)')
                            /\ (memory'[d] = memory[d] => PinOf(memory[d], d)')
         /\ \A h \in Channels \cup {None}, d \in Decls :
              Bears(h, d) => h = None \/ channel'[h] \in {d, Gone}
         /\ \A m \in MessageIds \cup {None}, d \in Decls :
              PinOf(m, d) => m = None \/ message'[m] = Gone
                              \/ (message'[m] # None /\ message'[m].view = d)
<1>1. \A h \in Channels \cup {None}, d \in Decls :
       Bears(h, d) => h = None \/ channel'[h] \in {d, Gone}
  BY Apart DEF Bears, Grown
<1>2. \A m \in MessageIds \cup {None}, d \in Decls :
       PinOf(m, d) => m = None \/ message'[m] = Gone
                       \/ (message'[m] # None /\ message'[m].view = d)
  BY Apart DEF PinOf, Grown
<1>3. \A d \in Decls : /\ (stored'[d] = stored[d] => Bears(stored[d], d)')
                      /\ (registry'[d] = registry[d] => PinOf(registry[d], d)')
                      /\ (cached'[d] = cached[d] => PinOf(cached[d], d)')
                      /\ (memory'[d] = memory[d] => PinOf(memory[d], d)')
  <2> TAKE d \in Decls
  <2>1. /\ Bears(stored[d], d) /\ PinOf(registry[d], d) /\ PinOf(cached[d], d)
        /\ PinOf(memory[d], d)
    BY DEF Linked, StoresLink
  <2>2. /\ stored[d] \in Channels \cup {None} /\ registry[d] \in MessageIds \cup {None}
        /\ cached[d] \in MessageIds \cup {None} /\ memory[d] \in MessageIds \cup {None}
    BY DEF SurfacesTyped, SurfaceStores
  <2>3. (stored'[d] = stored[d] => Bears(stored[d], d)') BY <1>1, <2>1, <2>2 DEF Bears
  <2>4. registry'[d] = registry[d] => PinOf(registry[d], d)'
    <3>1. \/ registry[d] = None \/ message'[registry[d]] = Gone
          \/ (message'[registry[d]] # None /\ message'[registry[d]].view = d)
      BY <1>2, <2>1, <2>2
    <3> QED BY <3>1 DEF PinOf
  <2>5. cached'[d] = cached[d] => PinOf(cached[d], d)'
    <3>1. \/ cached[d] = None \/ message'[cached[d]] = Gone
          \/ (message'[cached[d]] # None /\ message'[cached[d]].view = d)
      BY <1>2, <2>1, <2>2
    <3> QED BY <3>1 DEF PinOf
  <2>6. memory'[d] = memory[d] => PinOf(memory[d], d)'
    <3>1. \/ memory[d] = None \/ message'[memory[d]] = Gone
          \/ (message'[memory[d]] # None /\ message'[memory[d]].view = d)
      BY <1>2, <2>1, <2>2
    <3> QED BY <3>1 DEF PinOf
  <2> QED BY <2>3, <2>4, <2>5, <2>6
<1> QED BY <1>1, <1>2, <1>3

LEMMA OthersLink ==
  ASSUME SurfacesAssumption, Grown, Linked, SurfacesTyped, NEW c \in Callers, OtherPasses(c),
         PassLinks(c)'
  PROVE  \A e \in Callers : PassLinks(e)'
<1> SUFFICES ASSUME NEW e \in Callers \ {c} PROVE PassLinks(e)' OBVIOUS
<1>1. /\ pc'[e] = pc[e] /\ got'[e] = got[e] /\ at'[e] = at[e] /\ sent'[e] = sent[e]
  BY DEF OtherPasses
<1>2. /\ \A d \in Decls : got[e][d] \in Channels \cup {None} /\ Bears(got[e][d], d)
      /\ sent[e] \in MessageIds \cup {None}
  BY DEF SurfacesTyped, Passes, Linked, PassLinks
<1>3. \A d \in Decls : Bears(got[e][d], d)' BY <1>1, <1>2, GrownLinks DEF Bears
<1>4. pc[e] \in {"edit", "pin", "register"} => PinOf(sent[e], at[e])'
  <2> HAVE pc[e] \in {"edit", "pin", "register"}
  <2>1. PinOf(sent[e], at[e]) BY DEF Linked, PassLinks
  <2>2. at[e] \in Decls BY DEF SurfacesTyped, Passes, PassShaped, PassFits, Views
  <2>3. \/ sent[e] = None \/ message'[sent[e]] = Gone
        \/ (message'[sent[e]] # None /\ message'[sent[e]].view = at[e])
    BY <1>2, <2>1, <2>2, GrownLinks
  <2> QED BY <1>1, <2>3 DEF PinOf
<1> QED BY <1>1, <1>3, <1>4 DEF PassLinks

LEMMA NothingLinks ==
  ASSUME NEW c \in Callers, got'[c] = Nothing, pc'[c] \notin {"edit", "pin", "register"}
  PROVE  PassLinks(c)'
  BY DEF PassLinks, Bears, Nothing
StoresStay ==
  \A d \in Decls : /\ stored'[d] = stored[d] /\ registry'[d] = registry[d]
                  /\ cached'[d] \in {cached[d], None, registry[d]}
                  /\ memory'[d] \in {memory[d], None}
LEMMA StoresStayLinked ==
  ASSUME SurfacesAssumption, SurfacesTyped, Linked, Grown, StoresStay
  PROVE  StoresLink'
<1> SUFFICES ASSUME NEW d \in Decls
             PROVE  /\ Bears(stored[d], d)' /\ PinOf(registry[d], d)' /\ PinOf(cached[d], d)'
                    /\ PinOf(memory[d], d)'
  BY DEF StoresLink
<1>1. /\ stored'[d] = stored[d] /\ registry'[d] = registry[d]
      /\ cached'[d] \in {cached[d], None, registry[d]} /\ memory'[d] \in {memory[d], None}
  BY DEF StoresStay
<1>2. Bears(stored[d], d)' BY <1>1, GrownLinks
<1>3. PinOf(registry[d], d)' BY <1>1, GrownLinks
<1>4. cached'[d] = cached[d] => PinOf(cached[d], d)' BY GrownLinks
<1>5. cached'[d] = None => PinOf(cached[d], d)' BY DEF PinOf
<1>6. cached'[d] = registry[d] => PinOf(cached[d], d)' BY <1>1, <1>3 DEF PinOf
<1>7. memory'[d] = memory[d] => PinOf(memory[d], d)' BY GrownLinks
<1>8. memory'[d] = None => PinOf(memory[d], d)' BY DEF PinOf
<1> QED BY <1>1, <1>2, <1>3, <1>4, <1>5, <1>6, <1>7, <1>8

LEMMA MenusStayLinked ==
  ASSUME SurfacesTyped, Linked, UNCHANGED channel, MenusStay \/ UNCHANGED message
  PROVE  MenusLink'
<1>1. LiveMessage' = LiveMessage /\ LiveChannel' = LiveChannel
  BY DEF MenusStay, LiveMessage, LiveChannel
<1>2. \A m \in LiveMessage :
       message'[m].channel = message[m].channel /\ message'[m].view = message[m].view
  BY DEF MenusStay
<1> QED BY <1>1, <1>2 DEF Linked, MenusLink

LEMMA SurroundingsLink ==
  ASSUME SurfacesAssumption, SurfacesTyped, Linked, Surroundings \/ Restart
  PROVE  Linked'
<1>1. Grown BY SurroundingsGrow
<1>2. StoresStay
  <2>1. UNCHANGED <<stored, registry>>
    BY DEF Surroundings, DeleteChannel, Meddle, CacheExpires, ChangeLanguage, Restart, stores
  <2>2. \A d \in Decls : cached'[d] \in {cached[d], None}
    BY DEF Surroundings, DeleteChannel, Meddle, CacheExpires, ChangeLanguage, Restart, stores,
           SurfacesTyped, SurfaceStores
  <2>3. \A d \in Decls : memory'[d] \in {memory[d], None}
    BY DEF Surroundings, DeleteChannel, Meddle, CacheExpires, ChangeLanguage, Restart, process,
           Nothing
  <2> QED BY <2>1, <2>2, <2>3 DEF StoresStay
<1>3. StoresLink' BY <1>1, <1>2, StoresStayLinked
<1>4. \A c \in Callers : PassLinks(c)'
  <2> TAKE c \in Callers
  <2>1. CASE Surroundings
    <3>1. UNCHANGED locals
      BY <2>1 DEF Surroundings, DeleteChannel, Meddle, CacheExpires, ChangeLanguage
    <3>2. /\ \A d \in Decls : got[c][d] \in Channels \cup {None} /\ Bears(got[c][d], d)
          /\ sent[c] \in MessageIds \cup {None}
      BY DEF SurfacesTyped, Passes, Linked, PassLinks
    <3>3. \A d \in Decls : Bears(got[c][d], d)' BY <1>1, <3>1, <3>2, GrownLinks DEF Bears, locals
    <3>4. pc[c] \in {"edit", "pin", "register"} => PinOf(sent[c], at[c])'
      <4> HAVE pc[c] \in {"edit", "pin", "register"}
      <4>1. PinOf(sent[c], at[c]) BY DEF Linked, PassLinks
      <4>2. at[c] \in Decls BY DEF SurfacesTyped, Passes, PassShaped, PassFits, Views
      <4>3. \/ sent[c] = None \/ message'[sent[c]] = Gone
            \/ (message'[sent[c]] # None /\ message'[sent[c]].view = at[c])
        BY <1>1, <3>2, <4>1, <4>2, GrownLinks
      <4> QED BY <3>1, <4>3 DEF PinOf, locals
    <3> QED BY <3>1, <3>3, <3>4 DEF PassLinks, locals
  <2>2. CASE Restart
    <3>1. got'[c] = Nothing /\ pc'[c] = "idle" BY <2>2 DEF Restart
    <3> QED BY <3>1, NothingLinks
  <2> QED BY <2>1, <2>2
<1>5. MenusLink'
  <2>1. ASSUME NEW h \in Channels, DeleteChannel(h) PROVE MenusLink'
    <3>1. \A m \in LiveMessage' :
           m \in LiveMessage /\ message'[m] = message[m] /\ message[m].channel # h
      BY <2>1, Apart DEF DeleteChannel, LiveMessage
    <3>2. \A i \in LiveChannel : i # h => i \in LiveChannel' /\ channel'[i] = channel[i]
      BY <2>1 DEF DeleteChannel, LiveChannel, SurfacesTyped, SurfaceGuild
    <3> QED BY <3>1, <3>2 DEF MenusLink, Linked
  <2>2. ASSUME NEW m \in MessageIds, Meddle(m) PROVE MenusLink'
    <3>1. CASE message' = Repinned(m, FALSE)
      <4>1. MenusStay
        BY <2>2, <3>1, RepinnedIs, RemadeStays DEF Meddle, SurfacesTyped, SurfaceGuild
      <4> QED BY <2>2, <4>1, MenusStayLinked DEF Meddle
    <3>2. CASE message' = [message EXCEPT ![m] = Gone]
      <4>1. \A n \in LiveMessage' : n \in LiveMessage /\ message'[n] = message[n]
        BY <3>2, Apart DEF LiveMessage, SurfacesTyped, SurfaceGuild
      <4>2. UNCHANGED channel /\ LiveChannel' = LiveChannel BY <2>2 DEF Meddle, LiveChannel
      <4> QED BY <4>1, <4>2 DEF MenusLink, Linked
    <3> QED BY <2>2, <3>1, <3>2 DEF Meddle
  <2>3. ASSUME UNCHANGED <<channel, message>> PROVE MenusLink' BY <2>3, MenusStayLinked
  <2> QED BY <2>1, <2>2, <2>3 DEF Surroundings, CacheExpires, ChangeLanguage, Restart, guild
<1> QED BY <1>3, <1>4, <1>5 DEF Linked
LEMMA BuildingLinks ==
  ASSUME SurfacesAssumption, SurfacesTyped, Linked, NEW c \in Callers,
         Sync(c) \/ BootPass(c) \/ Resolve(c) \/ Create(c) \/ Refused(c) \/ Persist(c)
  PROVE  Linked'
<1>0. Passes BY DEF SurfacesTyped
<1>1. ASSUME UNCHANGED <<guild, stores, memory>>, OtherPasses(c), PassLinks(c)' PROVE Linked'
  <2>1. UNCHANGED <<channel, message>> BY <1>1 DEF guild
  <2>2. Grown BY <2>1, StayGrows
  <2>3. StoresStay BY <1>1 DEF StoresStay, stores
  <2> QED BY <1>1, <2>1, <2>2, <2>3, StoresStayLinked, MenusStayLinked, OthersLink DEF Linked
<1>2. CASE Sync(c) \/ BootPass(c)
  <2>1. OtherPasses(c) /\ got'[c] = Nothing /\ pc'[c] \in {"tree", "pins"}
    BY <1>0, <1>2, BeginTurns, OnePass
  <2>2. UNCHANGED <<guild, stores, memory>> BY <1>2 DEF Sync, BootPass, process
  <2> QED BY <1>1, <2>1, <2>2, NothingLinks
<1>3. CASE Resolve(c)
  <2>1. UNCHANGED <<guild, stores, memory>> BY <1>3 DEF Resolve, process
  <2>2. PICK d \in todo[c] :
           /\ Turn(c, d)
           /\ \/ \E h \in Found(d) : Turned(c, "tree", todo[c] \ {d}, [got[c] EXCEPT ![d] = h],
                                            None, built[c], sent[c])
              \/ Found(d) = {} /\ Turned(c, "create", todo[c] \ {d}, got[c], d, built[c], sent[c])
    BY <1>3, ResolveTurns
  <2>3. /\ OtherPasses(c) /\ pc'[c] \in {"tree", "create"}
        /\ got'[c] = got[c] \/ \E h \in Found(d) : got'[c] = [got[c] EXCEPT ![d] = h]
    <3>1. ASSUME NEW h \in Found(d),
                 Turned(c, "tree", todo[c] \ {d}, [got[c] EXCEPT ![d] = h], None, built[c], sent[c])
          PROVE  OtherPasses(c) /\ pc'[c] = "tree" /\ got'[c] = [got[c] EXCEPT ![d] = h]
      BY <1>0, <3>1, OnePass
    <3>2. ASSUME Turned(c, "create", todo[c] \ {d}, got[c], d, built[c], sent[c])
          PROVE  OtherPasses(c) /\ pc'[c] = "create" /\ got'[c] = got[c]
      BY <1>0, <3>2, OnePass
    <3> QED BY <2>2, <3>1, <3>2
  <2>4. got[c] \in [Decls -> Channels \cup {None}] /\ \A e \in Decls : Bears(got[c][e], e)
    BY PassHas, <1>0 DEF Linked, PassLinks
  <2>5. d \in Decls BY <2>2 DEF SurfacesTyped, Passes
  <2>6. \A h \in Found(d) : Bears(h, d)
    BY <2>5 DEF Found, Linked, StoresLink, Bears, LiveChannel
  <2>7. \A e \in Decls : Bears(got[c][e], e)'
    BY <2>1, <2>3, <2>4, <2>6 DEF Bears, guild
  <2>8. PassLinks(c)' BY <2>3, <2>7 DEF PassLinks
  <2> QED BY <1>1, <2>1, <2>3, <2>8
<1>4. CASE Create(c)
  <2>1. PICK h \in Channels :
           /\ channel[h] = None /\ channel' = [channel EXCEPT ![h] = at[c]]
           /\ at[c] \in Decls /\ at[c] \notin todo[c] /\ got[c][at[c]] = None
           /\ Turned(c, "tree", todo[c], [got[c] EXCEPT ![at[c]] = h], None, None, None)
    BY <1>4, CreateTurns
  <2>2. OtherPasses(c) /\ pc'[c] = "tree" /\ got'[c] = [got[c] EXCEPT ![at[c]] = h]
    BY <1>0, <2>1, OnePass
  <2>3. UNCHANGED <<message, stores, memory>> BY <1>4 DEF Create, process
  <2>4. channel'[h] = at[c] /\ \A i \in Channels \ {h} : channel'[i] = channel[i]
    BY <2>1 DEF SurfacesTyped, SurfaceGuild
  <2>5. Grown BY <2>1, <2>3, <2>4 DEF Grown
  <2>6. StoresLink' BY <2>3, <2>5, StoresStayLinked DEF StoresStay, stores
  <2>7. \A e \in Decls : got[c][e] \in Channels \cup {None} /\ Bears(got[c][e], e)
    BY PassHas, <1>0 DEF Linked, PassLinks
  <2>8. \A e \in Decls : e # at[c] => got'[c][e] = got[c][e] BY <2>2, PassHas, <1>0
  <2>9. \A e \in Decls : e # at[c] => Bears(got[c][e], e)'
    BY <2>5, <2>7, <2>8, GrownLinks DEF Bears
  <2>10. got'[c][at[c]] = h BY <2>1, <2>2, PassHas, <1>0
  <2>11. \A e \in Decls : Bears(got[c][e], e)' BY <2>4, <2>9, <2>10 DEF Bears
  <2>12. PassLinks(c)' BY <2>2, <2>11 DEF PassLinks
  <2>13. MenusLink'
    <3>1. LiveMessage' = LiveMessage BY <2>3 DEF LiveMessage
    <3>2. \A i \in LiveChannel : i \in LiveChannel' /\ channel'[i] = channel[i]
      BY <2>1, <2>4, Apart DEF LiveChannel
    <3> QED BY <2>3, <3>1, <3>2 DEF MenusLink, Linked
  <2> QED BY <2>2, <2>5, <2>6, <2>12, <2>13, OthersLink DEF Linked
<1>5. CASE Refused(c)
  <2>1. PICK G \in {Nothing, got[c]} : OtherPasses(c) /\ pc'[c] \in {"idle", "tree"} /\ got'[c] = G
    BY <1>0, <1>5, RefusedTurns, OnePass
  <2>2. UNCHANGED <<guild, stores, memory>> BY <1>5 DEF Refused, process
  <2>3. \A e \in Decls : Bears(got[c][e], e) BY DEF Linked, PassLinks
  <2>4. \A e \in Decls : Bears(got[c][e], e)' BY <2>1, <2>2, <2>3 DEF Bears, Nothing, guild
  <2>5. PassLinks(c)' BY <2>1, <2>4 DEF PassLinks
  <2> QED BY <1>1, <2>1, <2>2, <2>5
<1>6. CASE Persist(c)
  <2>1. OtherPasses(c) /\ got'[c] = Nothing /\ pc'[c] = "pins" BY <1>0, <1>6, PersistTurns, OnePass
  <2>2. UNCHANGED <<channel, message, registry, cached, memory>> BY <1>6 DEF Persist, process, guild
  <2>3. Grown BY <2>2, StayGrows
  <2>4. PICK S \in SUBSET Decls : stored' = Persisted(c, S) BY <1>6 DEF Persist
  <2>5. \A d \in Decls : Bears(stored[d], d)'
    BY <2>2, <2>4 DEF Persisted, Linked, StoresLink, PassLinks, Bears
  <2>6. \A d \in Decls : PinOf(registry[d], d)' /\ PinOf(cached[d], d)' /\ PinOf(memory[d], d)'
    BY <2>2, <2>3, GrownLinks
  <2>7. StoresLink' BY <2>5, <2>6 DEF StoresLink
  <2> QED BY <2>1, <2>2, <2>3, <2>7, NothingLinks, MenusStayLinked, OthersLink DEF Linked
<1> QED BY <1>2, <1>3, <1>4, <1>5, <1>6
LEMMA PinningLinks ==
  ASSUME SurfacesAssumption, SurfacesTyped, Linked, NEW c \in Callers,
         \/ Open(c) \/ Edit(c) \/ EditFails(c) \/ Send(c) \/ Pin(c) \/ GivenUp(c) \/ Register(c)
         \/ Finish(c)
  PROVE  Linked'
<1>0. /\ Passes /\ SurfaceGuild /\ message \in [MessageIds -> {None, Gone} \cup Menus]
      /\ PassLinks(c)
  BY DEF SurfacesTyped, SurfaceGuild, Linked
<1>1. ASSUME UNCHANGED channel, MenusStay \/ UNCHANGED message, StoresStay, OtherPasses(c),
             PassLinks(c)'
      PROVE  Linked'
  <2>1. Grown BY <1>1, StayGrows
  <2> QED BY <1>1, <2>1, StoresStayLinked, MenusStayLinked, OthersLink DEF Linked
<1>2. CASE Open(c)
  <2>1. PICK d \in todo[c] :
          /\ d \in Views /\ cached' = [cached EXCEPT ![d] = IF @ # None THEN @ ELSE registry[d]]
          /\ LeftOut(c, d) \/ Repins(c, d) \/ Edits(c, d) \/ Sends(c, d)
    BY <1>0, <1>2, OpenTurns
  <2>2. UNCHANGED <<channel, stored, registry, memory>> BY <1>2 DEF Open, process
  <2>3. StoresStay BY <2>1, <2>2 DEF StoresStay, SurfacesTyped, SurfaceStores
  <2>4. ASSUME LeftOut(c, d) \/ Repins(c, d) \/ Sends(c, d)
        PROVE  OtherPasses(c) /\ PassLinks(c)'
    <3>1. OtherPasses(c) /\ got'[c] = Nothing /\ pc'[c] \in {"pins", "send"}
      BY <1>0, <2>4, OnePass DEF LeftOut, Repins, Sends
    <3> QED BY <3>1, NothingLinks
  <2>5. CASE LeftOut(c, d) \/ Sends(c, d) BY <1>1, <2>2, <2>3, <2>4, <2>5 DEF LeftOut, Sends
  <2>6. CASE Repins(c, d)
    <3>1. PICK m \in Fetched(d) : message' = Repinned(m, TRUE) BY <2>6 DEF Repins
    <3>2. MenusStay BY <1>0, <3>1, RepinnedIs, RemadeStays DEF Fetched
    <3> QED BY <1>1, <2>2, <2>3, <2>4, <2>6, <3>2
  <2>7. CASE Edits(c, d)
    <3>1. PICK m \in Fetched(d) : Turned(c, "edit", todo[c] \ {d}, Nothing, d, language, m)
      BY <2>7 DEF Edits
    <3>2. /\ OtherPasses(c) /\ pc'[c] = "edit" /\ got'[c] = Nothing /\ at'[c] = d /\ sent'[c] = m
          /\ UNCHANGED message
      BY <1>0, <2>7, <3>1, OnePass DEF Edits
    <3>3. m \in LiveMessage /\ m = Known(d) BY DEF Fetched
    <3>4. PinOf(m, d)
      BY <2>1, <3>3 DEF Known, Linked, StoresLink, PinOf, LiveMessage, SurfacesTyped, SurfaceStores,
                        Views
    <3>5. PinOf(sent[c], at[c])' BY <3>2, <3>4 DEF PinOf
    <3>6. \A e \in Decls : Bears(got[c][e], e)' BY <3>2 DEF Bears, Nothing
    <3>7. PassLinks(c)' BY <3>5, <3>6 DEF PassLinks
    <3> QED BY <1>1, <2>2, <2>3, <3>2, <3>7
  <2> QED BY <2>1, <2>5, <2>6, <2>7
<1>3. CASE Edit(c)
  <2>1. OtherPasses(c) /\ got'[c] = Nothing /\ pc'[c] = "pins" BY <1>0, <1>3, EditTurns, OnePass
  <2>2. built[c] \in Languages BY <1>0, <1>3, PassHas DEF Edit, PassFits
  <2>3. MenusStay BY <1>0, <1>3, <2>2, EditIs, RemadeStays DEF Edit
  <2>4. UNCHANGED channel /\ StoresStay BY <1>3 DEF Edit, stores, StoresStay
  <2> QED BY <1>1, <2>1, <2>3, <2>4, NothingLinks
<1>4. CASE EditFails(c)
  <2>1. OtherPasses(c) /\ got'[c] = Nothing /\ pc'[c] = "send"
    BY <1>0, <1>4, EditFailsTurns, OnePass
  <2>2. UNCHANGED channel /\ UNCHANGED message /\ StoresStay
    BY <1>4 DEF EditFails, guild, stores, process, StoresStay
  <2> QED BY <1>1, <2>1, <2>2, NothingLinks
<1>5. CASE Send(c)
  <2> DEFINE r == [channel |-> stored[at[c]], view |-> at[c], language |-> built[c],
                   pinned |-> FALSE]
  <2>1. PICK m \in MessageIds :
              /\ message[m] = None /\ message' = [message EXCEPT ![m] = r]
              /\ Turned(c, "pin", todo[c], Nothing, at[c], built[c], m)
    BY <1>0, <1>5, SendTurns
  <2>2. /\ OtherPasses(c) /\ pc'[c] = "pin" /\ got'[c] = Nothing /\ at'[c] = at[c] /\ sent'[c] = m
    BY <1>0, <2>1, OnePass
  <2>3. /\ stored[at[c]] \in LiveChannel /\ at[c] \in Views /\ built[c] \in Languages
        /\ UNCHANGED <<channel, stores, memory>>
    BY <1>0, <1>5, SendTurns DEF Send, process
  <2>4. r \in Menus /\ r.channel = stored[at[c]] /\ r.view = at[c]
    BY <2>3 DEF Menus, LiveChannel
  <2>5. r \notin {None, Gone} BY <2>4, Apart
  <2> HIDE DEF r
  <2>6. message'[m] = r /\ \A n \in MessageIds \ {m} : message'[n] = message[n]
    BY <1>0, <2>1
  <2>7. Grown BY <2>1, <2>3, <2>6, Apart DEF Grown
  <2>8. StoresLink' BY <2>3, <2>7, StoresStayLinked DEF StoresStay, stores
  <2>9. channel[stored[at[c]]] = at[c]
    BY <2>3, Apart DEF Linked, StoresLink, Bears, LiveChannel, Views
  <2>10. MenusLink'
    <3>1. LiveChannel' = LiveChannel BY <2>3 DEF LiveChannel
    <3>2. \A n \in LiveMessage' : n # m => n \in LiveMessage /\ message'[n] = message[n]
      BY <2>6 DEF LiveMessage
    <3>3. message'[m].channel \in LiveChannel' /\ channel'[message'[m].channel] = message'[m].view
      BY <2>3, <2>4, <2>6, <2>9, <3>1
    <3>4. \A n \in LiveMessage : message[n].channel \in LiveChannel
                               /\ channel[message[n].channel] = message[n].view
      BY DEF Linked, MenusLink
    <3> QED BY <2>3, <3>1, <3>2, <3>3, <3>4 DEF MenusLink
  <2>11. PinOf(sent[c], at[c])' BY <2>2, <2>4, <2>5, <2>6 DEF PinOf
  <2>12. PassLinks(c)' BY <2>2, <2>11 DEF PassLinks, Bears, Nothing
  <2> QED BY <2>2, <2>7, <2>8, <2>10, <2>12, OthersLink DEF Linked
<1>6. CASE Pin(c)
  <2>1. /\ OtherPasses(c) /\ pc'[c] = "register" /\ got'[c] = Nothing /\ at'[c] = at[c]
        /\ sent'[c] = sent[c] /\ sent[c] \in LiveMessage /\ pc[c] = "pin"
    BY <1>0, <1>6, PinTurns, OnePass
  <2>2. MenusStay BY <1>0, <1>6, RepinnedIs, RemadeStays DEF Pin
  <2>3. UNCHANGED channel /\ StoresStay BY <1>6 DEF Pin, stores, process, StoresStay
  <2>4. PinOf(sent[c], at[c]) BY <1>0, <2>1 DEF PassLinks
  <2>5. PinOf(sent[c], at[c])'
    <3>1. sent[c] \in MessageIds /\ message[sent[c]] \notin {None, Gone} BY <2>1 DEF LiveMessage
    <3>2. message[sent[c]].view = at[c] BY <2>4, <3>1, Apart DEF PinOf
    <3>3. message'[sent[c]] # None /\ message'[sent[c]].view = at[c]
      BY <2>1, <2>2, <3>1, <3>2 DEF MenusStay
    <3> QED BY <2>1, <3>3 DEF PinOf
  <2>6. PassLinks(c)' BY <2>1, <2>5 DEF PassLinks, Bears, Nothing
  <2> QED BY <1>1, <2>1, <2>2, <2>3, <2>6
<1>7. CASE GivenUp(c)
  <2>1. OtherPasses(c) /\ got'[c] = Nothing /\ pc'[c] = "pins" BY <1>0, <1>7, EditTurns, OnePass
  <2>2. UNCHANGED channel /\ UNCHANGED message /\ StoresStay
    BY <1>7 DEF GivenUp, guild, stores, process, StoresStay
  <2> QED BY <1>1, <2>1, <2>2, NothingLinks
<1>8. CASE Register(c)
  <2>1. OtherPasses(c) /\ got'[c] = Nothing /\ pc'[c] = "pins" BY <1>0, <1>8, EditTurns, OnePass
  <2>2. UNCHANGED <<channel, message, stored>> /\ pc[c] = "register" BY <1>8 DEF Register, guild
  <2>3. PinOf(sent[c], at[c]) /\ at[c] \in Decls /\ sent[c] \in MessageIds
    BY <1>0, <2>2, PassHas DEF PassLinks, PassFits, Views
  <2>4. \A d \in Decls : /\ (memory'[d] = memory[d] \/ (d = at[c] /\ memory'[d] = sent[c]))
                        /\ (registry'[d] = registry[d] \/ (d = at[c] /\ registry'[d] = sent[c]))
                        /\ (cached'[d] = cached[d] \/ (d = at[c] /\ cached'[d] = sent[c]))
    BY <1>8, <2>3 DEF Register, Cached, SurfacesTyped, SurfaceStores
  <2>5. \A d \in Decls : /\ Bears(stored[d], d) /\ PinOf(registry[d], d) /\ PinOf(cached[d], d)
                        /\ PinOf(memory[d], d)
    BY DEF Linked, StoresLink
  <2>6. StoresLink'
    <3>1. \A d \in Decls : Bears(stored[d], d)' BY <2>2, <2>5 DEF Bears
    <3>2. \A d \in Decls : PinOf(memory[d], d)' BY <2>2, <2>3, <2>4, <2>5 DEF PinOf
    <3>3. \A d \in Decls : PinOf(registry[d], d)' BY <2>2, <2>3, <2>4, <2>5 DEF PinOf
    <3>4. \A d \in Decls : PinOf(cached[d], d)' BY <2>2, <2>3, <2>4, <2>5 DEF PinOf
    <3> QED BY <3>1, <3>2, <3>3, <3>4 DEF StoresLink
  <2>7. Grown BY <2>2, StayGrows
  <2> QED BY <2>1, <2>2, <2>6, <2>7, MenusStayLinked, NothingLinks, OthersLink DEF Linked
<1>9. CASE Finish(c)
  <2>1. OtherPasses(c) /\ got'[c] = Nothing /\ pc'[c] = "idle" BY <1>0, <1>9, FinishTurns, OnePass
  <2>2. UNCHANGED channel /\ UNCHANGED message /\ StoresStay
    BY <1>9 DEF Finish, guild, stores, process, StoresStay
  <2> QED BY <1>1, <2>1, <2>2, NothingLinks
<1> QED BY <1>2, <1>3, <1>4, <1>5, <1>6, <1>7, <1>8, <1>9
LEMMA LinkedInit == ASSUME SurfacesInit PROVE Linked
<1>1. /\ stored = Nothing /\ registry = Nothing /\ cached = Nothing /\ memory = Nothing
      /\ message = [m \in MessageIds |-> None] /\ got = [c \in Callers |-> Nothing]
      /\ pc = [c \in Callers |-> "idle"]
  BY DEF SurfacesInit
<1>2. StoresLink BY <1>1 DEF StoresLink, Bears, PinOf, Nothing
<1>3. \A c \in Callers : PassLinks(c) BY <1>1 DEF PassLinks, Bears, Nothing
<1>4. MenusLink BY <1>1 DEF MenusLink, LiveMessage
<1> QED BY <1>2, <1>3, <1>4 DEF Linked

LEMMA LinkedStep ==
  ASSUME SurfacesAssumption, SurfacesTyped, Linked, [SurfacesNext]_surfaceVars
  PROVE  Linked'
<1>1. CASE UNCHANGED surfaceVars
  BY <1>1 DEF surfaceVars, guild, stores, process, locals, Linked, StoresLink, PassLinks, MenusLink,
         Bears, PinOf, LiveMessage, LiveChannel
<1>2. CASE SurfacesNext
  BY <1>2, BuildingLinks, PinningLinks, SurroundingsLink DEF SurfacesNext, Surroundings
<1> QED BY <1>1, <1>2

-----------------------------------------------------------------------------
\* While nothing was disturbed, or nothing overlapped, one pass runs at a time.
Only(c) == \A e \in Callers \ {c} : pc[e] = "idle"
SoloPass == settled \/ ~spoilt => \A c, d \in Busy : c = d

\* Then the invariants speak of that pass.  After an undisturbed sync the
\* channels it has been through live, and once it turns to the pins every
\* channel does, and every menu is pinned or still to be ensured.
Placed(d) == stored[d] \in LiveChannel
Pinned(d) == \E m \in Fetched(d) : message[m].pinned
PassSettles(c) ==
  /\ pc[c] \in {"tree", "create"} =>
       \A d \in Decls \ todo[c] : at[c] = d \/ got[c][d] \in LiveChannel
  /\ pc[c] = "edit" => sent[c] \in Fetched(at[c])
  /\ pc[c] \in {"pin", "register"} =>
       /\ sent[c] \in LiveMessage /\ message[sent[c]].channel = stored[at[c]]
       /\ message[sent[c]].view = at[c]
  /\ pc[c] = "register" => message[sent[c]].pinned
Settling ==
  settled =>
    /\ \A c \in Callers : PassSettles(c)
    /\ (\A c \in Callers : pc[c] \notin {"tree", "create"}) =>
         /\ \A d \in Decls : Placed(d)
         /\ \A d \in Views : Pinned(d) \/ \E c \in Callers : d \in todo[c] \/ at[c] = d
SettlesAlone(c) ==
  /\ PassSettles(c)
  /\ pc[c] \notin {"tree", "create"} =>
       /\ \A d \in Decls : Placed(d)
       /\ \A d \in Views : Pinned(d) \/ d \in todo[c] \/ at[c] = d

\* As long as no call failed or was cut off, every channel and every menu that
\* lives is the one on record, or in the hand of the pass that will record it.
StoresAgree ==
  \A d \in Decls : cached[d] \in {None, registry[d]} /\ memory[d] \in {None, registry[d]}
PassOwns(c) ==
  /\ \A d \in Decls : got[c][d] # None /\ stored[d] \in LiveChannel => got[c][d] = stored[d]
  /\ pc[c] = "create" => \A h \in LiveChannel : channel[h] # at[c]
  /\ pc[c] = "edit" => sent[c] = registry[at[c]]
  /\ pc[c] = "send" => \A m \in LiveMessage : message[m].view # at[c]
  /\ pc[c] \in {"pin", "register"} =>
       \A m \in LiveMessage : message[m].view = at[c] => m = sent[c]
Owned ==
  ~ spoilt =>
    /\ StoresAgree /\ \A c \in Callers : PassOwns(c)
    /\ \A h \in LiveChannel :
         h = stored[channel[h]] \/ \E c \in Callers : h = got[c][channel[h]]
    /\ \A m \in LiveMessage :
         \/ m = registry[message[m].view]
         \/ \E c \in Callers :
              pc[c] \in {"pin", "register"} /\ sent[c] = m /\ at[c] = message[m].view
OwnsAlone(c) ==
  /\ StoresAgree /\ PassOwns(c)
  /\ \A h \in LiveChannel : h = stored[channel[h]] \/ h = got[c][channel[h]]
  /\ \A m \in LiveMessage :
       \/ m = registry[message[m].view]
       \/ pc[c] \in {"pin", "register"} /\ sent[c] = m /\ at[c] = message[m].view

\* Seen by the one pass that runs, before and after its step.
LEMMA IdleRests ==
  ASSUME SurfacesTyped, NEW e \in Callers, pc[e] = "idle"
  PROVE  todo[e] = {} /\ got[e] = Nothing /\ at[e] = None
  BY DEF SurfacesTyped, Passes, PassShaped, PassFits
LEMMA IdleRested ==
  ASSUME SurfacesTyped', NEW e \in Callers, pc'[e] = "idle"
  PROVE  todo'[e] = {} /\ got'[e] = Nothing /\ at'[e] = None
  BY DEF SurfacesTyped, Passes, PassShaped, PassFits
LEMMA AloneBefore ==
  ASSUME SurfacesAssumption, SurfacesTyped, NEW c \in Callers, Only(c)
  PROVE  /\ Settling /\ settled => SettlesAlone(c)
         /\ Owned /\ ~ spoilt => OwnsAlone(c)
<1>1. \A e \in Callers \ {c} : pc[e] = "idle" /\ todo[e] = {} /\ got[e] = Nothing /\ at[e] = None
  BY IdleRests DEF Only
<1>2. Settling /\ settled => SettlesAlone(c)
  <2> HAVE Settling /\ settled
  <2>1. pc[c] \notin {"tree", "create"} => \A e \in Callers : pc[e] \notin {"tree", "create"}
    BY <1>1
  <2>2. \A d \in Views :
         (\E e \in Callers : d \in todo[e] \/ at[e] = d) => d \in todo[c] \/ at[c] = d
    BY <1>1, Apart DEF Views
  <2> QED BY <2>1, <2>2 DEF Settling, SettlesAlone
<1>3. Owned /\ ~ spoilt => OwnsAlone(c)
  <2> HAVE Owned /\ ~ spoilt
  <2>1. \A h \in LiveChannel : channel[h] \in Decls /\ h # None BY Apart DEF LiveChannel
  <2>2. \A h \in LiveChannel, e \in Callers : h = got[e][channel[h]] => e = c
    BY <1>1, <2>1 DEF Nothing
  <2> QED BY <1>1, <2>2 DEF Owned, OwnsAlone
<1> QED BY <1>2, <1>3

LEMMA AloneAfter ==
  ASSUME SurfacesAssumption, SurfacesTyped', NEW c \in Callers, Only(c)'
  PROVE  /\ SoloPass'
         /\ SettlesAlone(c)' => Settling'
         /\ OwnsAlone(c)' => Owned'
<1>1. \A e \in Callers \ {c} :
       pc'[e] = "idle" /\ todo'[e] = {} /\ got'[e] = Nothing /\ at'[e] = None
  BY IdleRested DEF Only
<1>2. SoloPass' BY <1>1 DEF SoloPass, Busy
<1>3. SettlesAlone(c)' => Settling'
  <2> HAVE SettlesAlone(c)'
  <2>1. \A e \in Callers \ {c} : PassSettles(e)' BY <1>1 DEF PassSettles
  <2> QED BY <2>1 DEF Settling, SettlesAlone
<1>4. OwnsAlone(c)' => Owned'
  <2> HAVE OwnsAlone(c)'
  <2>1. \A e \in Callers \ {c} : PassOwns(e)' BY <1>1 DEF PassOwns, Nothing
  <2> QED BY <2>1 DEF Owned, OwnsAlone
<1> QED BY <1>2, <1>3, <1>4
\* What the step of a pass that runs alone must keep.
Keeps(c) ==
  /\ settled' /\ SettlesAlone(c) => SettlesAlone(c)'
  /\ ~ spoilt' /\ OwnsAlone(c) => OwnsAlone(c)'
LEMMA ResolveKeeps ==
  ASSUME SurfacesAssumption, SurfacesTyped, Linked, NEW c \in Callers, Resolve(c)
  PROVE  Keeps(c)
<1>0. Passes BY DEF SurfacesTyped
<1>1. UNCHANGED <<channel, message, stored, registry, cached, memory>>
  BY DEF Resolve, guild, stores, process
<1>2. LiveChannel' = LiveChannel /\ LiveMessage' = LiveMessage BY <1>1 DEF LiveChannel, LiveMessage
<1>3. PICK d \in todo[c] :
           /\ Turn(c, d)
           /\ \/ \E h \in Found(d) : Turned(c, "tree", todo[c] \ {d}, [got[c] EXCEPT ![d] = h],
                                            None, built[c], sent[c])
              \/ Found(d) = {} /\ Turned(c, "create", todo[c] \ {d}, got[c], d, built[c], sent[c])
  BY ResolveTurns
<1>4. /\ pc[c] = "tree" /\ at[c] = None /\ d \in Decls /\ got[c][d] = None
      /\ got[c] \in [Decls -> Channels \cup {None}]
  BY <1>0, <1>3, PassHas DEF Turn, PassFits
<1>5. \A e \in Decls : e # None BY Apart
<1>6. ASSUME NEW h \in Found(d),
             Turned(c, "tree", todo[c] \ {d}, [got[c] EXCEPT ![d] = h], None, built[c], sent[c])
      PROVE  Keeps(c)
  <2>1. /\ pc'[c] = "tree" /\ todo'[c] = todo[c] \ {d} /\ at'[c] = None
        /\ got'[c] = [got[c] EXCEPT ![d] = h]
    BY <1>0, <1>6, OnePass
  <2>2. h \in LiveChannel /\ (stored[d] \in LiveChannel => h = stored[d]) BY DEF Found
  <2>3. got'[c][d] = h /\ \A e \in Decls \ {d} : got'[c][e] = got[c][e] BY <1>4, <2>1
  <2>4. SettlesAlone(c) => SettlesAlone(c)'
    <3> HAVE SettlesAlone(c)
    <3>1. \A e \in Decls \ todo[c] : got[c][e] \in LiveChannel
      BY <1>4, <1>5 DEF SettlesAlone, PassSettles
    <3>2. \A e \in Decls \ todo'[c] : got'[c][e] \in LiveChannel'
      BY <1>2, <2>1, <2>2, <2>3, <3>1
    <3> QED BY <2>1, <3>2 DEF SettlesAlone, PassSettles
  <2>5. OwnsAlone(c) => OwnsAlone(c)'
    <3> HAVE OwnsAlone(c)
    <3>1. StoresAgree' BY <1>1 DEF OwnsAlone, StoresAgree
    <3>2. \A e \in Decls : got[c][e] # None /\ stored[e] \in LiveChannel => got[c][e] = stored[e]
      BY DEF OwnsAlone, PassOwns
    <3>3. \A e \in Decls :
           got'[c][e] # None /\ stored'[e] \in LiveChannel' => got'[c][e] = stored'[e]
      BY <1>1, <1>2, <2>2, <2>3, <3>2
    <3>4. PassOwns(c)' BY <2>1, <3>3 DEF PassOwns
    <3>5. \A i \in LiveChannel : channel[i] \in Decls /\ i # None BY Apart DEF LiveChannel
    <3>6. \A i \in LiveChannel : i = stored[channel[i]] \/ i = got'[c][channel[i]]
      BY <1>4, <2>3, <3>5 DEF OwnsAlone
    <3>7. \A m \in LiveMessage : m = registry[message[m].view] BY <1>4 DEF OwnsAlone
    <3> QED BY <1>1, <1>2, <3>1, <3>4, <3>6, <3>7 DEF OwnsAlone
  <2> QED BY <2>4, <2>5 DEF Keeps
<1>7. ASSUME Found(d) = {}, Turned(c, "create", todo[c] \ {d}, got[c], d, built[c], sent[c])
      PROVE  Keeps(c)
  <2>1. /\ pc'[c] = "create" /\ todo'[c] = todo[c] \ {d} /\ at'[c] = d /\ got'[c] = got[c]
    BY <1>0, <1>7, OnePass
  <2>2. SettlesAlone(c) => SettlesAlone(c)'
    BY <1>2, <1>4, <1>5, <2>1 DEF SettlesAlone, PassSettles
  <2>3. OwnsAlone(c) => OwnsAlone(c)'
    <3> HAVE OwnsAlone(c)
    <3>1. StoresAgree' BY <1>1 DEF OwnsAlone, StoresAgree
    <3>2. \A i \in LiveChannel : i = stored[channel[i]] \/ i = got[c][channel[i]] BY DEF OwnsAlone
    <3>3. \A i \in LiveChannel : channel[i] # d
      <4> SUFFICES ASSUME NEW i \in LiveChannel, channel[i] = d PROVE FALSE OBVIOUS
      <4>1. i = stored[d] BY <1>4, <3>2, Apart DEF LiveChannel
      <4> QED BY <1>7, <4>1 DEF Found
    <3>4. PassOwns(c)' BY <1>1, <1>2, <2>1, <3>3 DEF OwnsAlone, PassOwns
    <3>5. \A m \in LiveMessage : m = registry[message[m].view] BY <1>4 DEF OwnsAlone
    <3> QED BY <1>1, <1>2, <2>1, <3>1, <3>2, <3>4, <3>5 DEF OwnsAlone
  <2> QED BY <2>2, <2>3 DEF Keeps
<1> QED BY <1>3, <1>6, <1>7

LEMMA CreateKeeps ==
  ASSUME SurfacesAssumption, SurfacesTyped, Linked, NEW c \in Callers, Create(c)
  PROVE  Keeps(c)
<1>0. Passes BY DEF SurfacesTyped
<1>1. UNCHANGED <<message, stored, registry, cached, memory>> /\ LiveMessage' = LiveMessage
  BY DEF Create, stores, process, LiveMessage
<1>2. PICK h \in Channels :
           /\ channel[h] = None /\ channel' = [channel EXCEPT ![h] = at[c]]
           /\ at[c] \in Decls /\ at[c] \notin todo[c] /\ got[c][at[c]] = None
           /\ Turned(c, "tree", todo[c], [got[c] EXCEPT ![at[c]] = h], None, None, None)
  BY CreateTurns
<1>3. /\ pc'[c] = "tree" /\ todo'[c] = todo[c] /\ at'[c] = None
      /\ got'[c] = [got[c] EXCEPT ![at[c]] = h] /\ pc[c] = "create"
      /\ got[c] \in [Decls -> Channels \cup {None}]
  BY <1>0, <1>2, OnePass, PassHas DEF Create
<1>4. got'[c][at[c]] = h /\ \A e \in Decls \ {at[c]} : got'[c][e] = got[c][e] BY <1>2, <1>3
<1>5. channel'[h] = at[c] /\ \A i \in Channels \ {h} : channel'[i] = channel[i]
  BY <1>2 DEF SurfacesTyped, SurfaceGuild
<1>6. LiveChannel' = LiveChannel \cup {h} /\ h \notin LiveChannel
  BY <1>2, <1>5, Apart DEF LiveChannel
<1>7. SettlesAlone(c) => SettlesAlone(c)'
  <2> HAVE SettlesAlone(c)
  <2>1. \A e \in Decls \ todo[c] : at[c] = e \/ got[c][e] \in LiveChannel
    BY <1>3 DEF SettlesAlone, PassSettles
  <2>2. \A e \in Decls \ todo'[c] : got'[c][e] \in LiveChannel' BY <1>3, <1>4, <1>6, <2>1
  <2> QED BY <1>3, <2>2 DEF SettlesAlone, PassSettles
<1>8. OwnsAlone(c) => OwnsAlone(c)'
  <2> HAVE OwnsAlone(c)
  <2>1. StoresAgree' BY <1>1 DEF OwnsAlone, StoresAgree
  <2>2. \A i \in LiveChannel : channel[i] # at[c] BY <1>3 DEF OwnsAlone, PassOwns
  <2>3. \A e \in Decls : stored[e] # h
    BY <1>2, Apart DEF Linked, StoresLink, Bears
  <2>4. stored[at[c]] \notin LiveChannel
    BY <1>2, <2>2, Apart DEF Linked, StoresLink, Bears, LiveChannel
  <2>5. \A e \in Decls : got[c][e] # None /\ stored[e] \in LiveChannel => got[c][e] = stored[e]
    BY DEF OwnsAlone, PassOwns
  <2>6. \A e \in Decls : got'[c][e] # None /\ stored'[e] \in LiveChannel' => got'[c][e] = stored'[e]
    BY <1>1, <1>4, <1>6, <2>3, <2>4, <2>5
  <2>7. PassOwns(c)' BY <1>3, <2>6 DEF PassOwns
  <2>8. \A i \in LiveChannel : /\ channel'[i] = channel[i] /\ channel[i] # at[c]
                              /\ channel[i] \in Decls
                              /\ (i = stored[channel[i]] \/ i = got[c][channel[i]])
    BY <1>5, <1>6, <2>2 DEF OwnsAlone, LiveChannel
  <2>9. \A i \in LiveChannel' : i = stored'[channel'[i]] \/ i = got'[c][channel'[i]]
    BY <1>1, <1>4, <1>5, <1>6, <2>8
  <2>10. \A m \in LiveMessage : m = registry[message[m].view] BY <1>3 DEF OwnsAlone
  <2> QED BY <1>1, <2>1, <2>7, <2>9, <2>10 DEF OwnsAlone
<1> QED BY <1>7, <1>8 DEF Keeps

LEMMA PersistKeeps ==
  ASSUME SurfacesAssumption, SurfacesTyped, Linked, NEW c \in Callers, Persist(c)
  PROVE  Keeps(c)
<1>0. Passes BY DEF SurfacesTyped
<1>1. UNCHANGED <<channel, message, registry, cached, memory>>
  BY DEF Persist, guild, process
<1>2. LiveChannel' = LiveChannel /\ LiveMessage' = LiveMessage BY <1>1 DEF LiveChannel, LiveMessage
<1>3. /\ pc[c] = "tree" /\ todo[c] = {} /\ at[c] = None /\ pc'[c] = "pins" /\ todo'[c] = Views
      /\ got'[c] = Nothing /\ at'[c] = None
  BY <1>0, PersistTurns, OnePass
<1>4. settled' \/ ~ spoilt' => stored' = Persisted(c, {d \in Decls : got[c][d] # None})
  BY DEF Persist, Fault
<1>5. settled' \/ ~ spoilt' =>
       \A d \in Decls : stored'[d] = IF got[c][d] # None THEN got[c][d] ELSE stored[d]
  BY <1>4 DEF Persisted
<1>6. settled' /\ SettlesAlone(c) => SettlesAlone(c)'
  <2> HAVE settled' /\ SettlesAlone(c)
  <2>1. \A e \in Decls : got[c][e] \in LiveChannel
    BY <1>3, Apart DEF SettlesAlone, PassSettles
  <2>2. \A e \in Decls : stored'[e] \in LiveChannel' BY <1>2, <1>5, <2>1, Apart DEF LiveChannel
  <2> QED BY <1>3, <2>2 DEF SettlesAlone, PassSettles, Placed
<1>7. ~ spoilt' /\ OwnsAlone(c) => OwnsAlone(c)'
  <2> HAVE ~ spoilt' /\ OwnsAlone(c)
  <2>1. StoresAgree' BY <1>1 DEF OwnsAlone, StoresAgree
  <2>2. PassOwns(c)' BY <1>3 DEF PassOwns, Nothing
  <2>3. \A e \in Decls : got[c][e] # None /\ stored[e] \in LiveChannel => got[c][e] = stored[e]
    BY DEF OwnsAlone, PassOwns
  <2>4. \A i \in LiveChannel : i # None /\ channel[i] \in Decls
                              /\ (i = stored[channel[i]] \/ i = got[c][channel[i]])
    BY Apart DEF OwnsAlone, LiveChannel
  <2>5. \A i \in LiveChannel : i = stored'[channel[i]] BY <1>5, <2>3, <2>4
  <2>6. \A m \in LiveMessage : m = registry[message[m].view] BY <1>3 DEF OwnsAlone
  <2> QED BY <1>1, <1>2, <2>1, <2>2, <2>5, <2>6 DEF OwnsAlone
<1> QED BY <1>6, <1>7 DEF Keeps

LEMMA RefusedKeeps ==
  ASSUME NEW c \in Callers, Refused(c)
  PROVE  Keeps(c)
  BY DEF Refused, Fault, Keeps
\* A menu that is fetched stays so, and stays pinned, until a record changes.
PinsStay ==
  /\ UNCHANGED <<channel, stored>> /\ (MenusStay \/ UNCHANGED message)
  /\ \A m \in LiveMessage : message[m].pinned => message'[m].pinned
  /\ \A d \in Decls : Known(d)' = Known(d)
LEMMA PinsStayed ==
  ASSUME PinsStay
  PROVE  /\ LiveChannel' = LiveChannel /\ LiveMessage' = LiveMessage
         /\ \A m \in LiveMessage :
              message'[m].channel = message[m].channel /\ message'[m].view = message[m].view
         /\ \A d \in Decls : Fetched(d)' = Fetched(d) /\ (Pinned(d) => Pinned(d)')
                            /\ (Placed(d) => Placed(d)')
<1>1. LiveChannel' = LiveChannel /\ LiveMessage' = LiveMessage
  BY DEF PinsStay, MenusStay, LiveChannel, LiveMessage
<1>2. \A m \in LiveMessage :
       message'[m].channel = message[m].channel /\ message'[m].view = message[m].view
  BY DEF PinsStay, MenusStay
<1>3. \A d \in Decls : Fetched(d)' = Fetched(d) BY <1>1, <1>2 DEF Fetched, PinsStay
<1>4. \A d \in Decls : Pinned(d) => Pinned(d)'
  <2> SUFFICES ASSUME NEW d \in Decls, NEW m \in Fetched(d), message[m].pinned PROVE Pinned(d)'
    BY DEF Pinned
  <2>1. m \in LiveMessage /\ m \in Fetched(d)' BY <1>3 DEF Fetched
  <2> QED BY <2>1 DEF Pinned, PinsStay
<1>5. \A d \in Decls : Placed(d) => Placed(d)' BY <1>1 DEF Placed, PinsStay
<1> QED BY <1>1, <1>2, <1>3, <1>4, <1>5

\* What is on record for a view is what its menu is looked up by.
LEMMA KnownIsRegistry ==
  ASSUME StoresAgree, NEW d \in Decls
  PROVE  Known(d) = registry[d]
  BY DEF StoresAgree, Known

\* A pass that runs alone, among its pins, sees every live menu on record.
LEMMA FetchedIsAll ==
  ASSUME SurfacesAssumption, SurfacesTyped, Linked, NEW c \in Callers, OwnsAlone(c),
         pc[c] \in {"pins", "edit"}, NEW m \in LiveMessage
  PROVE  m = registry[message[m].view] /\ m \in Fetched(message[m].view)
<1>1. m \in MessageIds /\ message[m] \in Menus BY DEF LiveMessage, SurfacesTyped, SurfaceGuild
<1>2. message[m].view \in Decls BY <1>1 DEF Menus, Views
<1>3. m = registry[message[m].view] BY DEF OwnsAlone
<1>4. message[m].channel \in LiveChannel /\ channel[message[m].channel] = message[m].view
  BY DEF Linked, MenusLink
<1>5. got[c] = Nothing BY PassHas DEF SurfacesTyped, PassFits
<1>6. message[m].channel # None BY <1>4, Apart DEF LiveChannel
<1>7. message[m].channel = stored[message[m].view]
  BY <1>2, <1>4, <1>5, <1>6 DEF OwnsAlone, Nothing
<1>8. Known(message[m].view) = registry[message[m].view]
  BY <1>2, KnownIsRegistry DEF OwnsAlone
<1> QED BY <1>3, <1>7, <1>8 DEF Fetched

LEMMA OpenKeeps ==
  ASSUME SurfacesAssumption, SurfacesTyped, Linked, NEW c \in Callers, Open(c)
  PROVE  Keeps(c)
<1>0. /\ Passes /\ SurfaceGuild /\ message \in [MessageIds -> {None, Gone} \cup Menus]
  BY DEF SurfacesTyped, SurfaceGuild
<1>1. PICK d \in todo[c] :
          /\ d \in Views /\ cached' = [cached EXCEPT ![d] = IF @ # None THEN @ ELSE registry[d]]
          /\ LeftOut(c, d) \/ Repins(c, d) \/ Edits(c, d) \/ Sends(c, d)
  BY <1>0, OpenTurns
<1>2. /\ UNCHANGED <<channel, stored, registry, memory>> /\ pc[c] = "pins" /\ d \in Decls
      /\ got[c] = Nothing /\ at[c] = None
  BY <1>0, <1>1, PassHas DEF Open, process, PassFits, Views
<1>3. \A e \in Decls : cached'[e] = IF cached[e] = None /\ e = d THEN registry[e] ELSE cached[e]
  BY <1>1 DEF SurfacesTyped, SurfaceStores
<1>4. \A e \in Decls : Known(e)' = Known(e) BY <1>2, <1>3 DEF Known
<1>5. StoresAgree => StoresAgree' BY <1>2, <1>3 DEF StoresAgree
<1>6. \A e \in Views : e # None /\ e \in Decls BY Apart DEF Views
<1>7. SettlesAlone(c) => /\ \A e \in Decls : Placed(e)
                        /\ \A e \in Views : Pinned(e) \/ e \in todo[c]
  BY <1>2, <1>6 DEF SettlesAlone
<1>8. CASE LeftOut(c, d) \/ Sends(c, d)
  <2>1. /\ pc'[c] \in {"pins", "send"} /\ todo'[c] = todo[c] \ {d} /\ got'[c] = Nothing
        /\ UNCHANGED message
    BY <1>0, <1>8, OnePass DEF LeftOut, Sends
  <2>2. PinsStay BY <1>2, <1>4, <2>1 DEF PinsStay
  <2>3. SettlesAlone(c) => SettlesAlone(c)'
    <3> HAVE SettlesAlone(c)
    <3>1. Sends(c, d) BY <1>2, <1>7, <1>8 DEF Placed, LeftOut
    <3>2. at'[c] = d BY <1>0, <3>1, OnePass DEF Sends
    <3> QED BY <1>6, <1>7, <2>1, <2>2, <3>2, PinsStayed DEF SettlesAlone, PassSettles
  <2>4. OwnsAlone(c) => OwnsAlone(c)'
    <3> HAVE OwnsAlone(c)
    <3>1. pc'[c] = "send" => at'[c] = d /\ Fetched(d) = {}
      <4>1. LeftOut(c, d) => pc'[c] = "pins" BY <1>0, OnePass DEF LeftOut
      <4>2. Sends(c, d) => at'[c] = d /\ Fetched(d) = {} BY <1>0, OnePass DEF Sends
      <4> QED BY <1>8, <4>1, <4>2
    <3>2. \A m \in LiveMessage :
           m = registry[message[m].view] /\ m \in Fetched(message[m].view)
      BY <1>2, FetchedIsAll
    <3>3. PassOwns(c)' BY <2>1, <2>2, <3>1, <3>2, PinsStayed DEF PassOwns, Nothing
    <3> QED BY <1>2, <1>5, <2>1, <2>2, <3>2, <3>3, PinsStayed DEF OwnsAlone
  <2> QED BY <2>3, <2>4 DEF Keeps
<1>9. CASE Repins(c, d)
  <2>1. PICK m \in Fetched(d) : message' = Repinned(m, TRUE) BY <1>9 DEF Repins
  <2>2. /\ MenusStay /\ message'[m].pinned = TRUE
        /\ \A n \in MessageIds \ {m} : message'[n] = message[n]
    <3>1. m \in LiveMessage /\ message[m] \in Menus BY <1>0 DEF Fetched, LiveMessage
    <3> DEFINE r == [message[m] EXCEPT !.pinned = TRUE]
    <3>2. Remade(m, r) BY <1>0, <2>1, <3>1, RepinnedIs
    <3>3. r.pinned = TRUE BY <3>1 DEF Menus
    <3> HIDE DEF r
    <3> QED BY <1>0, <3>2, <3>3, RemadeStays
  <2>3. PinsStay BY <1>2, <1>4, <2>2 DEF PinsStay, LiveMessage
  <2>4. /\ pc'[c] = "pins" /\ todo'[c] = todo[c] \ {d} /\ got'[c] = Nothing
    BY <1>0, <1>9, OnePass DEF Repins
  <2>5. Pinned(d)' BY <1>2, <2>1, <2>2, <2>3, PinsStayed DEF Pinned
  <2>6. SettlesAlone(c) => SettlesAlone(c)'
    BY <1>6, <1>7, <2>3, <2>4, <2>5, PinsStayed DEF SettlesAlone, PassSettles
  <2>7. OwnsAlone(c) => OwnsAlone(c)'
    BY <1>2, <1>5, <2>3, <2>4, PinsStayed DEF OwnsAlone, PassOwns, Nothing
  <2> QED BY <2>6, <2>7 DEF Keeps
<1>10. CASE Edits(c, d)
  <2>1. PICK m \in Fetched(d) : Turned(c, "edit", todo[c] \ {d}, Nothing, d, language, m)
    BY <1>10 DEF Edits
  <2>2. /\ pc'[c] = "edit" /\ got'[c] = Nothing /\ at'[c] = d /\ sent'[c] = m
        /\ todo'[c] = todo[c] \ {d} /\ UNCHANGED message
    BY <1>0, <1>10, <2>1, OnePass DEF Edits
  <2>3. PinsStay BY <1>2, <1>4, <2>2 DEF PinsStay
  <2>4. SettlesAlone(c) => SettlesAlone(c)'
    <3> HAVE SettlesAlone(c)
    <3>1. (sent[c] \in Fetched(at[c]))' BY <1>2, <2>2, <2>3, PinsStayed
    <3> QED BY <1>6, <1>7, <2>2, <2>3, <3>1, PinsStayed DEF SettlesAlone, PassSettles
  <2>5. OwnsAlone(c) => OwnsAlone(c)'
    <3> HAVE OwnsAlone(c)
    <3>1. m = registry[d] BY <1>2, KnownIsRegistry DEF OwnsAlone, Fetched
    <3>2. PassOwns(c)' BY <1>2, <2>2, <3>1 DEF PassOwns, Nothing
    <3> QED BY <1>2, <1>5, <2>2, <2>3, <3>2, PinsStayed DEF OwnsAlone
  <2> QED BY <2>4, <2>5 DEF Keeps
<1> QED BY <1>1, <1>8, <1>9, <1>10
LEMMA EditKeeps ==
  ASSUME SurfacesAssumption, SurfacesTyped, Linked, NEW c \in Callers, Edit(c)
  PROVE  Keeps(c)
<1>0. /\ Passes /\ SurfaceGuild /\ message \in [MessageIds -> {None, Gone} \cup Menus]
  BY DEF SurfacesTyped, SurfaceGuild
<1>1. /\ pc[c] = "edit" /\ at[c] \in Views /\ at[c] \in Decls /\ built[c] \in Languages
      /\ sent[c] \in LiveMessage /\ got[c] = Nothing
      /\ message' = [message EXCEPT ![sent[c]].language = built[c], ![sent[c]].pinned = TRUE]
      /\ UNCHANGED <<channel, stored, registry, cached, memory>>
  BY <1>0, PassHas DEF Edit, PassFits, Views, stores
<1>2. /\ pc'[c] = "pins" /\ todo'[c] = todo[c] /\ got'[c] = Nothing /\ at'[c] = None
  BY <1>0, EditTurns, OnePass
<1>3. /\ MenusStay /\ message'[sent[c]].pinned = TRUE
      /\ \A n \in MessageIds \ {sent[c]} : message'[n] = message[n]
  <2>1. message[sent[c]] \in Menus BY <1>0, <1>1 DEF LiveMessage
  <2> DEFINE r == [message[sent[c]] EXCEPT !.language = built[c], !.pinned = TRUE]
  <2>2. Remade(sent[c], r) BY <1>0, <1>1, EditIs
  <2>3. r.pinned = TRUE BY <2>1 DEF Menus
  <2> HIDE DEF r
  <2> QED BY <1>0, <2>2, <2>3, RemadeStays
<1>4. \A e \in Decls : Known(e)' = Known(e) BY <1>1 DEF Known
<1>5. PinsStay BY <1>1, <1>3, <1>4 DEF PinsStay, LiveMessage
<1>6. SettlesAlone(c) => SettlesAlone(c)'
  <2> HAVE SettlesAlone(c)
  <2>1. sent[c] \in Fetched(at[c]) BY <1>1 DEF SettlesAlone, PassSettles
  <2>2. ASSUME NEW e \in Views, e = at[c] PROVE Pinned(e)'
    <3>1. sent[c] \in Fetched(e)' BY <1>1, <1>5, <2>1, <2>2, PinsStayed
    <3> QED BY <1>3, <3>1 DEF Pinned
  <2>3. \A e \in Views : Pinned(e)' \/ e \in todo'[c]
    BY <1>1, <1>2, <1>5, <2>2, PinsStayed DEF SettlesAlone, Views
  <2>4. \A e \in Decls : Placed(e)' BY <1>1, <1>5, PinsStayed DEF SettlesAlone
  <2> QED BY <1>2, <2>3, <2>4 DEF SettlesAlone, PassSettles
<1>7. OwnsAlone(c) => OwnsAlone(c)'
  <2> HAVE OwnsAlone(c)
  <2>1. StoresAgree' BY <1>1 DEF OwnsAlone, StoresAgree
  <2>2. PassOwns(c)' BY <1>2 DEF PassOwns, Nothing
  <2>3. \A m \in LiveMessage : m = registry[message[m].view] BY <1>1 DEF OwnsAlone
  <2>4. \A h \in LiveChannel : h = stored[channel[h]] \/ h = got'[c][channel[h]]
    BY <1>1, <1>2 DEF OwnsAlone
  <2> QED BY <1>1, <1>5, <2>1, <2>2, <2>3, <2>4, PinsStayed DEF OwnsAlone
<1> QED BY <1>6, <1>7 DEF Keeps

LEMMA EditFailsKeeps ==
  ASSUME SurfacesAssumption, SurfacesTyped, Linked, NEW c \in Callers, EditFails(c)
  PROVE  Keeps(c)
<1>0. Passes /\ SurfaceGuild BY DEF SurfacesTyped
<1>1. /\ pc[c] = "edit" /\ got[c] = Nothing
      /\ UNCHANGED <<channel, message, stored, registry, cached, memory>>
      /\ (settled' \/ ~ spoilt' => sent[c] \notin LiveMessage)
  BY <1>0, PassHas DEF EditFails, PassFits, stores, guild, process, Fault
<1>2. /\ pc'[c] = "send" /\ todo'[c] = todo[c] /\ got'[c] = Nothing /\ at'[c] = at[c]
  BY <1>0, EditFailsTurns, OnePass
<1>3. settled' => ~ SettlesAlone(c) BY <1>1 DEF SettlesAlone, PassSettles, Fetched
<1>4. ~ spoilt' /\ OwnsAlone(c) => OwnsAlone(c)'
  <2> HAVE ~ spoilt' /\ OwnsAlone(c)
  <2>1. StoresAgree' BY <1>1 DEF OwnsAlone, StoresAgree
  <2>2. LiveChannel' = LiveChannel /\ LiveMessage' = LiveMessage
    BY <1>1 DEF LiveChannel, LiveMessage
  <2>3. \A m \in LiveMessage : m = registry[message[m].view] BY <1>1, FetchedIsAll
  <2>4. sent[c] = registry[at[c]] BY <1>1 DEF OwnsAlone, PassOwns
  <2>5. PassOwns(c)' BY <1>1, <1>2, <2>2, <2>3, <2>4 DEF PassOwns, Nothing
  <2> QED BY <1>1, <1>2, <2>1, <2>2, <2>3, <2>5 DEF OwnsAlone
<1> QED BY <1>3, <1>4 DEF Keeps

LEMMA SendKeeps ==
  ASSUME SurfacesAssumption, SurfacesTyped, Linked, NEW c \in Callers, Send(c)
  PROVE  Keeps(c)
<1>0. /\ Passes /\ SurfaceGuild /\ message \in [MessageIds -> {None, Gone} \cup Menus]
  BY DEF SurfacesTyped, SurfaceGuild
<1> DEFINE r == [channel |-> stored[at[c]], view |-> at[c], language |-> built[c], pinned |-> FALSE]
<1>1. PICK m \in MessageIds :
              /\ message[m] = None /\ message' = [message EXCEPT ![m] = r]
              /\ Turned(c, "pin", todo[c], Nothing, at[c], built[c], m)
  BY <1>0, SendTurns
<1>2. /\ pc'[c] = "pin" /\ got'[c] = Nothing /\ at'[c] = at[c] /\ sent'[c] = m /\ todo'[c] = todo[c]
  BY <1>0, <1>1, OnePass
<1>3. /\ stored[at[c]] \in LiveChannel /\ at[c] \in Views /\ at[c] \in Decls
      /\ built[c] \in Languages
      /\ UNCHANGED <<channel, stored, registry, cached, memory>> /\ pc[c] = "send"
      /\ got[c] = Nothing
  BY <1>0, SendTurns, PassHas DEF Send, process, stores, PassFits, Views
<1>4. r \in Menus /\ r.channel = stored[at[c]] /\ r.view = at[c]
  BY <1>3 DEF Menus, LiveChannel
<1>5. r \notin {None, Gone} BY <1>4, Apart
<1> HIDE DEF r
<1>6. message'[m] = r /\ \A n \in MessageIds \ {m} : message'[n] = message[n] BY <1>0, <1>1
<1>7. /\ LiveMessage' = LiveMessage \cup {m} /\ m \notin LiveMessage /\ LiveChannel' = LiveChannel
      /\ \A n \in LiveMessage : message'[n] = message[n]
  BY <1>1, <1>3, <1>5, <1>6 DEF LiveMessage, LiveChannel
<1>8. SettlesAlone(c) => SettlesAlone(c)'
  <2> HAVE SettlesAlone(c)
  <2>1. \A e \in Decls : Placed(e)' BY <1>3, <1>7 DEF SettlesAlone, Placed
  <2>2. \A e \in Views : Pinned(e) => Pinned(e)'
    BY <1>3, <1>7 DEF Pinned, Fetched, Known
  <2>3. PassSettles(c)' BY <1>2, <1>3, <1>4, <1>6, <1>7 DEF PassSettles
  <2> QED BY <1>2, <1>3, <2>1, <2>2, <2>3 DEF SettlesAlone
<1>9. OwnsAlone(c) => OwnsAlone(c)'
  <2> HAVE OwnsAlone(c)
  <2>1. StoresAgree' BY <1>3 DEF OwnsAlone, StoresAgree
  <2>2. \A n \in LiveMessage : message[n].view # at[c] /\ n = registry[message[n].view]
    BY <1>3 DEF OwnsAlone, PassOwns
  <2>3. PassOwns(c)' BY <1>2, <1>7, <2>2 DEF PassOwns, Nothing
  <2>4. \A n \in LiveMessage' :
         \/ n = registry'[message'[n].view]
         \/ pc'[c] \in {"pin", "register"} /\ sent'[c] = n /\ at'[c] = message'[n].view
    BY <1>2, <1>3, <1>4, <1>6, <1>7, <2>2
  <2>5. \A h \in LiveChannel : h = stored[channel[h]] \/ h = got'[c][channel[h]]
    BY <1>2, <1>3 DEF OwnsAlone
  <2> QED BY <1>3, <1>7, <2>1, <2>3, <2>4, <2>5 DEF OwnsAlone
<1> QED BY <1>8, <1>9 DEF Keeps

LEMMA PinKeeps ==
  ASSUME SurfacesAssumption, SurfacesTyped, Linked, NEW c \in Callers, Pin(c)
  PROVE  Keeps(c)
<1>0. /\ Passes /\ SurfaceGuild /\ message \in [MessageIds -> {None, Gone} \cup Menus]
  BY DEF SurfacesTyped, SurfaceGuild
<1>1. /\ pc'[c] = "register" /\ got'[c] = Nothing /\ at'[c] = at[c] /\ sent'[c] = sent[c]
      /\ todo'[c] = todo[c] /\ sent[c] \in LiveMessage /\ pc[c] = "pin" /\ got[c] = Nothing
  BY <1>0, PinTurns, OnePass, PassHas DEF PassFits
<1>2. UNCHANGED <<channel, stored, registry, cached, memory>> BY DEF Pin, stores, process
<1>3. /\ MenusStay /\ message'[sent[c]].pinned = TRUE
      /\ \A n \in MessageIds \ {sent[c]} : message'[n] = message[n]
  <2>1. message[sent[c]] \in Menus BY <1>0, <1>1 DEF LiveMessage
  <2> DEFINE r == [message[sent[c]] EXCEPT !.pinned = TRUE]
  <2>2. Remade(sent[c], r) BY <1>0, <1>1, RepinnedIs DEF Pin
  <2>3. r.pinned = TRUE BY <2>1 DEF Menus
  <2> HIDE DEF r
  <2> QED BY <1>0, <2>2, <2>3, RemadeStays
<1>4. PinsStay BY <1>2, <1>3 DEF PinsStay, LiveMessage, Known
<1>5. SettlesAlone(c) => SettlesAlone(c)'
  <2> HAVE SettlesAlone(c)
  <2>1. message[sent[c]].channel = stored[at[c]] /\ message[sent[c]].view = at[c]
    BY <1>1 DEF SettlesAlone, PassSettles
  <2>2. PassSettles(c)' BY <1>1, <1>2, <1>3, <1>4, <2>1, PinsStayed DEF PassSettles
  <2> QED BY <1>1, <1>4, <2>2, PinsStayed DEF SettlesAlone, Views
<1>6. OwnsAlone(c) => OwnsAlone(c)'
  <2> HAVE OwnsAlone(c)
  <2>1. StoresAgree' BY <1>2 DEF OwnsAlone, StoresAgree
  <2>2. \A n \in LiveMessage : message[n].view = at[c] => n = sent[c]
    BY <1>1 DEF OwnsAlone, PassOwns
  <2>3. PassOwns(c)' BY <1>1, <1>4, <2>2, PinsStayed DEF PassOwns, Nothing
  <2> QED BY <1>1, <1>2, <1>4, <2>1, <2>3, PinsStayed DEF OwnsAlone
<1> QED BY <1>5, <1>6 DEF Keeps

LEMMA GivenUpKeeps ==
  ASSUME SurfacesAssumption, SurfacesTyped, Linked, NEW c \in Callers, GivenUp(c)
  PROVE  Keeps(c)
<1>0. Passes /\ SurfaceGuild BY DEF SurfacesTyped
<1>1. /\ pc[c] \in {"send", "pin"} /\ got[c] = Nothing /\ at[c] \in Decls
      /\ UNCHANGED <<channel, message, stored, registry, cached, memory>>
      /\ (settled' \/ ~ spoilt' => \/ pc[c] = "send" /\ ~ Placed(at[c])
                                   \/ pc[c] = "pin" /\ sent[c] \notin LiveMessage)
  BY <1>0, PassHas DEF GivenUp, PassFits, stores, guild, process, Fault, Placed, Views
<1>2. /\ pc'[c] = "pins" /\ got'[c] = Nothing BY <1>0, EditTurns, OnePass
<1>3. settled' => ~ SettlesAlone(c) BY <1>1 DEF SettlesAlone, PassSettles
<1>4. ~ spoilt' /\ OwnsAlone(c) => OwnsAlone(c)'
  <2> HAVE ~ spoilt' /\ OwnsAlone(c)
  <2>1. StoresAgree' BY <1>1 DEF OwnsAlone, StoresAgree
  <2>2. LiveChannel' = LiveChannel /\ LiveMessage' = LiveMessage
    BY <1>1 DEF LiveChannel, LiveMessage
  <2>3. \A m \in LiveMessage : m = registry[message[m].view] BY <1>1 DEF OwnsAlone
  <2>4. PassOwns(c)' BY <1>2 DEF PassOwns, Nothing
  <2> QED BY <1>1, <1>2, <2>1, <2>2, <2>3, <2>4 DEF OwnsAlone
<1> QED BY <1>3, <1>4 DEF Keeps

LEMMA RegisterKeeps ==
  ASSUME SurfacesAssumption, SurfacesTyped, Linked, NEW c \in Callers, Register(c)
  PROVE  Keeps(c)
<1>0. Passes /\ SurfaceGuild BY DEF SurfacesTyped
<1>1. /\ pc[c] = "register" /\ got[c] = Nothing /\ at[c] \in Decls /\ at[c] \in Views
      /\ sent[c] \in MessageIds /\ UNCHANGED <<channel, message, stored>>
  BY <1>0, PassHas DEF Register, PassFits, guild, Views
<1>2. /\ pc'[c] = "pins" /\ got'[c] = Nothing /\ todo'[c] = todo[c] /\ at'[c] = None
  BY <1>0, EditTurns, OnePass
<1>3. LiveChannel' = LiveChannel /\ LiveMessage' = LiveMessage BY <1>1 DEF LiveChannel, LiveMessage
<1>4. settled' \/ ~ spoilt' =>
       /\ registry'[at[c]] = sent[c] /\ cached'[at[c]] = sent[c] /\ memory'[at[c]] = sent[c]
       /\ \A e \in Decls \ {at[c]} :
            registry'[e] = registry[e] /\ cached'[e] = cached[e] /\ memory'[e] = memory[e]
  BY <1>1 DEF Register, Cached, Fault, SurfacesTyped, SurfaceStores
<1>5. settled' /\ SettlesAlone(c) => SettlesAlone(c)'
  <2> HAVE settled' /\ SettlesAlone(c)
  <2>1. /\ sent[c] \in LiveMessage /\ message[sent[c]].channel = stored[at[c]]
        /\ message[sent[c]].pinned
    BY <1>1 DEF SettlesAlone, PassSettles
  <2>2. ASSUME NEW e \in Views, e = at[c] PROVE Pinned(e)'
    <3>1. Known(e)' = sent[c] BY <1>1, <1>4, <2>2, Apart DEF Known
    <3> QED BY <1>1, <1>3, <2>1, <2>2, <3>1 DEF Pinned, Fetched
  <2>3. ASSUME NEW e \in Views, e # at[c], Pinned(e) PROVE Pinned(e)'
    <3>1. Known(e)' = Known(e) BY <1>4, <2>3 DEF Known, Views
    <3> QED BY <1>1, <1>3, <2>3, <3>1 DEF Pinned, Fetched
  <2>4. \A e \in Views : Pinned(e)' \/ e \in todo'[c]
    BY <1>1, <1>2, <2>2, <2>3 DEF SettlesAlone
  <2>5. \A e \in Decls : Placed(e)' BY <1>1, <1>3 DEF SettlesAlone, Placed
  <2> QED BY <1>2, <2>4, <2>5 DEF SettlesAlone, PassSettles
<1>6. ~ spoilt' /\ OwnsAlone(c) => OwnsAlone(c)'
  <2> HAVE ~ spoilt' /\ OwnsAlone(c)
  <2>1. StoresAgree' BY <1>4 DEF OwnsAlone, StoresAgree
  <2>2. PassOwns(c)' BY <1>2 DEF PassOwns, Nothing
  <2>3. ASSUME NEW m \in LiveMessage PROVE m = registry'[message[m].view]
    <3>1. message[m].view \in Decls
      <4>1. message[m] \in Menus BY DEF LiveMessage, SurfacesTyped, SurfaceGuild
      <4> QED BY <4>1 DEF Menus, Views
    <3>2. CASE message[m].view = at[c] BY <1>1, <1>4, <3>2 DEF OwnsAlone, PassOwns
    <3>3. CASE message[m].view # at[c] BY <1>4, <3>1, <3>3 DEF OwnsAlone
    <3> QED BY <3>2, <3>3
  <2> QED BY <1>1, <1>2, <1>3, <2>1, <2>2, <2>3 DEF OwnsAlone
<1> QED BY <1>5, <1>6 DEF Keeps

LEMMA FinishKeeps ==
  ASSUME SurfacesAssumption, SurfacesTyped, Linked, NEW c \in Callers, Finish(c)
  PROVE  Keeps(c)
<1>0. Passes BY DEF SurfacesTyped
<1>1. /\ pc[c] = "pins" /\ todo[c] = {} /\ got[c] = Nothing /\ at[c] = None /\ pc'[c] = "idle"
      /\ todo'[c] = {} /\ got'[c] = Nothing /\ at'[c] = None
  BY <1>0, FinishTurns, OnePass
<1>2. UNCHANGED <<channel, message, stored, registry, cached, memory>>
  BY DEF Finish, guild, stores, process
<1>3. PinsStay BY <1>2 DEF PinsStay, Known
<1>4. SettlesAlone(c) => SettlesAlone(c)'
  BY <1>1, <1>3, PinsStayed DEF SettlesAlone, PassSettles, Views
<1>5. OwnsAlone(c) => OwnsAlone(c)'
  BY <1>1, <1>2, <1>3, PinsStayed DEF OwnsAlone, PassOwns, StoresAgree, Nothing
<1> QED BY <1>4, <1>5 DEF Keeps
-----------------------------------------------------------------------------
SurfacesInv == SurfacesTyped /\ Linked /\ SoloPass /\ Settling /\ Owned

LEMMA BeginKept ==
  ASSUME SurfacesAssumption, SurfacesInv, SurfacesTyped', NEW c \in Callers, Sync(c) \/ BootPass(c)
  PROVE  SoloPass' /\ Settling' /\ Owned'
<1>0. SurfacesTyped /\ Passes BY DEF SurfacesInv, SurfacesTyped
<1>1. CASE ~ settled' /\ spoilt' BY <1>1 DEF SoloPass, Settling, Owned
<1>2. CASE settled' \/ ~ spoilt'
  <2>1. Busy = {} /\ pc[c] = "idle" BY <1>2 DEF Sync, BootPass, Begin
  <2>2. Only(c) BY <2>1 DEF Only, Busy
  <2>3. OtherPasses(c) /\ got'[c] = Nothing /\ at'[c] = None
        /\ (Sync(c) => pc'[c] = "tree" /\ todo'[c] = Decls)
        /\ (~ Sync(c) => pc'[c] = "pins" /\ todo'[c] = Views)
    BY <1>0, BeginTurns, OnePass
  <2>4. Only(c)' BY <2>2, <2>3 DEF Only, OtherPasses
  <2>5. UNCHANGED <<channel, message, stored, registry, cached, memory>>
    BY DEF Sync, BootPass, guild, stores, process
  <2>6. LiveChannel' = LiveChannel /\ LiveMessage' = LiveMessage
    BY <2>5 DEF LiveChannel, LiveMessage
  <2>7. got[c] = Nothing BY <1>0, <2>1, IdleRests
  <2>8. settled' => SettlesAlone(c)'
    <3>1. CASE Sync(c) BY <2>3, <3>1 DEF SettlesAlone, PassSettles
    <3>2. CASE settled' /\ ~ Sync(c)
      <4>1. settled BY <3>2 DEF BootPass
      <4>2. \A d \in Decls : Placed(d)
        BY <1>0, <2>1, <2>2, <4>1, AloneBefore DEF SurfacesInv, SettlesAlone
      <4>3. \A d \in Decls : Placed(d)' BY <2>5, <2>6, <4>2 DEF Placed
      <4> QED BY <2>3, <3>2, <4>3 DEF SettlesAlone, PassSettles
    <3> QED BY <3>1, <3>2
  <2>9. ~ spoilt' => OwnsAlone(c)'
    <3> HAVE ~ spoilt'
    <3>1. ~ spoilt BY DEF Sync, BootPass, Begin
    <3>2. OwnsAlone(c) BY <1>0, <2>2, <3>1, AloneBefore DEF SurfacesInv
    <3>3. StoresAgree' BY <2>5, <3>2 DEF OwnsAlone, StoresAgree
    <3>4. PassOwns(c)' BY <2>3 DEF PassOwns, Nothing
    <3>5. \A m \in LiveMessage : m = registry[message[m].view] BY <2>1, <3>2 DEF OwnsAlone
    <3>6. \A h \in LiveChannel : h = stored[channel[h]] \/ h = got'[c][channel[h]]
      BY <2>3, <2>7, <3>2 DEF OwnsAlone
    <3> QED BY <2>5, <2>6, <3>3, <3>4, <3>5, <3>6 DEF OwnsAlone
  <2> QED BY <2>4, <2>8, <2>9, AloneAfter DEF Settling, Owned
<1> QED BY <1>1, <1>2

\* A pass at work keeps what it keeps when it is the only one.
WorksOn(c) ==
  \/ Resolve(c) \/ Create(c) \/ Refused(c) \/ Persist(c) \/ Open(c) \/ Edit(c) \/ EditFails(c)
  \/ Send(c) \/ Pin(c) \/ GivenUp(c) \/ Register(c) \/ Finish(c)
LEMMA WorkIs ==
  ASSUME SurfacesAssumption, SurfacesTyped, Linked, NEW c \in Callers, WorksOn(c)
  PROVE  /\ Keeps(c) /\ pc[c] # "idle" /\ OtherPasses(c)
         /\ (settled' => settled) /\ (~ spoilt' => ~ spoilt)
<1>0. Passes /\ SurfaceGuild BY DEF SurfacesTyped
<1>1. Keeps(c)
  BY ResolveKeeps, CreateKeeps, RefusedKeeps, PersistKeeps, OpenKeeps, EditKeeps, EditFailsKeeps,
     SendKeeps, PinKeeps, GivenUpKeeps, RegisterKeeps, FinishKeeps DEF WorksOn
<1>2. (settled' => settled) /\ (~ spoilt' => ~ spoilt)
  <2>1. Fine \/ Fault
    BY DEF WorksOn, Resolve, Create, Refused, Persist, Open, Edit, EditFails, Send, Pin, GivenUp,
           Register, Finish
  <2> QED BY <2>1 DEF Fine, Fault, history
<1>3. pc[c] # "idle"
  BY DEF WorksOn, Resolve, Turn, Create, Refused, Persist, Open, Edit, EditFails, Send, Pin,
         GivenUp, Register, Finish
<1>4. OtherPasses(c)
  <2>1. Resolve(c) => OtherPasses(c) BY <1>0, ResolveTurns, OnePass
  <2>2. Create(c) => OtherPasses(c) BY <1>0, CreateTurns, OnePass
  <2>3. Refused(c) => OtherPasses(c) BY <1>0, RefusedTurns, OnePass
  <2>4. Persist(c) => OtherPasses(c) BY <1>0, PersistTurns, OnePass
  <2>5. Open(c) => OtherPasses(c)
    BY <1>0, OpenTurns, OnePass DEF LeftOut, Repins, Edits, Sends
  <2>6. Edit(c) \/ GivenUp(c) \/ Register(c) => OtherPasses(c) BY <1>0, EditTurns, OnePass
  <2>7. EditFails(c) => OtherPasses(c) BY <1>0, EditFailsTurns, OnePass
  <2>8. Send(c) => OtherPasses(c) BY <1>0, SendTurns, OnePass
  <2>9. Pin(c) => OtherPasses(c) BY <1>0, PinTurns, OnePass
  <2>10. Finish(c) => OtherPasses(c) BY <1>0, FinishTurns, OnePass
  <2> QED BY <2>1, <2>2, <2>3, <2>4, <2>5, <2>6, <2>7, <2>8, <2>9, <2>10 DEF WorksOn
<1> QED BY <1>1, <1>2, <1>3, <1>4

LEMMA WorkKept ==
  ASSUME SurfacesAssumption, SurfacesInv, SurfacesTyped', NEW c \in Callers, WorksOn(c)
  PROVE  SoloPass' /\ Settling' /\ Owned'
<1>0. SurfacesTyped /\ Linked BY DEF SurfacesInv
<1>1. /\ Keeps(c) /\ pc[c] # "idle" /\ OtherPasses(c) /\ (settled' => settled)
      /\ (~ spoilt' => ~ spoilt)
  BY <1>0, WorkIs
<1>2. CASE ~ settled' /\ spoilt' BY <1>2 DEF SoloPass, Settling, Owned
<1>3. CASE settled' \/ ~ spoilt'
  <2>1. \A d, e \in Busy : d = e BY <1>1, <1>3 DEF SurfacesInv, SoloPass
  <2>2. Only(c) BY <1>1, <2>1 DEF Only, Busy
  <2>3. Only(c)' BY <1>1, <2>2 DEF Only, OtherPasses
  <2>4. settled' => SettlesAlone(c)' BY <1>0, <1>1, <2>2, AloneBefore DEF SurfacesInv, Keeps
  <2>5. ~ spoilt' => OwnsAlone(c)' BY <1>0, <1>1, <2>2, AloneBefore DEF SurfacesInv, Keeps
  <2> QED BY <2>3, <2>4, <2>5, AloneAfter DEF Settling, Owned
<1> QED BY <1>2, <1>3

LEMMA SurroundingsKept ==
  ASSUME SurfacesAssumption, SurfacesInv, Surroundings
  PROVE  SoloPass' /\ Settling' /\ Owned'
<1>0. /\ SurfacesTyped /\ SurfaceGuild /\ message \in [MessageIds -> {None, Gone} \cup Menus]
  BY DEF SurfacesInv, SurfacesTyped, SurfaceGuild
<1>1. /\ UNCHANGED <<pc, todo, got, at, built, sent, stored, registry, memory, spoilt>>
      /\ (settled' => settled)
  BY DEF Surroundings, DeleteChannel, Meddle, CacheExpires, ChangeLanguage, Act, locals, stores,
         process
<1>2. SoloPass' BY <1>1 DEF SurfacesInv, SoloPass, Busy
<1>3. Settling'
  <2> SUFFICES ASSUME settled' PROVE Settling' BY DEF Settling
  <2>1. PICK d \in Decls : CacheExpires(d)
    BY DEF Surroundings, DeleteChannel, Meddle, ChangeLanguage, Act
  <2>2. /\ UNCHANGED <<channel, message>> /\ cached[d] = registry[d] /\ cached[d] # None
        /\ cached' = [cached EXCEPT ![d] = None]
    BY <2>1 DEF CacheExpires, guild
  <2>3. \A e \in Decls : Known(e)' = Known(e)
    BY <1>0, <1>1, <2>2 DEF Known, SurfacesTyped, SurfaceStores
  <2>4. PinsStay BY <1>1, <2>2, <2>3 DEF PinsStay
  <2>5. \A c \in Callers : PassSettles(c)'
    <3> TAKE c \in Callers
    <3>1. PassSettles(c) BY <1>1 DEF SurfacesInv, Settling
    <3>2. pc[c] = "edit" => at[c] \in Decls
      BY <1>0 DEF SurfacesTyped, Passes, PassShaped, PassFits, Views
    <3> QED BY <1>1, <2>2, <2>4, <3>1, <3>2, PinsStayed DEF PassSettles
  <2>6. (\A c \in Callers : pc[c] \notin {"tree", "create"}) =>
         /\ \A e \in Decls : Placed(e)
         /\ \A e \in Views : Pinned(e) \/ \E c \in Callers : e \in todo[c] \/ at[c] = e
    BY <1>1 DEF SurfacesInv, Settling
  <2>7. (\A c \in Callers : pc'[c] \notin {"tree", "create"}) =>
         /\ \A e \in Decls : Placed(e)'
         /\ \A e \in Views : Pinned(e)' \/ \E c \in Callers : e \in todo'[c] \/ at'[c] = e
    BY <1>1, <2>4, <2>6, PinsStayed DEF Views
  <2> QED BY <2>5, <2>7 DEF Settling
<1>4. Owned'
  <2> SUFFICES ASSUME ~ spoilt' PROVE Owned' BY DEF Owned
  <2>1. /\ LiveChannel' \subseteq LiveChannel /\ LiveMessage' \subseteq LiveMessage
        /\ \A h \in LiveChannel' : channel'[h] = channel[h]
        /\ \A m \in LiveMessage' : message'[m].view = message[m].view
    <3>1. ASSUME NEW h \in Channels, DeleteChannel(h)
          PROVE  /\ LiveChannel' \subseteq LiveChannel /\ LiveMessage' \subseteq LiveMessage
                 /\ \A i \in LiveChannel' : channel'[i] = channel[i]
                 /\ \A m \in LiveMessage' : message'[m].view = message[m].view
      <4>1. \A m \in LiveMessage' : m \in LiveMessage /\ message'[m] = message[m]
        BY <3>1 DEF DeleteChannel, LiveMessage
      <4>2. \A i \in LiveChannel' : i \in LiveChannel /\ channel'[i] = channel[i]
        BY <1>0, <3>1, Apart DEF DeleteChannel, LiveChannel, SurfaceGuild
      <4> QED BY <4>1, <4>2
    <3>2. ASSUME NEW m \in MessageIds, Meddle(m)
          PROVE  /\ LiveMessage' \subseteq LiveMessage /\ UNCHANGED channel
                 /\ \A n \in LiveMessage' : message'[n].view = message[n].view
      <4>1. CASE message' = Repinned(m, FALSE)
        <5>1. MenusStay BY <1>0, <3>2, <4>1, RepinnedIs, RemadeStays DEF Meddle
        <5> QED BY <3>2, <5>1 DEF Meddle, MenusStay
      <4>2. CASE message' = [message EXCEPT ![m] = Gone]
        BY <1>0, <3>2, <4>2 DEF Meddle, LiveMessage
      <4> QED BY <3>2, <4>1, <4>2 DEF Meddle
    <3>3. UNCHANGED channel => LiveChannel' = LiveChannel BY DEF LiveChannel
    <3>4. UNCHANGED message => LiveMessage' = LiveMessage BY DEF LiveMessage
    <3> QED BY <3>1, <3>2, <3>3, <3>4 DEF Surroundings, CacheExpires, ChangeLanguage, guild
  <2>2. \A e \in Decls : cached'[e] \in {cached[e], None}
    BY <1>0 DEF Surroundings, DeleteChannel, Meddle, CacheExpires, ChangeLanguage, stores,
                SurfacesTyped, SurfaceStores
  <2>3. ~ spoilt BY <1>1
  <2>4. StoresAgree' BY <1>1, <2>2, <2>3 DEF SurfacesInv, Owned, StoresAgree
  <2>5. \A c \in Callers : PassOwns(c)' BY <1>1, <2>1, <2>3 DEF SurfacesInv, Owned, PassOwns
  <2> QED BY <1>1, <2>1, <2>3, <2>4, <2>5 DEF SurfacesInv, Owned
<1> QED BY <1>2, <1>3, <1>4

LEMMA RestartKept ==
  ASSUME SurfacesAssumption, SurfacesInv, Restart
  PROVE  SoloPass' /\ Settling' /\ Owned'
<1>0. SurfacesTyped BY DEF SurfacesInv
<1>1. /\ ~ settled' /\ (~ spoilt' => ~ spoilt /\ Busy = {}) /\ memory' = Nothing
      /\ UNCHANGED <<channel, message, stored, registry, cached>>
      /\ pc' = [c \in Callers |-> "idle"] /\ got' = [c \in Callers |-> Nothing]
  BY DEF Restart, Act, guild, stores
<1>2. SoloPass' BY <1>1 DEF SoloPass, Busy
<1>3. Settling' BY <1>1 DEF Settling
<1>4. Owned'
  <2> SUFFICES ASSUME ~ spoilt' PROVE Owned' BY DEF Owned
  <2>1. Owned /\ ~ spoilt BY <1>1 DEF SurfacesInv
  <2>2. \A c \in Callers : pc[c] = "idle" /\ got[c] = Nothing BY <1>0, <1>1, IdleRests DEF Busy
  <2>3. LiveChannel' = LiveChannel /\ LiveMessage' = LiveMessage
    BY <1>1 DEF LiveChannel, LiveMessage
  <2>4. StoresAgree' BY <1>1, <2>1 DEF Owned, StoresAgree, Nothing
  <2>5. \A c \in Callers : PassOwns(c)' BY <1>1 DEF PassOwns, Nothing
  <2>6. \A h \in LiveChannel : channel[h] \in Decls /\ h # None BY Apart DEF LiveChannel
  <2>7. \A h \in LiveChannel : h = stored[channel[h]]
    BY <2>1, <2>2, <2>6 DEF Owned, Nothing
  <2>8. \A m \in LiveMessage : m = registry[message[m].view] BY <2>1, <2>2 DEF Owned
  <2> QED BY <1>1, <2>3, <2>4, <2>5, <2>7, <2>8 DEF Owned
<1> QED BY <1>2, <1>3, <1>4

LEMMA SurfacesInvStep ==
  ASSUME SurfacesAssumption, SurfacesInv, [SurfacesNext]_surfaceVars
  PROVE  SurfacesInv'
<1>1. SurfacesTyped' /\ Linked' BY SurfacesTypedStep, LinkedStep DEF SurfacesInv
<1>2. CASE UNCHANGED surfaceVars
  BY <1>1, <1>2 DEF surfaceVars, guild, stores, process, locals, history, SurfacesInv, SoloPass,
         Busy, Settling, PassSettles, Placed, Pinned, Fetched, Known, Owned, StoresAgree, PassOwns,
         LiveChannel, LiveMessage
<1>3. CASE SurfacesNext
  BY <1>1, <1>3, BeginKept, WorkKept, SurroundingsKept, RestartKept
     DEF SurfacesNext, Surroundings, WorksOn, SurfacesInv
<1> QED BY <1>2, <1>3

LEMMA SurfacesInvInit == ASSUME SurfacesAssumption, SurfacesInit PROVE SurfacesInv
<1>1. SurfacesTyped /\ Linked BY SurfacesTypedInit, LinkedInit
<1>2. /\ channel = [h \in Channels |-> None] /\ message = [m \in MessageIds |-> None]
      /\ cached = Nothing /\ memory = Nothing /\ pc = [c \in Callers |-> "idle"]
      /\ got = [c \in Callers |-> Nothing] /\ settled = FALSE
  BY DEF SurfacesInit
<1>3. SoloPass BY <1>2 DEF SoloPass, Busy
<1>4. Settling BY <1>2 DEF Settling
<1>5. LiveChannel = {} /\ LiveMessage = {} BY <1>2, Apart DEF LiveChannel, LiveMessage
<1>6. StoresAgree BY <1>2 DEF StoresAgree, Nothing
<1>7. \A c \in Callers : PassOwns(c) BY <1>2 DEF PassOwns, Nothing
<1>8. Owned BY <1>5, <1>6, <1>7 DEF Owned
<1> QED BY <1>1, <1>3, <1>4, <1>8 DEF SurfacesInv
\* The stored channel of a declaration, if it lives, bears its name; the menu
\* that is fetched for a view shows it.
LEMMA PlacedRightly ==
  ASSUME SurfacesAssumption, Linked, NEW d \in Decls, Placed(d)
  PROVE  channel[stored[d]] = d
  BY Apart DEF Placed, LiveChannel, Linked, StoresLink, Bears
LEMMA FetchedRightly ==
  ASSUME SurfacesAssumption, Linked, NEW d \in Decls, NEW m \in Fetched(d)
  PROVE  message[m].view = d
<1>1. m \in LiveMessage /\ m = Known(d) BY DEF Fetched
<1>2. m # None /\ message[m] # Gone BY <1>1, Apart DEF LiveMessage
<1>3. PinOf(m, d) BY <1>1 DEF Known, Linked, StoresLink
<1> QED BY <1>2, <1>3 DEF PinOf

LEMMA OneChannel ==
  ASSUME SurfacesAssumption, SurfacesInv, ~ spoilt, NEW h \in LiveChannel, NEW i \in LiveChannel,
         channel[h] = channel[i]
  PROVE  h = i
<1>1. Owned /\ SurfacesTyped BY DEF SurfacesInv
<1>2. channel[h] \in Decls /\ h # None /\ i # None BY Apart DEF LiveChannel
<1> DEFINE d == channel[h]
<1>3. ASSUME NEW c \in Callers, NEW g \in LiveChannel, channel[g] = d, g = got[c][d]
      PROVE  c \in Busy /\ (stored[d] \in LiveChannel => g = stored[d])
  <2>1. g # None BY Apart DEF LiveChannel
  <2>2. pc[c] # "idle" BY <1>1, <1>2, <1>3, <2>1, IdleRests DEF Nothing
  <2>3. PassOwns(c) BY <1>1 DEF Owned
  <2> QED BY <1>2, <1>3, <2>1, <2>2, <2>3 DEF PassOwns, Busy
<1>4. h = stored[d] \/ \E c \in Callers : h = got[c][d] BY <1>1 DEF Owned
<1>5. i = stored[d] \/ \E c \in Callers : i = got[c][d] BY <1>1 DEF Owned
<1>6. \A b, c \in Busy : b = c BY DEF SurfacesInv, SoloPass
<1> QED BY <1>3, <1>4, <1>5, <1>6

LEMMA OneMenu ==
  ASSUME SurfacesAssumption, SurfacesInv, ~ spoilt, NEW m \in LiveMessage, NEW n \in LiveMessage,
         message[m].view = message[n].view
  PROVE  m = n
<1>1. Owned BY DEF SurfacesInv
<1> DEFINE d == message[m].view
<1>2. ASSUME NEW c \in Callers, pc[c] \in {"pin", "register"}, at[c] = d
      PROVE  m = sent[c] /\ n = sent[c]
  BY <1>1, <1>2 DEF Owned, PassOwns
<1>3. m = registry[d] \/ \E c \in Callers : pc[c] \in {"pin", "register"} /\ at[c] = d
  BY <1>1 DEF Owned
<1>4. n = registry[d] \/ \E c \in Callers : pc[c] \in {"pin", "register"} /\ at[c] = d
  BY <1>1 DEF Owned
<1> QED BY <1>2, <1>3, <1>4

LEMMA InvHeals ==
  ASSUME SurfacesAssumption, SurfacesInv
  PROVE  Healed
<1>0. SurfacesTyped /\ Linked BY DEF SurfacesInv
<1>1. ASSUME settled, Busy = {}
      PROVE  /\ \A d \in Decls : stored[d] \in LiveChannel /\ channel[stored[d]] = d
             /\ \A d \in Views : \E m \in Fetched(d) : message[m].pinned /\ message[m].view = d
  <2>1. \A c \in Callers : pc[c] = "idle" /\ todo[c] = {} /\ at[c] = None
    BY <1>0, <1>1, IdleRests DEF Busy
  <2>2. /\ \A d \in Decls : Placed(d)
        /\ \A d \in Views : Pinned(d) \/ \E c \in Callers : d \in todo[c] \/ at[c] = d
    BY <1>1, <2>1 DEF SurfacesInv, Settling
  <2>3. \A d \in Views : Pinned(d) /\ d \in Decls BY <2>1, <2>2, Apart DEF Views
  <2>4. \A d \in Decls : stored[d] \in LiveChannel /\ channel[stored[d]] = d
    BY <1>0, <2>2, PlacedRightly DEF Placed
  <2>5. \A d \in Views : \E m \in Fetched(d) : message[m].pinned /\ message[m].view = d
    BY <1>0, <2>3, FetchedRightly DEF Pinned
  <2> QED BY <2>4, <2>5
<1>2. ASSUME ~ spoilt, NEW d \in Decls
      PROVE  /\ Cardinality({h \in LiveChannel : channel[h] = d}) <= 1
             /\ Cardinality({m \in LiveMessage : message[m].view = d}) <= 1
  <2>1. \A S : (\A x, y \in S : x = y) => Cardinality(S) <= 1
    <3> SUFFICES ASSUME NEW S, \A x, y \in S : x = y PROVE Cardinality(S) <= 1 OBVIOUS
    <3>1. CASE S = {} BY <3>1, FS_EmptySet
    <3>2. CASE S # {}
      <4>1. PICK x \in S : TRUE BY <3>2
      <4>2. S = {x} BY <4>1
      <4>3. Cardinality({x}) = 1 BY FS_Singleton
      <4> QED BY <4>2, <4>3
    <3> QED BY <3>1, <3>2
  <2> DEFINE H == {h \in LiveChannel : channel[h] = d}
  <2> DEFINE M == {m \in LiveMessage : message[m].view = d}
  <2>2. \A x, y \in H : x = y BY <1>2, OneChannel
  <2>3. \A x, y \in M : x = y BY <1>2, OneMenu
  <2> QED BY <2>1, <2>2, <2>3
<1> QED BY <1>1, <1>2 DEF Healed

\* After a sync that nothing disturbed every channel lives where the store says
\* and every menu is pinned under the identifier it is looked up by; and while
\* no call failed, overlapped another or was cut off no channel and no menu is
\* made twice: for every set of declarations, channels, messages and callers.
THEOREM SurfacesHeal == SurfacesSpec => []Healed
<1>1. SurfacesInit => SurfacesInv BY SurfacesInvInit, SurfacesAssumption
<1>2. SurfacesInv /\ [SurfacesNext]_surfaceVars => SurfacesInv'
  BY SurfacesInvStep, SurfacesAssumption
<1>3. SurfacesInv => Healed BY InvHeals, SurfacesAssumption
<1> QED BY <1>1, <1>2, <1>3, PTL DEF SurfacesSpec
=============================================================================
