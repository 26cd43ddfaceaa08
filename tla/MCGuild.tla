------------------------------ MODULE MCGuild ------------------------------
(***************************************************************************)
(* Model-checking instance of what the bot keeps up in the guilds: its     *)
(* channels and menus, its roles, the cards of live matches, the last ones *)
(* with two feeds or one, one guild or two, players of one match or two.   *)
(* They share no state here, so each behaviour is one of a single          *)
(* component, the others keeping their initial states.                     *)
(***************************************************************************)
EXTENDS Surfaces, Roles, MCLiveCards, TLC

CONSTANTS
  Played,           \* the two matches, where there are two
  g1, g2, p1, p2, f1, en

VARIABLE running    \* the component whose behaviour this is

\* One feed of two guilds; a player both have, and one that only the first has.
Single == INSTANCE LiveCards WITH
  Guilds <- {g1, g2}, Players <- {p1, p2}, Feeds <- {f1},
  Member <- (g1 :> {p1, p2}) @@ (g2 :> {p1})

\* One feed of one guild; its two players meet in two matches.
Meeting == INSTANCE LiveCards WITH
  Players <- {p1, p2}, Feeds <- {f1}, Matches <- Played,
  Member <- g1 :> {p1, p2}, MaxQueue <- 1

\* One feed that falls behind by as many transitions as one game tells of.
Behind == INSTANCE LiveCards WITH Feeds <- {f1}, Matches <- Played, MaxQueue <- 3

ASSUME GuildAssumption ==
  Single!CardsAssumption /\ Meeting!CardsAssumption /\ Behind!CardsAssumption

allVars == <<running, surfaceVars, roleVars, cardVars>>

Symmetry == Permutations(Callers) \cup Permutations(Channels) \cup Permutations(Played)

Init ==
  /\ running \in {"surfaces", "roles", "feeds", "single", "meeting", "behind"}
  /\ SurfacesInit /\ language = en /\ RolesInit
  /\ CASE running = "single" -> Single!CardsInit
       [] running = "meeting" -> Meeting!CardsInit
       [] running = "behind" -> Behind!CardsInit
       [] OTHER -> CardsInit

Next ==
  /\ UNCHANGED running
  /\ \/ running = "surfaces" /\ SurfacesNext /\ UNCHANGED <<roleVars, cardVars>>
     \/ running = "roles" /\ RolesNext /\ UNCHANGED <<surfaceVars, cardVars>>
     \/ running = "feeds" /\ CardsNext /\ UNCHANGED <<surfaceVars, roleVars>>
     \/ running = "single" /\ Single!CardsNext /\ UNCHANGED <<surfaceVars, roleVars>>
     \/ running = "meeting" /\ Meeting!CardsNext /\ UNCHANGED <<surfaceVars, roleVars>>
     \/ running = "behind" /\ Behind!CardsNext /\ UNCHANGED <<surfaceVars, roleVars>>

Spec == Init /\ [][Next]_allVars
=============================================================================
