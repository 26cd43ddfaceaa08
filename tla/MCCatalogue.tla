---------------------------- MODULE MCCatalogue ----------------------------
(***************************************************************************)
(* Model-checking instance of what keeps the catalogue of a game: its      *)
(* store, the forums that mirror it, the refresh of its content, the       *)
(* source of its maps, with one caller ("alone") and with two ("crowd"),   *)
(* and the texts of the maps.  They share no state here, so each behaviour *)
(* is one of a single component, the others keeping their initial states.  *)
(***************************************************************************)
EXTENDS GameData, GameForums, ContentRefresh, MapSource, MapContent, TLC

CONSTANT Loner

VARIABLE running  \* the component whose behaviour this is

OneRequest == [import |-> <<"parse">>, sync |-> <<"query">>]
ThreeQueries == [import |-> <<"parse">>, sync |-> <<"query", "query", "query">>]
TwoAndOne == [parse |-> 2, query |-> 1]

\* One caller, time enough for the window of the circuit to double twice; and two
\* callers that both have requests left when the circuit opens.
Alone == INSTANCE MapSource WITH
  Askers <- {Loner}, Requests <- OneRequest,
  Window <- 2, MaxWindow <- 4, MaxTime <- 11, MaxJobs <- 3, MaxErrors <- 4
Crowd == INSTANCE MapSource WITH
  Askers <- Callers, Requests <- ThreeQueries, Window <- 3, MaxWindow <- 6, MaxTime <- 8, MaxJobs <- 2,
  MaxErrors <- 2

\* Two tasks, on pages that are read in each way and change, with calls that fail; and,
\* with a cache ("cached"), three tasks on pages read in process.
Pair == INSTANCE MapContent WITH MaxWork <- 2, MaxEdits <- 1, MaxBreaks <- 1

ASSUME CatalogueAssumption == Alone!MapSourceAssumption /\ Crowd!MapSourceAssumption

allVars == <<running, dataVars, forumsVars, refreshVars, sourceVars, contentVars>>
Symmetry == Permutations(Callers) \cup Permutations(Pools)

Init ==
  /\ running \in {"data", "forums", "refresh", "alone", "crowd", "texts", "cached"}
  /\ DataInit /\ ForumsInit /\ RefreshInit /\ (running = "refresh" \/ present = {})
  /\ IF running = "crowd" THEN Crowd!SourceInit ELSE Alone!SourceInit
  /\ IF running = "texts" THEN Pair!ContentInit ELSE ContentInit
  /\ (running = "cached" => caching) /\ (running \notin {"texts", "cached"} => ~caching)
  /\ IF running = "texts" /\ ~caching THEN page = [m \in Pages |-> 1]
     ELSE access = "direct" /\ rich = {} /\ page = [m \in Pages |-> IF running = "texts" THEN 2 ELSE 1]

Next ==
  /\ UNCHANGED running
  /\ \/ running = "data" /\ DataNext /\ UNCHANGED <<forumsVars, refreshVars, sourceVars, contentVars>>
     \/ running = "forums" /\ ForumsNext /\ UNCHANGED <<dataVars, refreshVars, sourceVars, contentVars>>
     \/ running = "refresh" /\ RefreshNext /\ UNCHANGED <<dataVars, forumsVars, sourceVars, contentVars>>
     \/ running = "alone" /\ Alone!SourceNext /\ UNCHANGED <<dataVars, forumsVars, refreshVars, contentVars>>
     \/ running = "crowd" /\ Crowd!SourceNext /\ UNCHANGED <<dataVars, forumsVars, refreshVars, contentVars>>
     \/ running = "texts" /\ Pair!ContentNext /\ UNCHANGED <<dataVars, forumsVars, refreshVars, sourceVars>>
     \/ running = "cached" /\ ContentNext /\ UNCHANGED <<dataVars, forumsVars, refreshVars, sourceVars>>

Spec == Init /\ [][Next]_allVars

=============================================================================
