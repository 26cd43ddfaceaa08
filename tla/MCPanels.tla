------------------------------ MODULE MCPanels ------------------------------
(***************************************************************************)
(* Model-checking instance of what people are shown and act through: the   *)
(* profile of a user, the forms through which operators edit the map       *)
(* pools, the reports of failures, and the bot's process, with one guild   *)
(* and two languages of the operator ("menu") and with two guilds and one  *)
(* language ("boot").  They share no state, so each behaviour is one of a  *)
(* single component, the others keeping their initial states.              *)
(***************************************************************************)
EXTENDS BotProcess, ProfilePanel, PoolPanels, ErrorReports, TLC

CONSTANTS x1, x4, q1, q2, map1, map2, g1, g2, g3, en, fr

VARIABLE running  \* the component whose behaviour this is

\* aoe2insights knows x1 as x4.
ByName == x4 :> x1

Menu == INSTANCE BotProcess WITH Guilds <- {g1}
Boot == INSTANCE BotProcess WITH Guilds <- {g2, g3}, Locales <- {en}

ASSUME PanelsAssumption == Menu!BotProcessAssumption /\ Boot!BotProcessAssumption

allVars == <<running, profileVars, operatorVars, botVars, reportVars>>

Symmetry == Permutations(Tasks) \cup Permutations(Views) \cup Permutations({g2, g3})

\* A frozen component is in one of its initial states.
Init ==
  /\ running \in {"profile", "operator", "menu", "boot", "reports"}
  /\ ProfileInit /\ OperatorInit /\ ReportsInit
  /\ \/ pools = (q1 :> Fresh({map1, map2}) @@ q2 :> Nil)
     \/ running = "operator" /\ pools = (q1 :> Fresh({map1}) @@ q2 :> Fresh({map2}))
  /\ IF running = "boot" THEN Boot!BotInit
     ELSE Menu!BotInit /\ (running = "menu" \/ (inside = {} /\ lang = en))

Next ==
  /\ UNCHANGED running
  /\ \/ running = "profile" /\ ProfileNext /\ UNCHANGED <<operatorVars, botVars, reportVars>>
     \/ running = "operator" /\ OperatorNext /\ UNCHANGED <<profileVars, botVars, reportVars>>
     \/ running = "menu" /\ Menu!BotNext /\ UNCHANGED <<profileVars, operatorVars, reportVars>>
     \/ running = "boot" /\ Boot!BotNext /\ UNCHANGED <<profileVars, operatorVars, reportVars>>
     \/ running = "reports" /\ ReportsNext /\ UNCHANGED <<profileVars, operatorVars, botVars>>

Spec == Init /\ [][Next]_allVars

=============================================================================
