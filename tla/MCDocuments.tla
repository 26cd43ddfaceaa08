---------------------------- MODULE MCDocuments ----------------------------
(***************************************************************************)
(* Model-checking instance of what is read in one call and written in a    *)
(* later one: the access of a guild, the settings, the bindings of         *)
(* profiles, the log channel, and the caches the players panels are drawn  *)
(* from, two panels at once over one user ("overlap") and one over two     *)
(* ("several").  They share no state, so each behaviour is one of a single *)
(* component, the others keeping their initial states.                     *)
(***************************************************************************)
EXTENDS GuildAccess, Settings, Registration, LogsChannel, PlayersPanel, TLC
CONSTANTS c1, c2, en, fr, m1, m2, m3, on, u1, u2, u3, p1, p2, v1, v2, v3, panel1, r1

Op(d, f, k, v) == [doc |-> d, field |-> f, kind |-> k, value |-> v]

\* Picks for the guild and the user, three members and two languages seen, a
\* switch, and the language of the user's client.
SomeOps ==
  {Op("guild", "locale", "pick", l) : l \in {en, fr}}
    \cup {Op("guild", "members", "observe", <<m1, fr>>), Op("guild", "members", "observe", <<m1, en>>),
          Op("guild", "members", "observe", <<m2, fr>>), Op("guild", "members", "observe", <<m3, fr>>),
          Op("guild", "readonly", "pick", on), Op("user", "locale", "pick", fr),
          Op("user", "locale", "observe", en), Op("user", "site", "pick", on)}

\* Single links, a profile named twice, two users' links, a user's two links.
SomeFiles ==
  {<<>>, <<<<u1, p1>>>>, <<<<u1, p1>>, <<u2, p1>>>>, <<<<u2, p1>>, <<u1, p2>>, <<u1, p1>>>>,
   <<<<u3, p2>>, <<u3, p1>>>>}

\* Callers, Handlers and Tasks are the same tasks of the bot, and they draw the panels;
\* the channels are two of the users viewed, to be permuted with them.
Symmetric == Permutations(Callers) \cup Permutations(Channels)

VARIABLE running    \* the component whose behaviour this is

Overlap == INSTANCE PlayersPanel WITH Viewed <- {v3}, Panels <- Callers
Several == INSTANCE PlayersPanel WITH
  Viewed <- {v1, v2}, Panels <- {panel1}, MaxMoves <- 2, MaxPlays <- 0, MaxMishaps <- 0

ASSUME PanelsAssumption == Overlap!PlayersPanelAssumption /\ Several!PlayersPanelAssumption

allVars == <<accessVars, settingsVars, registrationVars, logsVars, panelVars, running>>

Init ==
  /\ AccessInit /\ SettingsInit /\ RegistrationInit /\ LogsInit
  /\ running \in {"access", "settings", "registration", "logs", "overlap", "several"}
  /\ IF running = "several" THEN Several!PanelsInit
     ELSE Overlap!PanelsInit /\ (running = "overlap" \/ members = {})

\* What is said of the bindings ends with the first overlap, and so do they.  Once
\* operations on the log channel overlapped and something failed or was deleted,
\* those under way go on and no other begins.
NothingBegins == \A t \in Tasks : work[t] = NoWork => work'[t] = NoWork
Next ==
  /\ UNCHANGED running
  /\ \/ running = "access" /\ AccessNext /\ UNCHANGED <<settingsVars, registrationVars, logsVars, panelVars>>
     \/ running = "settings" /\ SettingsNext /\ UNCHANGED <<accessVars, registrationVars, logsVars, panelVars>>
     \/ /\ running = "registration" /\ ~crossed /\ RegistrationNext
        /\ UNCHANGED <<accessVars, settingsVars, logsVars, panelVars>>
     \/ /\ running = "logs" /\ LogsNext
        /\ overlapped /\ (faults > 0 \/ alive # Channels) => NothingBegins
        /\ UNCHANGED <<accessVars, settingsVars, registrationVars, panelVars>>
     \/ /\ running = "overlap" /\ Overlap!PanelsNext
        /\ UNCHANGED <<accessVars, settingsVars, registrationVars, logsVars>>
     \/ /\ running = "several" /\ Several!PanelsNext
        /\ UNCHANGED <<accessVars, settingsVars, registrationVars, logsVars>>

Spec == Init /\ [][Next]_allVars
=============================================================================
