----------------------------- MODULE BotProcess -----------------------------
(***************************************************************************)
(* The bot's process from its first ready event on: what KingdomsBot does  *)
(* at every ready event (the gateway sends one at each new identification, *)
(* and each is a task of its own), what it does once per process, and the  *)
(* menu that the boot delivers to an operator's DM, which follows the      *)
(* language picked there.  One operator; announcements are enabled.        *)
(* A name ending in _bug is a mutated form.                                *)
(***************************************************************************)
EXTENDS Naturals

CONSTANTS
  Guilds, Locales,
  Handlers,     \* the ready events there may be
  None,
  MaxMishaps    \* bound on the calls that fail

ASSUME BotProcessAssumption == None \notin Handlers \cup Nat /\ MaxMishaps \in Nat

VARIABLES
  inside,    \* the guilds the bot is in
  arrivals,  \* the guilds whose join event is still to be handled
  docs,      \* the guilds with an access document
  ready,     \* per ready event: its step, the guilds still to ensure, and
             \* the language of the menu being made
  provisioned, synced,  \* the flags of the process
  commands,  \* whether Discord holds the commands
  pass,      \* the provisioning pass: whether it runs, the guilds of its start,
             \* those still to do, and those it failed for
  routed,    \* the guilds whose managed channels it routed
  lang,      \* the operator's stored language
  menus,     \* per ready event: the language of the menu it sent
  tracked,   \* the menu the process knows
  pick,      \* the submit of the language form: its step, the menu it will edit, and
             \* the language it renders
  missed,    \* history: guilds whose document a call failed to make
  passes,    \* history: how many provisioning passes began
  drift,     \* history: the menu is not expected to follow
  mishaps

guildVars == <<inside, arrivals, docs>>
bootVars == <<provisioned, synced, commands, pass, routed, passes>>
menuVars == <<lang, menus, tracked, drift>>
botVars == <<guildVars, bootVars, menuVars, ready, pick, missed, mishaps>>

Unread == [at |-> "idle", todo |-> {}, loc |-> None]
NoPass == [on |-> FALSE, of |-> {}, todo |-> {}, failed |-> {}]
NoPick == [at |-> "idle", on |-> None, loc |-> None]

BotInit ==
  /\ inside \in SUBSET Guilds /\ arrivals = {} /\ docs \in SUBSET inside
  /\ ready = [h \in Handlers |-> Unread] /\ pick = NoPick
  /\ provisioned = FALSE /\ synced = FALSE /\ commands = FALSE
  /\ pass = NoPass /\ routed = {} /\ passes = 0
  /\ lang \in Locales
  /\ menus = [h \in Handlers |-> None] /\ tracked = None
  /\ missed = {} /\ drift = FALSE /\ mishaps = 0

Mishap == mishaps < MaxMishaps /\ mishaps' = mishaps + 1
Go(h, at) == ready' = [ready EXCEPT ![h].at = at]
Delivering == \E h \in Handlers : ready[h].at \in {"send", "track"}

-----------------------------------------------------------------------------
(* The guilds.                                                              *)

GuildJoins(g) ==
  /\ g \notin inside /\ inside' = inside \cup {g} /\ arrivals' = arrivals \cup {g}
  /\ UNCHANGED <<docs, bootVars, menuVars, ready, pick, missed, mishaps>>

\* Its document stays.
GuildLeaves(g) ==
  /\ g \in inside /\ inside' = inside \ {g}
  /\ UNCHANGED <<arrivals, docs, bootVars, menuVars, ready, pick, missed, mishaps>>

\* ensure_known of one guild; a failure is passed over.
Ensured(g) ==
  \/ docs' = docs \cup {g} /\ UNCHANGED <<missed, mishaps>>
  \/ Mishap /\ missed' = missed \cup {g} /\ UNCHANGED docs

OnGuildJoin(g) ==
  /\ g \in arrivals /\ arrivals' = arrivals \ {g} /\ Ensured(g)
  /\ UNCHANGED <<inside, bootVars, menuVars, ready, pick>>

-----------------------------------------------------------------------------
(* A ready event.                                                           *)

OnReady(h) ==
  /\ ready[h].at = "idle"
  /\ ready' = [ready EXCEPT ![h].at = "known", ![h].todo = inside]
  /\ UNCHANGED <<guildVars, bootVars, menuVars, pick, missed, mishaps>>

EnsureKnown(h, g) ==
  /\ ready[h].at = "known" /\ g \in ready[h].todo /\ Ensured(g)
  /\ ready' = [ready EXCEPT ![h].todo = @ \ {g}]
  /\ UNCHANGED <<inside, arrivals, bootVars, menuVars, pick>>

\* The operator is greeted, in a DM that may be closed, and the menu built for
\* the stored language.
Announce(h) ==
  /\ ready[h].at = "known" /\ ready[h].todo = {}
  /\ drift' = (drift \/ pick.at # "idle")
  /\ \/ ready' = [ready EXCEPT ![h].at = "send", ![h].loc = lang] /\ UNCHANGED mishaps
     \/ Mishap /\ Go(h, "start")
  /\ UNCHANGED <<guildVars, bootVars, lang, menus, tracked, pick, missed>>

SendMenu(h) ==
  /\ ready[h].at = "send"
  /\ \/ menus' = [menus EXCEPT ![h] = ready[h].loc] /\ Go(h, "track") /\ UNCHANGED mishaps
     \/ Mishap /\ Go(h, "start") /\ UNCHANGED menus
  /\ UNCHANGED <<guildVars, bootVars, lang, tracked, drift, pick, missed>>

\* It was pinned, or could not be; only the last menu is known.
TrackMenu(h) ==
  /\ ready[h].at = "track" /\ tracked' = h /\ Go(h, "start")
  /\ UNCHANGED <<guildVars, bootVars, lang, menus, drift, pick, missed, mishaps>>

\* The pass begins once per process: the flag is set before anything is awaited.
Begins_bug == ~pass.on
Begins == ~provisioned

Start(h) ==
  /\ ready[h].at = "start"
  /\ IF Begins
     THEN /\ provisioned' = TRUE /\ passes' = passes + 1
          /\ pass' = [NoPass EXCEPT !.on = TRUE, !.of = inside, !.todo = inside]
     ELSE UNCHANGED <<provisioned, pass, passes>>
  /\ synced' = TRUE /\ Go(h, IF synced THEN "over" ELSE "sync")
  /\ UNCHANGED <<guildVars, commands, routed, menuVars, pick, missed, mishaps>>

\* A failed sync is left to the next ready event.
AfterFailure_bug == synced
AfterFailure == FALSE

SyncCommands(h) ==
  /\ ready[h].at = "sync" /\ Go(h, "over")
  /\ \/ commands' = TRUE /\ UNCHANGED <<synced, mishaps>>
     \/ Mishap /\ synced' = AfterFailure /\ UNCHANGED commands
  /\ UNCHANGED <<guildVars, provisioned, pass, routed, passes, menuVars, pick, missed>>

-----------------------------------------------------------------------------
(* The provisioning pass: the managed channels of a guild, then its surfaces *)
(* (the module Surfaces); neither failing ends the pass.                     *)

\* The guilds still to do after one that failed, or did not.
LeftAfter_bug(g, fails) == IF fails THEN {} ELSE pass.todo \ {g}
LeftAfter(g, fails) == pass.todo \ {g}

RouteGuild(g) ==
  /\ pass.on /\ g \in pass.todo
  /\ \/ /\ pass' = [pass EXCEPT !.todo = LeftAfter(g, FALSE)]
        /\ routed' = routed \cup {g} /\ UNCHANGED mishaps
     \/ /\ pass' = [pass EXCEPT !.todo = LeftAfter(g, TRUE), !.failed = @ \cup {g}]
        /\ Mishap /\ UNCHANGED routed
  /\ UNCHANGED <<guildVars, provisioned, synced, commands, passes, menuVars, ready, pick, missed>>

PassEnds ==
  /\ pass.on /\ pass.todo = {} /\ pass' = [pass EXCEPT !.on = FALSE]
  /\ UNCHANGED <<guildVars, provisioned, synced, commands, routed, passes, menuVars, ready, pick,
                 missed, mishaps>>

-----------------------------------------------------------------------------
(* The operator's language.                                                 *)

\* Any interaction tells the language of the client, and it is stored.
ObserveLocale(l) ==
  /\ l # lang /\ lang' = l /\ drift' = TRUE
  /\ UNCHANGED <<guildVars, bootVars, menus, tracked, ready, pick, missed, mishaps>>

\* The form is submitted: the choice is stored, then the known menu rendered anew.
PickLanguage(l) ==
  /\ pick.at = "idle" /\ lang' = l /\ drift' = Delivering
  /\ pick' = IF tracked = None THEN NoPick ELSE [NoPick EXCEPT !.at = "build", !.on = tracked]
  /\ UNCHANGED <<guildVars, bootVars, menus, tracked, ready, missed, mishaps>>

\* The language a menu is rendered in, at its refresh.
Rendered_bug == menus[pick.on]
Rendered == lang

PickBuilds ==
  /\ pick.at = "build" /\ pick' = [pick EXCEPT !.loc = Rendered, !.at = "edit"]
  /\ UNCHANGED <<guildVars, bootVars, menuVars, ready, missed, mishaps>>

PickEdits ==
  /\ pick.at = "edit" /\ pick' = NoPick
  /\ \/ menus' = [menus EXCEPT ![pick.on] = pick.loc] /\ UNCHANGED <<drift, mishaps>>
     \/ Mishap /\ drift' = TRUE /\ UNCHANGED menus
  /\ UNCHANGED <<guildVars, bootVars, lang, tracked, ready, missed>>

BotNext ==
  \/ \E g \in Guilds : GuildJoins(g) \/ GuildLeaves(g) \/ OnGuildJoin(g) \/ RouteGuild(g)
  \/ \E h \in Handlers :
       \/ OnReady(h) \/ \E g \in Guilds : EnsureKnown(h, g)
       \/ Announce(h) \/ SendMenu(h) \/ TrackMenu(h)
       \/ Start(h) \/ SyncCommands(h)
  \/ PassEnds \/ \E l \in Locales : ObserveLocale(l) \/ PickLanguage(l)
  \/ PickBuilds \/ PickEdits

BotSpec == BotInit /\ [][BotNext]_botVars

-----------------------------------------------------------------------------
Steps == {"idle", "known", "send", "track", "start", "sync", "over"}

BotTypeOK ==
  /\ inside \subseteq Guilds /\ arrivals \subseteq Guilds /\ docs \subseteq Guilds
  /\ ready \in [Handlers -> [at : Steps, todo : SUBSET Guilds, loc : Locales \cup {None}]]
  /\ provisioned \in BOOLEAN /\ synced \in BOOLEAN /\ commands \in BOOLEAN /\ drift \in BOOLEAN
  /\ pass \in [on : BOOLEAN, of : SUBSET Guilds, todo : SUBSET Guilds, failed : SUBSET Guilds]
  /\ routed \subseteq Guilds /\ passes \in Nat
  /\ lang \in Locales /\ menus \in [Handlers -> Locales \cup {None}]
  /\ tracked \in Handlers \cup {None}
  /\ pick \in [at : {"idle", "build", "edit"}, on : Handlers \cup {None}, loc : Locales \cup {None}]
  /\ missed \subseteq Guilds /\ mishaps \in Nat

\* However many ready events there are and however they interleave: the flag
\* stands for commands Discord holds or a sync under way; there is one
\* provisioning pass at most; each guild of its start is still to do, routed or
\* one the pass failed for, and when it is over none is still to do; and once a
\* ready event and the join events are handled every guild the bot is in is a
\* known one ("stays coherent": sync_known_guilds).
Booted ==
  /\ synced => commands \/ \E h \in Handlers : ready[h].at = "sync"
  /\ passes < 2
  /\ pass.of \subseteq pass.todo \cup routed \cup pass.failed
  /\ ~pass.on => pass.todo = {}
  /\ (\E h \in Handlers : ready[h].at \notin {"idle", "known"}) /\ arrivals = {}
       => inside \subseteq docs \cup missed

\* The menu the process knows is in the operator's stored language, unless that
\* was observed rather than picked, a delivery met the pick or an edit failed
\* (_rerender_dm_menu: "their language changed").
MenuFollows ==
  pick.at = "idle" /\ ~Delivering /\ tracked # None /\ ~drift => menus[tracked] = lang

\* However ready events overlap, the process boots once and completely, and the
\* operator's menu is in the language that was picked (on_ready, LanguageModal).
BotSettles == Booted /\ MenuFollows
=============================================================================
