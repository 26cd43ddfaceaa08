# Kingdoms: the verification project

TLA+ models of the parts of `kingdoms-services` whose correctness depends on
the order of things: coroutines that interleave at every `await`, processes
that restart, streams and answers that get lost, documents that are read in one
call and replaced in another, forms that show what was stored a while ago. TLC
checks the models on small instances, TLAPS proves theorems about them for every
instance.

1. [The system](#1-the-system)
2. [The modules](#2-the-modules)
3. [The runs](#3-the-runs)
4. [Fairness](#4-fairness)
5. [What is proved](#5-what-is-proved)
6. [Where the code falls short](#6-where-the-code-falls-short)
7. [What is not modelled](#7-what-is-not-modelled)
8. [Plan](#8-plan)

Paths are relative to `src/src/kingdoms/`.

## 1. The system

Four kinds of processes, with MongoDB and Redis behind them:

```
 Discord --- bot (discord/, core/services/) ---+--- MongoDB, Redis
                |                              |
                | RPC                          |
             svc-core (core_process/) ---------+
                |  enrollments: profile ids and their users
             game-aoe2 (game_aoe2/) -----------+
                |  subscriptions          ^  match events (stream)
             ext-aoe2lobby (ext_aoe2lobby/) --- WebSocket --- aoe2lobby server
             ext-librematch, content providers (stateless)
```

Every process is one asyncio loop. A coroutine keeps the loop until it awaits
something, so between two awaits nothing else of the process runs, and at each
await everything else may. Only the workflow engine and the entity forums take
a lock. MongoDB documents are replaced whole; Redis keys have TTLs.

| Component | State | Operations | What is hard | What must hold |
|---|---|---|---|---|
| Workflow engine `core/services/workflow.py` | a document per instance in MongoDB, a hot copy and a lock in Redis, step timers in memory | start, handle an interaction, cancel, time out, resume after a restart | the lock's TTL, four separate writes per transition, timers that die with the process, cancel without the lock | at most one driver per instance; an ended instance stays ended; a live one has a timer; COMPLETED only with its binding; every instance ends |
| Registration workflow `core/workflows/registration.py` | none of its own | the steps that the engine drives | writes the binding before the transition is saved | as above |
| Notification delivery `core/services/delivery.py` | per destination: pending payloads, order of keys, backoff | enqueue, drain | enqueues and other drains during the await of a send, failed sends put back | nothing lost, last payload wins, FIFO, eventually delivered |
| Lobby adapter `ext_aoe2lobby/adapter.py` | matches per context, fingerprints, recorded status per player, pending closes | apply a frame, reconnect, sweep closes, replace the filter | a departure and a launch look the same for a while; frames lost on reconnects | the events tell the truth in the end, no false offline |
| Provider hub, consumer, aggregator `ext_aoe2lobby/server.py`, `game_aoe2/` | queues of the hub, the states in memory and in `player_state`, a degraded flag | publish, handshake, consume, persist, health check | lost streams, restarts on both sides, replayed handshakes, failed writes | the stored states mirror the adapter's |
| Enrollment sync `core_process/server.py`, `game_aoe2/server.py` | ids last pushed, the roster, the provider's filter | load, compare, push, acknowledge | three processes that restart, two calls that fail or lose their answer | what is taken as pushed is served; the loop retries |
| Guild access `core/services/guild_access.py` | one document per guild: grants and waiting requests | request, approve, deny, grant, revoke, ensure | read and write are separate calls; requests are keyed by second | grants and requests are what was decided; no key waits twice |
| Profile registration and import `core/services/registration.py`, `identity_import.py` | bindings of users and profiles | bind, unlink, import a file of links | check-then-write without a unique index; an import that dies half-way | one owner per profile; the last import wins; names survive it |
| Profile menu `discord/home.py`, `core/services/identity.py` | ephemeral views, open forms, the user's document | open, link, unlink, rename, dismiss | several forms under way, a view that was opened before a change, failed calls half-way | a view shows the profile as stored; a saved name stays |
| Players panels `discord/member_cache.py`, `core/services/profile_stats.py`, `discord/live.py` | the roster of a guild, the statistics in Redis and MongoDB, background jobs | open a panel, join and leave events, ask the provider | a fetch that events fall into, two readers of one cache, failed writes | the roster follows the guild; Redis serves what MongoDB holds |
| Settings `core/services/logs.py`, `discord/home.py`, `discord/pinned_views.py` | a document per guild and per user | pick a language, observe languages, switch read-only, pick a site | every writer replaces the document it read; a failed read looks empty | a write keeps the other fields; the member store is bounded |
| Log channel `core/services/logs.py`, `discord/logs_platform.py` | the routed channel in Redis and MongoDB, the policy on record, the overwrites on Discord | set visibility, reset, grant a role, re-route, send an event | a record and several platform calls per operation; deleted channels; stale cache | the channel shows the recorded policy; the bot sees it; a live route is kept |
| Managed channels `core/services/managed_channel.py`, `admin_channel.py`, `home.py` | the channel in Redis, in MongoDB and, by its name, in Discord | resolve (adopt or create), route, deliver | two resolutions at once, a restart after the creation | one channel of the name; the cache agrees with the record |
| Channels and pinned menus `discord/admin_tree.py`, `discord/static_pins.py`, `discord/ui/delivery.py`, `core/services/message_registry.py` | the declared channels and their record, messages, their registry with cache and memory | provision a tree, ensure the pins | a crash or a refused call between a creation and its record; overlapping syncs; stale cache | an undisturbed sync heals everything and duplicates nothing |
| Roles `core/services/roles.py`, `discord/roles_platform.py`, `admin_channel.py` | roles of the guild, mappings in MongoDB, ids in Redis | provision, resolve, grant, sync the holders | roles deleted or renamed behind the cache, failed reads and writes | setup heals; a name is created once; operators hold the role |
| Live cards `discord/live_activity.py`, `discord/player_status.py` | cards of running matches, in memory | serve a transition in each guild, write the result, expire | an await between the look-up and the send, guilds in turn, streams that break, a second feed | one message per guild and match; a card is closed by its own match |
| Game data store `core/services/game_data.py` | maps and map pools, whole documents | create, edit, publish, use, close, archive, delete | checks in other documents than the one written; two administrators | unique names, bounds, no pool of unknown maps, a used pool is frozen |
| Entity forums `core/services/entity_forum.py`, `discord/maps_forum.py`, `pools_forum.py`, `factions_forum.py` | posts on Discord, links in documents, fingerprints in memory | a pass over a forum, refreshes beside it | refreshes outside the lock, edits that fail, posts that vanish | one post per entry, showing what is stored |
| Catalogue flows `discord/maps_pool_flow.py`, `admin_panel_games.py` | open forms, work in progress | edit, compose, import, delete, refresh | a form older than the catalogue, several saves per submit | only what was asked changes; posts follow |
| Content refresh `core/games/aoe2/content_refresh.py` | ids, references and texts of the catalogue | migrate, create, store texts | crash or refusal between documents, two refreshes | nothing lost; a later refresh heals |
| Map source `mapsdata/liquipedia.py` | clocks, streak and circuit of a process | import a map or a list, enrich all | worker threads that nothing serializes, refusals, retries | requests keep their distance; the circuit stops the jobs |
| Bot process `discord/bot/factory.py`, `discord/admin_dm_panel.py` | what was started, known guilds, the operator's menu | ready events, joins, language picks | every re-identification is another ready event; a picked language and an observed one | boots once and completely; the menu follows the pick |

How they interact: the bot's registration writes the bindings that the
enrollment sync reads; the sync's filter decides whom the lobby adapter
reports; the adapter's events travel through the hub to the aggregator, whose
`player_state` and transition stream feed the bot's panels and cards; the cards
and the service's own messages are routed through the log channel and the
managed channels. The catalogue flows write through the game data store and then
refresh the forums; the content refresh and the map source feed the store. The
bot process starts the feeds, the routing and the surfaces.

`PROJECT.json` lists every component with its sources and every hazard with the
line where it bites and the properties that would notice it.

## 2. The modules

| Module | Models | Checked by (configuration) |
|---|---|---|
| `WorkflowLifecycle` | the abstract promise: an instance is opened, is ended at most once, keeps the status it ended with | refined by `WorkflowEngine` |
| `WorkflowEngine` | the engine driving the registration workflow | `MCEngine`; `MCWorkflowEngine` (`MCEngineRaces`, `MCEngineCancelRace`) |
| `Delivery` | `NotificationPipeline` | `MCEngine` |
| `LobbyAdapter` | the world of the aoe2lobby server, its frames, the adapter | `MCLobbyAdapter` |
| `LiveFeed` | hub, handshake, consumer, aggregator, `player_state` | `MCServices` |
| `EnrollmentSync` | svc-core's loop, the roster, the provider's filter | `MCServices` |
| `ManagedChannel` | resolution and routing of a managed channel | `MCServices` |
| `GuildAccess` | the access document under overlapping callers | `MCDocuments` |
| `Registration` | binds, unlinks and the import over one collection | `MCDocuments` |
| `Settings` | the settings documents under overlapping writers | `MCDocuments` |
| `PlayersPanel` | the roster and the statistics the players panels draw | `MCDocuments` |
| `LogsChannel` | route, policy and overwrites of the log channel | `MCLogsChannel` |
| `GameData` | maps and pools in MongoDB, every check and write a step | `MCCatalogue`, `MCGameData` (`MCGameDataHistory`) |
| `GameForums` | the forum posts of maps, pools and factions | `MCCatalogue` |
| `ContentRefresh` | the migration and completion of the catalogue | `MCCatalogue` |
| `MapSource` | pace, retries and circuit of the Liquipedia client | `MCCatalogue` |
| `Surfaces` | the declared channels and pinned menus of a guild | `MCGuild` |
| `Roles` | the admin role and the declared roles of a guild | `MCGuild` |
| `LiveCards` | the cards of live matches | `MCGuild`, `MCLiveCards` (`MCLiveCardsClose`) |
| `ProfilePanel` | the profile of a user, its views and forms | `MCPanels` |
| `PoolPanels` | the forms through which operators edit the pools | `MCPanels` |
| `BotProcess` | ready events, the boot pass and the operator's menu | `MCPanels` |

`<Module>Proofs` holds the theorems of a module, `ServicesProofs` those of the
three of `MCServices`, `DocumentsProofs` those of `GuildAccess`, `Settings`,
`Registration` and `PlayersPanel`, `CatalogueProofs` those of `GameData`,
`GameForums`, `ContentRefresh` and `MapSource`, `BotProofs` those of `Delivery`,
`BotProcess`, `ProfilePanel` and `PoolPanels`, `GuildProofs` those of `Surfaces`, `Roles` and `LiveCards`. A
name that ends in `_bug`, `_skew` or `_lost` is a mutated form of the
definition next to it: a plausible mistake in that code. No specification uses
one; `PROJECT.json` ("mutants") says which property each of them violates, which
shows that the property does depend on the code.

### How state and actions correspond to the code

**Cut at the awaits.** An action is the code between two awaits of a
coroutine (or, in `EnrollmentSync`, one call to another process with what it
changes there). What a coroutine carries over an await is a variable: `task` in
the engine and `ProfilePanel`, `drain[p]` in `Delivery`, `held[c]` in
`GuildAccess`, `call[c]` in `Settings` and `LogsChannel`, `work[a]` in
`PoolPanels`, a program counter with what was read elsewhere. A restart resets
these and keeps what is in MongoDB, Redis and on Discord.

**WorkflowEngine.** `doc` is `workflow_states`, `hot` and `lock` the Redis
keys, `timers` the `_timeout` tasks, `phase` and `pending` the recovery of
`start()`. `Interact`, `TimerFires`, `RecoverOne` and `Resume` begin a drive:
take the lock (`SET NX`), `Read` the document, run the definition
(`DriveEntry`, `ProfileRefused`, `ProfileBinds` then `ProfileCompletes`,
`DriveTimeout`), then `_apply` as its four steps `Save`, `Mirror`, `Settle`
(timer) and `DropHot`, `Answer` and `Release`. `Cancel` goes straight to `Save`
with the document it read, since the code takes no lock there. `Fault` is an
awaited call that raises: the lock is released, the error shown.
`LockExpires` and `HotExpires` are the TTLs; `LockExpires` happens under a
running drive only when `SlowDrives` is TRUE.

**Delivery.** `queued` and `order` are `_DestinationState`; `Enqueue` is
synchronous in the code and atomic here. A `drain()` call is `Drain` (which
destinations it will visit), then per destination `Skip` or `Take` (the batch
leaves the state, the send is awaited) and `Sent` or `Failed` (the batch is put
back, the backoff armed). A payload is the number of its enqueue, which makes
"the latest" and "FIFO" comparable.

**LobbyAdapter.** The first part (`Open`, `Join`, `Leave`, `Setup`, `Launch`,
`Started`, `Over`) is the world, external to the repository, as the code and its
fixtures assume it. `Answer` and `Arrives` put frames in the session's queue,
`HandleFrame` folds the first one (`Reduce` for the touched players, closes
recorded as waiting), `GraceElapses` and `Sweep` report the closes,
`ServerCloses` and `Reconnect` drop the queue. `wire` chooses the traffic once,
in the first state: `"snapshots"` is what the server sends today (answers to
the polls), `"everything"` adds the pushed deltas the code also handles.

**LiveFeed.** `recorded` stands for the adapter; `link` is the stream with the
handshake events still to send; `Shake` reads them one step before `Subscribe`
registers the queue, as in the code. `Handle` applies an event in memory,
`Written` is the end of the awaited `player_state` write (or its failure),
after which the transition is queued (`said`).

**EnrollmentSync.** `Load`, `Rest`, `Push`, `Subscribed` are one tick. `Rest`
changes nothing: the probe of the code that should notice a restarted game
service only looks at the client it holds.

**GuildAccess, Settings.** `Read` computes the new document from the one that
is stored, `Write` replaces it. Whatever the other callers do in between is
what the code allows.

**Registration.** `FindOwner` then `Upsert` is `bind_profile`; the import is a
process of its own, `FindOwn`, `FindForeign`, `DeleteStale`, `Write` per link.
A binding is `"bare"` or `"named"` (with what the provider said of the profile).

**ProfilePanel.** A task is one interaction: it opens a view, opens a form from
a view (`task[t].on`), submits it, makes its calls one by one (`FindOwner`,
`Link`; `Unlink` per account; `GetUser`, `Resolve`, `Create`, `BindIdentity`,
`SetName`), reads the accounts and the header again and redraws the view the
form was opened from. The owner of other people's accounts is the constant
`Taken`: races between users are `Registration`'s.

**PlayersPanel.** `gateway` holds the join and leave events on their way,
`roster` is `member_cache`, `fetch` the shared request to Discord, `redis` and
`copy` the statistics. A panel reads (`ReadRedis`, `ReadCopy`, `Warm`), then
schedules a job that asks the provider and writes both caches.

**LogsChannel, ManagedChannel.** One action per awaited call: the record, the
cache, the resolution (cache, record, adoption by name, creation), then the
overwrites in the code's order. An administrator may delete or rename channels
at any time.

**Surfaces.** A sync resolves or creates the channels of a scope, one call each
(`Resolve`, `Create`), then persists all of them at once (`Persist`) and ensures
each menu: `Open` looks the known message up, `Edit`, or `Send`, `Pin` and
`Register`. The boot pass only ensures menus. Members delete and rename.

**Roles.** `Call` says what is asked for (the keys of the mods, the admin role,
the admin channel). `LookUp`, `CreateRole`, `Store`, `Cache` are the provisioning
of a role, `ServeRole` and `Policy` what the admin channel does with it;
`Answers` and `ResolveRole` are the resolution of a click, with `Fill` its cache
write.

**LiveCards.** `stream[f]` are the transitions on their way to a feed. `Take`
begins one, `ServeGuild` is one guild's turn for it, up to its first await;
`ResolveLogs` (the log channel is known, the message is read), `EditCard` and
`SendCard` follow. `Fetch`, `Apply` and `Expire` are the task that writes the
result. `Break` loses what was on its way, `Ready` is another ready event, which
starts another feed.

**GameData.** A call holds the document it read (`doc[c]`) while it makes its
checks in other documents (`Count`, `NameFree`, `LookUp`, `Unused`), then
`Write` replaces the document. A pool's identifier is the name it was created
under, which `Rename` leaves as it is.

**GameForums.** A pass (`Start`, `Visit` per entry, `Sweep`, `Finish`) holds the
guild's lock; `RefreshMap` and `RefreshPool` do not. `remembered` are the
fingerprints in memory, `link` the post ids in MongoDB. An edit is awaited, so
`Apply` comes a step after the fingerprint was compared.

**PoolPanels.** `form[a]` is what the operator has open, with the catalogue as
it was; a submit reads the catalogue again, `Save`s one pool after the other and
then refreshes the posts it believes it touched. The operations of the service
and the refresh of a post are one step each here; their inside is `GameData`'s
and `GameForums`'s.

**ContentRefresh.** `Scan`, then `RenameDoc` and `Drop` per document, `ReadRefs`
and `WriteRefs` for the references, then `NextFaction`, `CreateFaction`, `Text`.

**MapSource.** `Ask` looks at the circuit, `Mark` the clock of a kind, `Send` is
the request, `Success`, `Failure`, `Retry`, `Exhausted` its outcomes. Threads
interleave at each. Time is a counter that `Tick` moves.

**BotProcess.** A ready event is a task of its own: `OnReady`, `EnsureKnown` per
guild, `Announce`, `SendMenu`, `TrackMenu`, then `Start`, which begins the pass
once (`RouteGuild` per guild). `PickLanguage`, `PickBuilds`, `PickEdits` are the
language form of the operator.

### History variables and conditional properties

Some properties hold only until something happens that the code does not
guard against. The model contains that something, with everything that follows
from it, and remembers in a history variable that it happened. No guard of a
component reads a history variable.

| Variable | Set when | Then not promised |
|---|---|---|
| `Delivery.tangled` | on that destination a send failed that an enqueue had fallen into, or two sends were in flight | nothing lost, last payload, FIFO, delivery |
| `LobbyAdapter.left` | the player left a lobby that stayed open | that he is reported |
| `LiveFeed.missed` | a transition was published while the consumer was away or in the gap of the handshake, or a write failed | the mirror, for that player |
| `GuildAccess.lapped`, `crowded` | two callers overlapped; two requests fell into one second | grants, requests; requests |
| `EnrollmentSync.hurt` | a restart of a receiver, a removed binding | what the receiver serves |
| `Settings.hurt` | two operations on one document overlapped, or a read failed | the other fields |
| `Registration.crossed`, `LogsChannel.lapped`, `ManagedChannel.lapped` | an operation began before another was over | one owner, the last import; the policy shown; one channel |
| `PlayersPanel.missed`, `shared` | an event of that user fell into a fetch or was lost; two readers worked on that profile, or a write failed | the roster; the statistics |
| `ProfilePanel.outdated`, `lapped` | the change was made from another view, met another one or could not be drawn; a document was created while another interaction ran | that view; the saved name |
| `PoolPanels.stale`, `behind` | another operator saved since the form was opened; the flow leaves the post to the next sync | only what was asked; that post |
| `BotProcess.missed`, `drift` | a call failed for that guild; the language was observed, a delivery met the pick or an edit failed | that guild is known; the menu |
| `GameData.lapped`, `revived` | operations overlapped; a pool came back from the archive | the rules of the pools; frozen pools |
| `GameForums.calm`, `strayed` | (set by an undisturbed pass); a post was created and not recorded | exact mirror; one post per map |
| `Surfaces.settled`, `spoilt`, `Roles.healed`, `tainted`, `ContentRefresh.settled`, `spoilt` | (set by an undisturbed call, reset by whatever disturbs it); calls overlapped, failed or were cut off | healing; no doubles |
| `LiveCards.closed` | a card of that guild and match was closed | one message |
| `LiveCards.strayed` | the bot held a player to be in that match and lost a transition of his | who closed its card |
| `LiveCards.doubled` | two feeds ran at once | who closed a card; each feed may send a message of its own |
| `MapSource.overlapped` | two jobs ran at once | the intervals, the doubling windows |

Each condition names the events that produced counterexamples to the property
without it; section 6 lists them. `NoneForgotten` (its part on the hot copy),
`PolicyFollows` and `RouteKept` are also limited to behaviours without the
crashes or failed calls that the `crashes` and `faults` counters record. Other
properties have no condition: the exclusion of drives (with drives shorter than
the lock), `CompletedIsBound`, `OrderConsistent`, `BotSees`, `NoFalseOffline`,
`ToldIsRecorded`, `CacheSettles`, `NothingLost`, the circuit's part of `Paced`.

## 3. The runs

Components that share no state are checked together: the MC module holds the
variables of all of them and a variable `running`, chosen in the first state,
that says whose behaviour this is. The others keep one initial state, so the
reachable states are the union of those of the components, not their product,
and each component has its own bounds.

| Run | Instance | Shows |
|---|---|---|
| `engine` | the engine with 2 instances, 2 coroutines, 2 interactions and a crash, without declines, raised calls and drives that outlast the lock; the pipeline with 2 destinations, 2 keys, 2 drains and 3 enqueues | exclusion, the refinement of `WorkflowLifecycle`, nothing forgotten, termination; consistency of the order, nothing lost, delivery |
| `engine_races` | 1 instance, 2 coroutines, 3 interactions, declines, raised calls, expiring locks, a crash | COMPLETED implies bound |
| `engine_cancel_race` | 1 instance and declines | a violation: an ended instance is written again |
| `lobby` | 2 matches, 2 players, 5 changes on the wire as it is; 1 match, 1 player, 3 changes on the full protocol; 1 lost session | what the stream says is recorded, up to date and in the end true |
| `services` | the sync with 3 profiles, 2 users, 3 changes, 3 faults; the feed with 2 players, 2 matches, 3 transitions, 1 break; a managed channel with 2 callers, 3 channels (1 of another name), 2 routes, 1 crash or lost write | served, retried, converged; transitions and mirror; one channel, the cache |
| `documents` | access with 1 game, 1 mod, 2 callers, 2 seconds; settings with 2 callers, 2 languages, 3 members in a store of 2, 5 operations; bindings with 3 users, 2 profiles, 5 import files; panels twice over one user (`Overlap`, 1 mishap) and once over two (`Several`) | grants, requests, choice, owners, imports, names, rosters, statistics |
| `logs` | 2 callers, 2 channels, 1 role, 1 mishap | policy, visibility, route |
| `catalogue` | the store with 3 pools, 2 maps, 2 callers, room for 2 active pools, 5 calls; the forums with one entry of each kind, 3 threads, 3 passes, 2 changes, 1 fault; the refresh with 1 faction, 1 map, 2 callers, 3 refreshes, 1 fault, 1 edit; the map source with one caller until time 11 (`Alone`) and two until 8 (`Crowd`) | the rules of the pools, frozen pools, mirrored posts, healing, nothing lost, pace |
| `guild` | surfaces with a folder and a channel, 3 messages, 2 languages, 3 syncs, 1 fault, 2 changes; roles with one key, the admin role, an operator, 3 calls, 1 fault, 2 changes; cards with 2 feeds, 1 guild, 1 player, 1 match, with 2 guilds and 2 players, one of them in the first guild only (`Single`), with 2 players and 2 matches (`Meeting`), with a feed 3 transitions behind (`Behind`), 1 fault each | healing without doubles; one message per match until it is closed, closed by its own match |
| `panels` | the profile with 4 typed accounts (one another's, one an alias), 2 tasks, 2 views, 2 forms submitted, 1 failure; the operators' forms with 2 operators, 2 pools, 2 maps, 2 submits, 1 failure; the process with 1 guild and 2 languages (`Menu`) and with 2 guilds (`Boot`), 2 ready events at a time, 1 failure | views, names, posts, asked changes, boot and menu |
| `game_history` | 1 pool, 1 map, 1 caller, 5 calls | a violation: an archived pool is overwritten |
| `cards_close` | 1 feed, 2 guilds, 1 player, 1 match, no fault | a violation: a card stays live in the second guild |

**Why the bounds are enough.** Overlaps in this code are pairwise: a second
coroutine between a read and a write, a second drain beside a send, a second
resolution beside a creation. Two callers produce them all, and a third only
repeats one. One crash at every step is enough where the recovery starts from
the stored state alone, since a second crash begins the same recovery from a
state the first one reaches. The engine's interactions allow a refused
profile, a second attempt and an answer that comes late; one instance suffices
in `engine_races`, for the lock, the document and the timers are per instance,
and the two of `engine` compete for coroutines and for the recovery. Three
enqueues fill a batch, land in its flight and coalesce. Three members in a store
of two force an eviction. The import files contain a profile named twice, a user
with two profiles, and two users for one profile. Two seconds let requests
share one or not. Five world changes suffice for a lobby to open, be joined,
launch, start and end, and for a player to leave and join another; the full
protocol has many more interleavings, so it is checked on one match and one
player. Three pools against room for two reach the cap and a name taken by an
archived pool. Three passes let a second one heal what a first left and a third
meet a change. The two instances of the map source have time for the window to
double twice, and for both callers to have requests left when the circuit opens.
Two submits are a form that is older than the change of another. The four
instances of the cards vary what the last one holds fixed: a second feed, a
second guild, a second player of a match, a second match with a player's whole
game still on its way.

**Where a run stops.** Behaviours of the bindings end with the first overlap:
its three properties speak only of what comes before. The panels (`Several`),
the operators' forms and the profile have one failed call per behaviour: what
two of them do together is left to the theorems, which bound nothing.

**Deadlock** is checked in `logs` only. Elsewhere the inputs are bounded: the
interactions end with all instances closed, the operations, changes, submits or
creations are used up, the time of the map source runs out.

**Symmetry**: the callers, tasks, created channels, messages and roles, matches,
views, pools and guilds are interchangeable in the runs without liveness
(`engine_races`, `documents`, `logs`, `catalogue`, `guild`, `panels`). Two
components of a merged run share a set of symmetric values (the threads of
`GameForums` bear the names of `GameData`'s pools), which changes nothing, as
only one of them moves.

## 4. Fairness

Each fair specification assumes only what the runtime does by itself.

- `WorkflowEngine`: the event loop runs a ready coroutine (weak, per coroutine);
  an armed timer fires (strong: it may find the lock taken and is armed again);
  the supervisor restarts the process; Redis applies TTLs; the recovery loop goes
  on. Nothing is assumed of users.
- `Delivery`: a caller keeps draining, backoffs elapse, awaited sends return; a
  destination that is retried for ever accepts infinitely often (strong
  fairness, per destination, of some drain's `Sent`). Without the last, no
  delivery could be promised.
- `LobbyAdapter`: the poll timer gets its answers (strong, as sessions close in
  between), the session handles its queue, the sweeper and the grace timers run.
- `LiveFeed`: the consumer reconnects, the handshake proceeds, events are
  handled, writes end, an outage ends. Breaks are bounded.
- `EnrollmentSync`: the loop ticks, the adapter reconnects. Faults are bounded.
- `ManagedChannel`: an operation that began goes on, a cache entry expires after
  its 300 seconds.

In a merged run each condition is about the component's own behaviours
(`running = ... /\ A`). The other modules promise nothing eventual and are
checked without fairness; what they say of recovery is said of the state in
which an undisturbed call ends (`Healed`, `SetupHeals`, `Refreshed`,
`PoolsMirrored`).

## 5. What is proved

The theorems hold for every value of the constants that satisfies the named
assumption of the module, and for the specification without fairness. The
assumptions say that absent values (`NoMatch`, `NoLock`, ...) are not members of
the sets they stand beside (nor a record where one is expected: `None` in
`GameData` is no document, `None` and `Gone` in `Surfaces` no menu, `Missing` and
`Gone` in `GameForums` no post, `Nil` in `PoolPanels` no pool), that maps, pools
and factions are different things, that the
identifiers of messages are numbers, that the feeds of the cards are finitely
many, that bounds are natural numbers, that the settings operations are well
formed and import files are sequences of pairs, and that the profiles of the
adapter and of the feed are finitely many (a frame and a handshake name them in
a sequence). Sets are otherwise of any size, and no
proof uses a bound on a counter.

Each module with a specification has a `TypeCorrect` (`ProfileTypeCorrect`,
`OperatorTypeCorrect` and `ForumsTypeCorrect` state the inductive invariant with
it). The others:

| Theorem | Property of a run | Says |
|---|---|---|
| `WorkflowEngineProofs!DriversAreExcluded` | `DriversExcluded` | two coroutines never drive one instance, if drives are shorter than the lock's TTL |
| `!CompletedHasBinding` | `CompletedIsBound` | COMPLETED only with its binding, whatever overlaps, fails, expires or crashes |
| `!NothingForgotten` | `NoneForgotten` | a live instance has its timer, a coroutine that owes it one, or a turn in the recovery |
| `!EngineImplementsLifecycle` | `LifecycleSpec` | every step of the engine is a step or a stutter of the abstract lifecycle |
| `BotProofs!OrderStaysConsistent` | `OrderConsistent` | the order names queued keys, each once, under any number of drains |
| `!NothingIsLost` | `NoIntentLost` | every intent is delivered, queued or in flight, and keys leave in their order, on destinations that are not tangled |
| `!BotAlwaysSettles` | `BotSettles` | one provisioning pass, no guild or command left out but for a failure, the operator's menu in the language picked, however ready events overlap |
| `!ProfileAlwaysFollows` | `ProfileFollows` | a view shows the accounts and the name as stored once the interaction that changed them ends, and a saved name is not lost, however interactions overlap and calls fail, but for the views that are outdated |
| `!PostsAlwaysFollow` | `PostsFollow` | with no submit under way every post that the flows refresh shows the stored pools and the links of its map |
| `!AlwaysAskedOnly` | `AskedOnly` | an operator whose form is not stale takes a live map out of a pool only if he asked for it |
| `LobbyAdapterProofs!DeparturesAreSeen` | `NoFalseOffline` | a status becomes offline only for a player who is due and in no known match |
| `!EventsTellRecord` | `ToldIsRecorded` | the stream says what is recorded, or the close that will say it is on its way |
| `ServicesProofs!TransitionsFollowStatus` | `TransitionsFollow` | transitions lead to the states held; a consumer that caught up agrees with the adapter |
| `!PushedIsServed` | `LastIsServed` | what svc-core takes as pushed is served |
| `!TurnsCreateOnce` | `OneNamed` | one channel of the name while operations take turns, whatever restarts |
| `DocumentsProofs!KeysWaitOnce` | | no key waits in two requests, however callers overlap |
| `!TurnsKeepGrants`, `!TurnsKeepRequests` | `GrantsKept`, `RequestsKept` | grants and requests are what was decided, while callers take turns |
| `!TurnsKeepOneOwner` | `OneOwner` | one owner per profile while operations take turns, whatever crashes |
| `!TurnsLastWins` | `LastImportWins` | a finished import leaves each profile with the user of its last line |
| `!TurnsKeepNames` | `NamesSurvive` | an import never replaces a named binding by a bare one |
| `!PickIsKept` | `GuildChoiceKept` | an unhurt document keeps the picked language |
| `!StoreIsBounded`, `!WritesOwnField` | | the member store keeps its bound, always; a write of an unhurt document changes its own field only |
| `!PanelsFollowSources` | `PanelsFollow` | with the events on their way heard the roster is the guild, but for users whose event was lost or fell into a fetch; what Redis holds of a profile is what MongoDB holds, unless two readers shared it or a write failed |
| `LogsChannelProofs!BotAlwaysSees` | `BotSees` | a channel that the bot closed is one it let itself into, always |
| `!TurnsOpenOnRecord` | | a channel opens only under a public record, whatever fails |
| `!TurnsFollowPolicy` | `PolicyFollows` | the channel shows the recorded policy whenever nobody is at work on it |
| `!TurnsKeepRoute` | `RouteKept` | the record of a channel that exists is replaced, never dropped |
| `CatalogueProofs!RulesHold` | `PoolRules` | while operations take turns: names are unique, active pools within their number, every map they name exists |
| `!UseIsKept` | `UsedKept` | while operations take turns a pool in use keeps its maps until it is closed |
| `!DocumentsSurvive` | `NothingLost` | no entity is without a document, whatever overlaps, fails or is cut short |
| `!RefreshHeals` | `Refreshed` | an undisturbed refresh completes every faction; no pool references a map that is gone |
| `!PoolsAlwaysMirrored` | `PoolsMirrored` | after an undisturbed pass each pool has one post and a deleted one none, whatever was deleted, hidden or refused before; a text remembered of a pool's post is the one it shows; with one guild and no post created without its record, one post per map |
| `!SourceIsPaced` | `Paced` | one caller keeps the intervals and the windows of the circuit; an open circuit lets each of many callers send the request it was about to send and its retries |
| `GuildProofs!SurfacesHeal` | `Healed` | an undisturbed pass puts every channel and menu in place, whatever was deleted or lost before; without overlaps and failures nothing is doubled |
| `!RolesHeal` | `SetupHeals` | the same of the declared roles, of the admin role and of who holds it |
| `!CardsAreOne` | (part of `CardsFollow`) | one message per guild and match, and one more per fault, until it is closed |
| `!CardsEndRightly` | (part of `CardsFollow`) | a card says its match is over only if someone left that match, or a transition was lost |
| `!CardsFollowMatches` | `CardsFollow` | both |

**Hypotheses.** "While operations take turns", "unhurt" and "not tangled" are the
history variables of section 2, part of the property as the runs check it.
Three theorems about the engine have hypotheses on its flags, the values they
have in the run `engine`. Each excludes behaviour that refutes the conclusion:
with `Cancels`, a decline writes over an ended instance outside the lock
(`engine_cancel_race`); with `Faults`, a call that raises between the save and
the arming leaves a live instance without a timer; with `SlowDrives`, a lock
that expires under its holder lets a second driver in. Crashes, the expiry of
the hot copies and of abandoned locks, and timers that meet a lock stay in.

**The inductive invariants.** None of these properties is inductive as it
stands.

- *Engine, exclusion*: `LockOwned`, a coroutine inside the lock is the one whose
  token Redis holds. A second driver enters when the key is absent, and only
  `LockOwned` says that the key of a running drive is there.
- *Engine, completion*: `CInv` adds `Covered`: a coroutine that is about to save
  COMPLETED has written the binding. The document it read is older, so the fact
  has to be carried by the coroutine.
- *Engine, timers and lifecycle*: `FInv`. One coroutine at most works on an
  instance (`Sole`), one recovers (`OneRecovers`), a process that is down has
  none (`Down`). `Errand` says what a coroutine may be at, `Knows` that
  what it read is what is stored until its own save, `Instance` who will arm the
  timer of a live instance and who will mirror its document. The refinement needs
  the same: a save ends an instance once, as `Knows` says that the instance is
  live when it happens.
- *Delivery*: `QueuesBacked` (a key in the order has a payload, none is there
  twice) needs `BatchesBacked`, the same of a batch in flight, as a failed send
  puts it back in front. `LInv` adds, for a destination that is not tangled: one
  send in flight at most (`Alone`), what is queued is the latest (`Current`), the
  keys of the order rise with the time they came (`Rising`), an intent is in one
  of its three places (`Kept`), and a batch could go back as it is as long as
  nothing joined (`Batch`).
- *Bot*: once a ready event has begun, a guild the bot is in is known, was missed,
  has its join event on its way, or is still to be ensured by it (`GuildsKept`).
  What is about to be sent, tracked or edited is in the operator's language, and
  a pick under way met no delivery and edits the menu the process knows
  (`MenuKept`).
- *Profile*: two interactions under way have met, and both know it (`Meetings`);
  one that met no other has read what is stored (`UpToDate`). So when it draws its
  view, that is right, and a view not outdated is right already or about to be drawn
  by the interaction that wrote (`Following`, `Redrawn`). What one holds at each
  step (`Picks`) decides which of them may still write.
- *Pools*: `Posted`, the post of a pool and the links of a map are right, or an
  operator under way owes their refresh (`OwesPool`, `OwesMap`, or `OwesAll` after a
  creation). Two halves of a submit have to agree for this: what it saves (`SavesRead`)
  changes no map that it does not refresh. `FormRead`, of a form that is not stale:
  the drafts it lists and ticks are the stored ones, so whatever a save removes was
  shown and unticked. `Apart`: a form and a submit never at once, and one save per
  pool.
- *Forums*: `PostsHeld`, whoever holds a post for an entry (a link, a pass, an edit)
  holds one that was created for it, so it can be gone but never another's;
  `Passing`, a pass has only entries of its forum left and posts of its guild.
  `Remembering` needs it: the edit under way and the post created belong to the
  entry they are remembered for. `Calm` is `OnePost` between passes, `PassCalm`
  within one: the posts it has seen are pools' posts still there, and each pool it
  has been through has exactly one of them or one created since (`Unmet`), none
  while it is pending; the sweep removes the rest. `Single`: a map's live post is
  the linked one, or the one just created that will be (`MapAlone`), as long as
  there is one guild to share the link.
- *Adapter*: `ToldInv`. On the wire as it is the fingerprints are the payloads
  (`fp = matches`), so whatever is new in a frame is told; the queue holds one
  frame, or the closes of one sweep, whose players are recorded offline
  (`Line`); an open window has its player in no known match (`Windows`); what was
  told is what is recorded, or the close is in the queue (`ToldParts`). The full
  protocol is outside, as there closes queue behind frames not yet handled.
- *Feed*: `Way` is a walk through the queued events that starts at the stored
  state, ends at the recorded one and passes through states that each event
  allows; every publication lengthens it at its end and every event handled
  shortens it at its start. `Shakes` is the same promise while a handshake is
  under way, `Told` and `Kept` relate the memory, the write in progress and
  `player_state`.
- *Sync*: lists only grow without removals (`Grows`), and what a push in progress
  has reached is in the roster (`Reached`).
- *Managed channel*: one operation at most is under way, and one about to
  create has seen that there is no channel of the name (`Careful`).
- *Access*: the copies that callers hold must satisfy `Apart` too, since any of
  them may be written next; grants and requests are tracked in the copy of the one
  caller under way (`Accounted`, `Recorded`), a request being one that `Waits`.
- *Registration*: what the check of the operation under way found still holds
  (`OneAtATime`, `ReadsHold`); of an import, the lines up to some `n` are done
  (`Imported`). That every profile of a file has a last line would need induction
  over the file; instead each step of the import carries it along for the lines
  done so far (`HasLast`). `SeenHolds`: what an import saw of a binding it is
  about to write is what is stored.
- *Settings*: what a caller has read of an unhurt document is what is stored.
- *Players panels*: of the roster (`RosterInv`), the last event of a user on its
  way tells where the user is, and the roster, and the answer of a fetch under way,
  are right of every user who has none there (`Follows`). Of the statistics
  (`StatsInv`), a profile that is not shared is in the hand of one panel or job at
  most (`InOneHand`); while it is, Redis has nothing of it, and what is about to be
  put there is what MongoDB holds (`Agrees`). `PanelsFit` says at which points of
  its pass a panel or a job has a profile in hand.
- *Log channel*: `Inside`, the step that closes a channel comes after the step
  that admits the bot to the same one; `Turns`, the policy an operation will apply
  is the one on record; `Clean`, the channel shows the policy but for what the
  operation under way has still to do (`Route`, `Copy`, `Due`); `Grounds`, an
  operation about to drop the record has seen its channel gone.
- *Map source*: of the one caller at work, what it waits for ends no sooner than its
  interval after the clock of the kind, and that clock is never behind the last
  request (`PaceKept`); the circuit's streak is the number of refusals, and a
  request under way means that the window is over (`WindowsKept`). Of many callers,
  each has sent, since the circuit opened, no more than the retries it has made, and
  one more when the answer is awaited (`CircuitKept`).
- *Game data*: `Solo`, one operation at a time. Of the documents, `Sound`: an
  archived pool is out of use, one in use has been put to use, and neither is
  editable; without it a copy read from one could be written over the other.
  `Knows` says of the operation under way what the copy it holds has in common
  with the document it will replace, and that a pool in use is not among what it
  may erase. For the rules `Checked`: the name it has found free, the number it
  has counted and the maps it has looked up are still so when it writes. That
  the active pools can be counted at all (they are finitely many) is carried
  along, so the theorem holds for infinitely many identifiers.
- *Content refresh*: `Holds`, the copy under the new identifier is there before the
  old one is deleted, whatever the others do, since nobody deletes a new one
  (`NewStays`). `SoloInv`, an undisturbed refresh is alone, and so is every
  refresh as long as nothing failed or overlapped. `Progress`: what is left to
  rename is in its list, then nothing is, then the factions off its list are
  complete; each stage needs the one before, as a faction whose old document
  is still there would be refused for its name. `Sure`: the references that are
  gone are those it is about to rewrite, and what it read of them is what is
  stored.
- *Surfaces*: `SurfacesInv`. Without any condition, `Linked`: what a record, a
  cache entry or a pass names is a channel of that name or a message of that view,
  or something that was deleted; so a live one is the right one. `SoloPass`: as
  long as the pass is undisturbed, or nothing failed or overlapped, it is alone,
  and the rest of the invariant speaks of that one pass (`SettlesAlone`,
  `OwnsAlone`). `Settling`: the channels it has been through live, and once it
  turns to the pins every channel does and every menu is pinned or still to be
  ensured. `Owned`: every live channel and menu is the recorded one or in the
  hand of the pass that will record it, and caches name the recorded one or
  nothing; a second one is created only when no live one is on record, hence
  only when there is none.
- *Roles*: `Alone` as above; `InHand`, the role of the one caller lives, is
  mapped before it is cached, and is held by every operator before the channel
  shows to it; `Heals`, a key is done or the setup under way is still due to do
  it, and so is the channel; `Adopted`, no two roles bear one name, and none
  bears the name of a role about to be created.
- *Cards, one message*: `OpenCards`. The messages of a key cannot be counted
  alone, as a feed about to send has already seen that there is none: `Room`
  counts the feeds about to send with the messages, and every feed as one when
  no message is known. `SendersFew` bounds them by the feeds that run. Only until
  the card is closed: from then on a result task may drop the message under a
  feed.
- *Cards, ends*: `EndedInv`. An offline transition names no match, so the card it
  closes is that of the match the player is held in when it arrives.
  `HoldingAfter` says which match that will be once the first `n` transitions on
  their way are handled: the last one they name for that player, else the one of
  the transition in hand, else the one remembered. `Streams` says that for each
  transition that closes it has ended, and for each player in a game that it is
  that game or one that has ended; `Handled` and `Concluded` carry this into the
  card being sent and the result.

**Only model-checked.**

- Liveness (`InstancesEnd`, `EventuallyDelivered`, `Converges`, `SyncSettles`,
  `EventuallyMirrored`, `CacheSettles`): it rests on fairness, and the installed
  provers have neither `ENABLED` nor a rule for it.
- Induction over data: that every profile of an import file has a last line. Where
  a proof needed such a fact, its invariant carries it (`HasLast`, `Way`).

## 6. Where the code falls short

Three disagreements are runs of their own.

- `engine_cancel_race`: `cancel` reads the document, awaits and saves `CANCELLED`
  without the lock that `_drive` takes (`core/services/workflow.py:140`), so an
  instance that ended is written again.
- `game_history`: an entry created under the name of an archived pool (or the old
  name of a renamed one) replaces the document of the same `_id`, although what
  is archived stays readable for history (`core/services/game_data.py:415`).
- `cards_close`: the first guild that handles a departure forgets which match the
  player was in, so the card of the next guild stays live
  (`discord/live_activity.py:165`).

The others were met as counterexamples when a property was stated without its
condition, or while the code was read for the model.

*Registration and services.*

- Engine. The lock's 30 s TTL is never renewed (`core/services/state.py:267`); a
  timer is lost when Redis fails between the save and the arming
  (`workflow.py:186`); an old `"error"` in the payload answers an accepted
  profile (`discord/registration.py:113`).
- Delivery. A failed send drops the keys enqueued meanwhile from the order
  (`delivery.py:116`) and writes older payloads over newer ones (`:115`).
- Lobby adapter. Who leaves a lobby that stays open is never closed
  (`adapter.py:566`); a close is queued behind a frame not yet handled (`:895`);
  a `player_remove` closes profiles that are not enrolled (`:523`); a profile
  enrolled late is silenced by an old fingerprint (`:546`).
- Feed. Events between the handshake and the registration of the queue are lost
  (`ext_aoe2lobby/server.py:85`); who went offline while the consumer was away is
  never reported (`adapter.py:219`); an unreachable provider clears the degraded
  flag that an empty handshake set (`game_aoe2/server.py:153`).
- Access. `ensure_known` may overwrite a grant (`guild_access.py:231`, against
  `:225`); requests in one second collide (`:121`); `grant` does not look at
  `required_games` (`:142`).
- Sync. A lost answer and bindings that revert leave the receiver with the
  other list, and a new owner of a profile is not pushed
  (`core_process/server.py:80`); the probe `_game_service_alive` never probes
  (`:124`); the filter of a restarted provider stays empty (`adapter.py:120`).
- Registration. Two overlapping binds make two owners (`registration.py:110`);
  the import overwrites a bind made since its read (`identity_import.py:119`).

*Profile and panels.*

- Profile menu. Two overlapping followups leave the older view; a refused rename
  (a name of blanks passes the form's minimum and is trimmed away) or a failed
  one leaves the Discord name stored while the view still says "not set"; two
  overlapping first renames can overwrite a saved name with Discord's
  (`discord/home.py`, `ProfileRenameModal.on_submit`). A success is announced for
  the id that was typed, not for the canonical one.
- Statistics. A stale copy is warmed into Redis by the read, and the refresh
  scheduled right after it skips every profile found in Redis, so "the stale
  entries refresh in the background for the NEXT open" (`discord/live.py`)
  usually does not happen. A second concurrent fetch of the roster awaits a
  coroutine that was awaited already and fails, although "concurrent panels share
  the result" (`discord/member_cache.py:43`). A user with two active profiles is
  drawn twice.
- Settings. An observation overwrites a pick made since its read (`logs.py:437`);
  a failed read empties the document (`:429`); eviction follows insertion and
  not recency (`:434`); picks and observations of a user share a field (`:412`),
  so an observed client language replaces the language picked in the DM, where
  "the stored choice wins" (`discord/admin_dm_panel.py:51`).
- Bot process. Each ready event sends the boot DM and its menu again, and only
  the newest is tracked; a guild joined later is never routed; a failed guild
  list is cached as zero servers; the fallback announcement that a docstring
  names is not sent; crash DMs of all surfaces share one key, recorded before the
  DM is sent. Each ready event starts the feeds again.

*Channels, roles, cards.*

- Log channel. A crash between the record and the overwrites leaves the channel
  open (`logs.py:377`); a reset keeps the role overwrites (`:310`); dropping a
  stale cache entry forgets a live route (`:526`); a policy read before the
  awaits is applied after a newer one (`:344`).
- Managed channels. Two resolutions at once create two channels
  (`managed_channel.py:144`).
- Surfaces. A menu just created is not remembered as rendered; text channels are
  looked up by a name that Discord rewrites, so only folders are found and a
  crash between creation and record duplicates the others; a superseded pin is
  never removed; a cache entry that missed a write names the previous pin for
  300 s; overlapping syncs duplicate; the pin refreshers look under keys nobody
  writes.
- Roles. The creation path caches the admin role under another key
  (`roles.py:233`); a renamed role resolves until its TTL (against "no stale
  cache", `guards.py`); ids from cache and mapping are not checked against the
  guild; a failed read of the functions is written back as empty.
- Live cards. Another ready event starts another feed, which makes two messages
  per match and lets one feed close by what the other has handled; a player who
  goes from one match straight to the lobby of another never closes the first
  card; when the stream breaks and loses a transition, the next departure of that
  player closes the card of the match he was held in, which nobody need have left;
  a closed card may be forgotten between the check that there is one and the read
  of the message, and is then sent once more (`live_activity.py:152`, `:197`); a result
  that meets a later edit is lost; the first to leave closes the card; a restart
  leaves cards live for ever.

*Catalogue.*

- Game data. Reactivation breaks the cap and the uniqueness of names; "closing is
  terminal", yet a closed pool can become a draft again; `delete_map` does not
  look at archived pools; overlapping whole-document writes lose updates.
- Forums. A map post's edit is remembered before it succeeds
  (`maps_forum.py:310`), against "remember the fingerprint ONLY on success" of
  its siblings; a map has one post in all, not one per guild.
- Catalogue flows. The association editor takes the map out of draft pools that
  its form never listed (`maps_pool_flow.py:109`); a deleted map in one pool
  aborts a submit after earlier pools were saved; adding a map by picker or id
  does not render the map's post; archiving a public map leaves the cards of its
  pools; duplicating a pool renders nothing.
- Content refresh. A refused rename aborts the refresh, which the comment says
  goes on and adopts by name; a crash leaves references to an identifier that is
  gone for good; an edit that overlaps writes legacy ids back.
- Map source. A query right after a parse is unpaced, although the module
  promises 2 s between requests (`liquipedia.py:8`), and so are two threads; a
  late success of another thread resets the streak of refusals; a run longer
  than its button's cooldown lets a second one start
  (`admin_dm_panel.py:489`).

## 7. What is not modelled

- Wording, layout, localization, parsing of provider pages, the decoding of
  frames and RPC messages: no state that a property is about. With the command
  line and the generated stubs they are most of the implementation's lines, which
  is why the modelled definitions stand for less than a third of them.
- Time, except as order: a TTL or a timer is an event that may happen at any
  moment it is armed; `GuildAccess` has a clock, as its keys are seconds, and
  `MapSource`, as its pace is time.
- Lengths of backoffs, retries of the HTTP clients, rate limits.
- Operations with no state between calls (status, exports, smoke checks, the
  read-only RPCs).
- Code that nothing in production calls: the live servicer of svc-core, the
  provider cache, `PinnedMenuService`, the crash-loop counter, binding and
  assigning of roles, the transition of a pool to "used" (modelled all the same,
  as the rules speak of it).
- In the modelled components: map packs, factions and rules of the store; guild
  scopes and quotas of the pool flows; localized renames and the adoption of
  posts by name in the forums; direct messages of the profile menu; the server
  count in the operator's menu; error reports.
- Enrollment while matches run: the model of the adapter has `Subscribe`, on the
  wire `"everything"`, but only `NoFalseOffline` speaks of it; that a profile
  enrolled late is reported (which `adapter.py:546` can prevent) is no property.

## 8. Plan

Written in this order, the most important behaviour first: the engine with its
abstract specification, the delivery, the adapter and the feed behind it, the
access document, the sync, the bindings, the settings, the log channel, the
managed channels; then the game data and its forums, the surfaces and roles of a
guild, the live cards, the panels and forms, the bot process. The theorems
followed the same order and now reach every component: each safety property that
a run checks is a theorem as well.

Next:

1. A composition of `EnrollmentSync` and `LobbyAdapter`: a profile bound while a
   match runs is reported.
2. More of the flows of the admin panel: guild scopes, map packs, quotas.
