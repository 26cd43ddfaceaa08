------------------------------ MODULE Surfaces ------------------------------
(***************************************************************************)
(* The surfaces of a guild: the declared channels and the pinned menus in  *)
(* them.  A sync, on an administrator's click, provisions the channels of  *)
(* a scope and then ensures its pins; the boot only ensures the pins.      *)
(* Nothing excludes two syncs.  Every step is one awaited call, and any    *)
(* may fail.  A name ending in _bug is a mutated form.                     *)
(***************************************************************************)
EXTENDS FiniteSets, Naturals

CONSTANTS
  Decls,       \* the declared channels; each text channel has one pinned menu
  Categories,  \* those that are folders: they keep their name and carry no pin
  Channels, Languages,
  MessageIds,  \* their ids: Discord's grow
  None, Gone, Callers,
  MaxSyncs, MaxFaults, MaxChanges  \* bounds: passes, faults, acts of the members

Views == Decls \ Categories

ASSUME SurfacesAssumption ==
  /\ Categories \subseteq Decls /\ MessageIds \subseteq Nat
  /\ {None, Gone} \cap (Decls \cup Channels \cup Languages \cup MessageIds) = {} /\ None # Gone
  /\ \A h \in Channels, d \in Views, l \in Languages, x \in BOOLEAN :
       [channel |-> h, view |-> d, language |-> l, pinned |-> x] \notin {None, Gone}
  /\ {MaxSyncs, MaxFaults, MaxChanges} \subseteq Nat

VARIABLES
  channel,   \* each channel: the declaration whose name it bears
  stored,    \* MongoDB: the channel of each declaration
  message,   \* each message: its channel, its view, the language it shows, pinned or not
  registry, cached, memory,  \* the pin of each view: MongoDB, Redis, the process
  rendered,  \* the language of the last edit of a pin, as the process remembers
  language,  \* the language of the guild
  pc, todo, got, at, built,  \* per caller: step, what is left, channels resolved,
             \* declaration in hand, language of the layout built
  sent,      \* per caller: the message it edits, or has just sent
  settled,   \* history: nothing disturbed the last sync, nor anything since
  spoilt,    \* history: calls overlapped, failed or were cut off by a restart
  syncs, faults, changes

guild == <<channel, message, language>>
stores == <<stored, registry, cached>>
process == <<memory, rendered>>
locals == <<pc, todo, got, at, built, sent>>
history == <<settled, spoilt>>
counts == <<syncs, faults, changes>>
surfaceVars == <<guild, stores, process, locals, history, counts>>

Nothing == [d \in Decls |-> None]

SurfacesInit ==
  /\ channel = [h \in Channels |-> None] /\ message = [m \in MessageIds |-> None]
  /\ stored = Nothing /\ registry = Nothing /\ cached = Nothing /\ memory = Nothing
  /\ rendered = Nothing /\ language \in Languages
  /\ pc = [c \in Callers |-> "idle"] /\ todo = [c \in Callers |-> {}]
  /\ got = [c \in Callers |-> Nothing] /\ at = [c \in Callers |-> None]
  /\ built = [c \in Callers |-> None] /\ sent = [c \in Callers |-> None]
  /\ settled = FALSE /\ spoilt = FALSE /\ syncs = 0 /\ faults = 0 /\ changes = 0

LiveChannel == {h \in Channels : channel[h] \in Decls}
LiveMessage == {m \in MessageIds : message[m] \notin {None, Gone}}
Busy == {c \in Callers : pc[c] # "idle"}

\* A call fails: what was going on is no longer undisturbed.
Fault == faults < MaxFaults /\ faults' = faults + 1 /\ settled' = FALSE /\ spoilt' = TRUE
Fine == UNCHANGED <<faults, history>>

-----------------------------------------------------------------------------
(* The channels.                                                            *)

Begin(c) ==
  /\ pc[c] = "idle" /\ syncs < MaxSyncs /\ syncs' = syncs + 1
  /\ spoilt' = (spoilt \/ Busy # {})
  /\ got' = [got EXCEPT ![c] = Nothing]

Sync(c) ==
  /\ Begin(c) /\ settled' = (Busy = {})
  /\ pc' = [pc EXCEPT ![c] = "tree"] /\ todo' = [todo EXCEPT ![c] = Decls]
  /\ UNCHANGED <<guild, stores, process, at, built, sent, faults, changes>>

BootPass(c) ==
  /\ Begin(c) /\ settled' = (settled /\ Busy = {})
  /\ pc' = [pc EXCEPT ![c] = "pins"] /\ todo' = [todo EXCEPT ![c] = Views]
  /\ UNCHANGED <<guild, stores, process, at, built, sent, faults, changes>>

\* The channel found for a declaration: the stored one if it lives, or one of
\* its name.  Discord keeps the name of a folder; that of a text channel it
\* rewrites, so that no search for the label finds it.
Found(d) ==
  IF stored[d] \in LiveChannel THEN {stored[d]}
  ELSE IF d \in Categories THEN {h \in LiveChannel : channel[h] = d} ELSE {}

\* A caller turns to the next item of its list.
Back(c, step) ==
  /\ pc' = [pc EXCEPT ![c] = step] /\ at' = [at EXCEPT ![c] = None]
  /\ built' = [built EXCEPT ![c] = None] /\ sent' = [sent EXCEPT ![c] = None]

\* The folder comes first.
Turn(c, d) == pc[c] = "tree" /\ d \in todo[c] /\ (d \in Categories \/ todo[c] \cap Categories = {})

Resolve(c) ==
  /\ \E d \in Decls : Turn(c, d) /\ todo' = [todo EXCEPT ![c] = @ \ {d}] /\
       IF Found(d) # {}
       THEN (\E h \in Found(d) : got' = [got EXCEPT ![c][d] = h]) /\ UNCHANGED <<pc, at>>
       ELSE pc' = [pc EXCEPT ![c] = "create"] /\ at' = [at EXCEPT ![c] = d] /\ UNCHANGED got
  /\ Fine /\ UNCHANGED <<guild, stores, process, built, sent, syncs, changes>>

Create(c) ==
  /\ pc[c] = "create" /\ Back(c, "tree")
  /\ \E h \in Channels :
       /\ channel[h] = None
       /\ channel' = [channel EXCEPT ![h] = at[c]]
       /\ got' = [got EXCEPT ![c][at[c]] = h]
  /\ Fine /\ UNCHANGED <<message, language, stores, process, todo, syncs, changes>>

Left(c) ==
  /\ Back(c, "idle") /\ todo' = [todo EXCEPT ![c] = {}] /\ got' = [got EXCEPT ![c] = Nothing]

\* A channel that cannot be renamed or created is skipped; a folder ends the sync.
Refused(c) ==
  /\ Fault
  /\ \/ \E d \in Decls : Turn(c, d) /\ IF d \in Categories THEN Left(c)
          ELSE todo' = [todo EXCEPT ![c] = @ \ {d}] /\ UNCHANGED <<pc, got, at, built, sent>>
     \/ /\ pc[c] = "create"
        /\ IF at[c] \in Categories THEN Left(c)
           ELSE Back(c, "tree") /\ UNCHANGED <<todo, got>>
  /\ UNCHANGED <<guild, stores, process, syncs, changes>>

\* What was resolved is stored, declaration by declaration, until a write fails.
Persisted_bug(c, S) ==
  [d \in Decls |-> IF d \in S /\ stored[d] = None THEN got[c][d] ELSE stored[d]]
Persisted(c, S) == [d \in Decls |-> IF d \in S THEN got[c][d] ELSE stored[d]]
Persist(c) ==
  /\ pc[c] = "tree" /\ todo[c] = {}
  /\ LET all == {d \in Decls : got[c][d] # None} IN
       \/ stored' = Persisted(c, all) /\ Fine
       \/ Fault /\ \E S \in SUBSET all : stored' = Persisted(c, S)
  /\ pc' = [pc EXCEPT ![c] = "pins"] /\ todo' = [todo EXCEPT ![c] = Views]
  /\ got' = [got EXCEPT ![c] = Nothing]
  /\ UNCHANGED <<guild, registry, cached, process, at, built, sent, syncs, changes>>

-----------------------------------------------------------------------------
(* The pins.                                                                *)

Known(d) ==
  IF cached[d] # None THEN cached[d] ELSE IF registry[d] # None THEN registry[d] ELSE memory[d]
\* A message is fetched from the channel the declaration has.
Fetched(d) == {m \in LiveMessage : m = Known(d) /\ message[m].channel = stored[d]}
Repinned(m, x) == [message EXCEPT ![m].pinned = x]

Open(c) ==
  /\ pc[c] = "pins"
  /\ \E d \in todo[c] :
       /\ todo' = [todo EXCEPT ![c] = @ \ {d}]
       /\ cached' = [cached EXCEPT ![d] = IF @ # None THEN @ ELSE registry[d]]
       /\ \/ /\ stored[d] \notin LiveChannel \* nowhere to pin it
             /\ UNCHANGED <<pc, at, built, sent, message>>
          \/ /\ stored[d] \in LiveChannel
             /\ \E m \in Fetched(d) : rendered[d] = language /\ message' = Repinned(m, TRUE)
             /\ UNCHANGED <<pc, at, built, sent>>
          \/ /\ stored[d] \in LiveChannel /\ (Fetched(d) # {} => rendered[d] # language)
             /\ IF Fetched(d) # {}
                THEN /\ \E m \in Fetched(d) : sent' = [sent EXCEPT ![c] = m]
                     /\ pc' = [pc EXCEPT ![c] = "edit"]
                ELSE pc' = [pc EXCEPT ![c] = "send"] /\ UNCHANGED sent
             /\ at' = [at EXCEPT ![c] = d] /\ built' = [built EXCEPT ![c] = language]
             /\ UNCHANGED message
  /\ Fine
  /\ UNCHANGED <<channel, language, stored, registry, process, got, syncs, changes>>

Rendered(c) == [rendered EXCEPT ![at[c]] = built[c]]
Edit(c) ==
  /\ pc[c] = "edit" /\ Back(c, "pins") /\ sent[c] \in LiveMessage
  /\ message' = [message EXCEPT ![sent[c]].language = built[c], ![sent[c]].pinned = TRUE]
  /\ rendered' = Rendered(c)
  /\ Fine /\ UNCHANGED <<channel, language, stores, memory, todo, got, syncs, changes>>

\* A pin that cannot be fetched or edited is taken for gone: another is sent.
EditFails(c) ==
  /\ pc[c] = "edit" /\ pc' = [pc EXCEPT ![c] = "send"]
  /\ built' = [built EXCEPT ![c] = language] /\ sent' = [sent EXCEPT ![c] = None]
  /\ IF sent[c] \in LiveMessage THEN Fault ELSE Fine
  /\ UNCHANGED <<guild, stores, process, todo, got, at, syncs, changes>>

\* The pins it replaces are deleted if their text bears a mark; a layout has no
\* text, so all of them stay.
Send(c) ==
  /\ pc[c] = "send" /\ stored[at[c]] \in LiveChannel /\ pc' = [pc EXCEPT ![c] = "pin"]
  /\ \E m \in MessageIds :
       /\ message[m] = None /\ \A n \in MessageIds : message[n] = None => m <= n
       /\ message' = [message EXCEPT ![m] =
            [channel |-> stored[at[c]], view |-> at[c], language |-> built[c], pinned |-> FALSE]]
       /\ sent' = [sent EXCEPT ![c] = m]
  /\ Fine
  /\ UNCHANGED <<channel, language, stores, process, todo, got, at, built, syncs, changes>>

Pin(c) ==
  /\ pc[c] = "pin" /\ sent[c] \in LiveMessage /\ pc' = [pc EXCEPT ![c] = "register"]
  /\ message' = Repinned(sent[c], TRUE)
  /\ Fine
  /\ UNCHANGED <<channel, language, stores, process, todo, got, at, built, sent, syncs, changes>>

\* A menu that cannot be sent or pinned is given up, and not registered.
GivenUp(c) ==
  /\ \/ pc[c] = "send" /\ IF stored[at[c]] \in LiveChannel THEN Fault ELSE Fine
     \/ pc[c] = "pin" /\ IF sent[c] \in LiveMessage THEN Fault ELSE Fine
  /\ Back(c, "pins") /\ UNCHANGED <<guild, stores, process, todo, got, syncs, changes>>

\* In the process, then in MongoDB, then in Redis; each write may be the last.
Cached_bug(d, m) == cached
Cached(d, m) == [cached EXCEPT ![d] = m]
Register(c) ==
  /\ pc[c] = "register" /\ Back(c, "pins")
  /\ LET d == at[c] m == sent[c] IN
       /\ memory' = [memory EXCEPT ![d] = m]
       /\ \/ registry' = [registry EXCEPT ![d] = m] /\ cached' = Cached(d, m) /\ Fine
          \/ registry' = [registry EXCEPT ![d] = m] /\ UNCHANGED cached /\ Fault
          \/ UNCHANGED <<registry, cached>> /\ Fault
  /\ UNCHANGED <<guild, stored, rendered, todo, got, syncs, changes>>

Finish(c) ==
  /\ pc[c] = "pins" /\ todo[c] = {} /\ Left(c)
  /\ Fine /\ UNCHANGED <<guild, stores, process, syncs, changes>>

-----------------------------------------------------------------------------
(* The surroundings.                                                        *)

Act == changes < MaxChanges /\ changes' = changes + 1 /\ settled' = FALSE

DeleteChannel(h) ==
  /\ Act /\ h \in LiveChannel /\ channel' = [channel EXCEPT ![h] = Gone]
  /\ message' = [m \in MessageIds |->
       IF m \in LiveMessage /\ message[m].channel = h THEN Gone ELSE message[m]]
  /\ UNCHANGED <<language, stores, process, locals, spoilt, syncs, faults>>

Meddle(m) ==
  /\ Act /\ m \in LiveMessage
  /\ message' \in {Repinned(m, FALSE), [message EXCEPT ![m] = Gone]}
  /\ UNCHANGED <<channel, language, stores, process, locals, spoilt, syncs, faults>>

ChangeLanguage ==
  /\ Act /\ language' \in Languages \ {language}
  /\ UNCHANGED <<channel, message, stores, process, locals, spoilt, syncs, faults>>

\* An entry that outlived a write it missed designates another message.
CacheExpires(d) ==
  /\ cached[d] # None /\ cached' = [cached EXCEPT ![d] = None]
  /\ settled' = (settled /\ cached[d] = registry[d])
  /\ UNCHANGED <<guild, stored, registry, process, locals, spoilt, counts>>

Restart ==
  /\ Act /\ spoilt' = (spoilt \/ Busy # {})
  /\ memory' = Nothing /\ rendered' = Nothing
  /\ pc' = [c \in Callers |-> "idle"] /\ todo' = [c \in Callers |-> {}]
  /\ got' = [c \in Callers |-> Nothing] /\ at' = [c \in Callers |-> None]
  /\ built' = [c \in Callers |-> None] /\ sent' = [c \in Callers |-> None]
  /\ UNCHANGED <<guild, stores, syncs, faults>>

SurfacesNext ==
  \/ \E c \in Callers :
       \/ Sync(c) \/ BootPass(c) \/ Resolve(c) \/ Create(c) \/ Refused(c) \/ Persist(c)
       \/ Open(c) \/ Edit(c) \/ EditFails(c) \/ Send(c) \/ Pin(c) \/ GivenUp(c) \/ Register(c)
       \/ Finish(c)
  \/ \E h \in Channels : DeleteChannel(h)
  \/ \E m \in MessageIds : Meddle(m)
  \/ \E d \in Decls : CacheExpires(d)
  \/ ChangeLanguage \/ Restart

SurfacesSpec == SurfacesInit /\ [][SurfacesNext]_surfaceVars

-----------------------------------------------------------------------------
\* Every variable keeps its type.
SurfacesTypeOK ==
  /\ channel \in [Channels -> Decls \cup {None, Gone}] /\ language \in Languages
  /\ message \in [MessageIds -> {None, Gone} \cup
       [channel : Channels, view : Views, language : Languages, pinned : BOOLEAN]]
  /\ stored \in [Decls -> Channels \cup {None}]
  /\ {registry, cached, memory} \subseteq [Decls -> MessageIds \cup {None}]
  /\ rendered \in [Decls -> Languages \cup {None}]
  /\ todo \in [Callers -> SUBSET Decls] /\ got \in [Callers -> [Decls -> Channels \cup {None}]]

\* After a sync that nothing disturbed every declared channel lives where the
\* store says, and every menu is pinned there under the identifier the bot will
\* look it up by, whatever channels, pins, records or caches were lost before;
\* and as long as no call failed, overlapped another or was cut off, no
\* declaration gets a second channel and no view a second menu.
Healed ==
  /\ settled /\ Busy = {} =>
       /\ \A d \in Decls : stored[d] \in LiveChannel /\ channel[stored[d]] = d
       /\ \A d \in Views : \E m \in Fetched(d) : message[m].pinned /\ message[m].view = d
  /\ ~spoilt => \A d \in Decls :
       /\ Cardinality({h \in LiveChannel : channel[h] = d}) <= 1
       /\ Cardinality({m \in LiveMessage : message[m].view = d}) <= 1
=============================================================================
