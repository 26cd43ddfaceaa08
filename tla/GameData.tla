------------------------------ MODULE GameData ------------------------------
(***************************************************************************)
(* The catalogue of a game: its maps and its map pools, as GameDataService *)
(* keeps them in MongoDB, and the Discord flows that change them.  A       *)
(* change reads one document, checks it, checks others, and replaces the   *)
(* document whole: each of these is one awaited step, and the steps of two *)
(* administrators interleave.                                              *)
(***************************************************************************)
EXTENDS FiniteSets, Naturals

CONSTANTS
  Pools, Maps,  \* ids; an id is the slug of the name an entry was created under
  None,
  Callers,      \* the interactions that may be under way
  MaxActive,    \* MAX_ACTIVE_POOLS
  MaxCalls      \* bound on the operations begun

States == {"draft", "published", "used", "closed"}
Doc == [name : Pools, state : States, maps : SUBSET Maps,
        archived : BOOLEAN, editable : BOOLEAN, ever : BOOLEAN]

\* A map that was renamed is kept under the id its first name gave it.
MapStates == {"none", "live", "renamed", "archived"}

ASSUME GameDataAssumption ==
  /\ None \notin Doc \cup Pools \cup Maps /\ {MaxActive, MaxCalls} \subseteq Nat

VARIABLES
  pools,    \* the stored pool documents
  maps,     \* the stored maps, and whether their names are those of their ids
  pc,       \* where the operation of a caller is
  target,   \* the entry it is about
  doc,      \* the pool document it read, or is going to write
  todo,     \* the maps it has still to look up
  lapped,   \* history: an operation began before another one was over
  revived,  \* history: the pools that came back from the archive
  calls

dataVars == <<pools, maps, pc, target, doc, todo, lapped, revived, calls>>
store == <<pools, maps>>

DataInit ==
  /\ pools = [p \in Pools |-> None] /\ maps = [m \in Maps |-> "live"]
  /\ pc = [c \in Callers |-> "idle"] /\ target = [c \in Callers |-> None]
  /\ doc = [c \in Callers |-> None] /\ todo = [c \in Callers |-> {}]
  /\ lapped = FALSE /\ revived = {} /\ calls = 0

Active == {p \in Pools : pools[p] # None /\ ~pools[p].archived}
Usable == {m \in Maps : maps[m] \in {"live", "renamed"}}
Named(n) == {p \in Active : pools[p].name = n}

Begin(c) ==
  /\ pc[c] = "idle" /\ calls < MaxCalls /\ calls' = calls + 1
  /\ lapped' = (lapped \/ \E d \in Callers : pc[d] # "idle")
Hold(c, id, d, need, next) ==
  /\ target' = [target EXCEPT ![c] = id] /\ doc' = [doc EXCEPT ![c] = d]
  /\ todo' = [todo EXCEPT ![c] = need] /\ pc' = [pc EXCEPT ![c] = next]
Go(c, next) == pc' = [pc EXCEPT ![c] = next] /\ UNCHANGED <<target, doc, todo>>
Done(c) == Hold(c, None, None, {}, "idle")

-----------------------------------------------------------------------------
(* The pools.  A name ending in _bug is a mutated form.                     *)

Fresh(p, ms) ==
  [name |-> p, state |-> "draft", maps |-> ms,
   archived |-> FALSE, editable |-> TRUE, ever |-> FALSE]

Closed(d) == [d EXCEPT !.archived = TRUE, !.state = "closed", !.editable = FALSE]

Transitions_bug(s) ==
  CASE s = "draft" -> {"published"}
    [] s = "published" -> {"draft", "used"}
    [] s = "used" -> {"draft", "closed"}
    [] s = "closed" -> {"draft", "published"}
Transitions(s) ==
  CASE s = "draft" -> {"published"}
    [] s = "published" -> {"draft", "used"}
    [] s = "used" -> {"closed"}
    [] s = "closed" -> {"draft", "published"}

Moved(d, s) ==
  [d EXCEPT !.state = s, !.archived = FALSE, !.ever = (@ \/ s = "used"),
            !.editable = IF s = "published" THEN @ ELSE s = "draft"]

\* A creation, and the duplicate of another pool: the name has to be free
\* among the pools that are not archived.
Taken_bug(n) == Named(n) \cap {n}
Taken(n) == Named(n)
Create(c, p) ==
  /\ Begin(c) /\ Taken(p) = {} /\ Hold(c, p, Fresh(p, {}), {}, "count")
  /\ UNCHANGED <<store, revived>>

Duplicate(c, p, q) ==
  /\ Begin(c) /\ pools[q] # None /\ Taken(p) = {}
  /\ Hold(c, p, Fresh(p, pools[q].maps), pools[q].maps, "copy")
  /\ UNCHANGED <<store, revived>>

Room_bug == Cardinality(Active) <= MaxActive
Room == Cardinality(Active) < MaxActive
Count(c) ==
  /\ pc[c] = "count" /\ IF Room THEN Go(c, "write") ELSE Done(c)
  /\ UNCHANGED <<store, lapped, revived, calls>>

\* A menu reads the pool before the operation reads it again.
Look(c, p) ==
  /\ Begin(c) /\ pools[p] # None /\ Hold(c, p, pools[p], {}, "menu")
  /\ UNCHANGED <<store, revived>>

\* The compositions the menus ask for: a map put in or taken out of a draft,
\* a map added by its id, a selection from which dead maps are dropped.
Toggled(d) ==
  IF d.state = "draft" THEN {d.maps \cup {m} : m \in Maps} \cup {d.maps \ {m} : m \in Maps} ELSE {}
AddedById(d) == {d.maps \cup {m} : m \in {n \in Maps \ d.maps : maps[n] # "none"}}
Composed(d) == SUBSET Usable

Editable(d) == d.editable
Update(c) ==
  /\ pc[c] = "menu"
  /\ LET p == target[c] IN
       IF pools[p] # None /\ Editable(pools[p])
         THEN \E ms \in Toggled(doc[c]) \cup AddedById(doc[c]) \cup Composed(doc[c]) :
                Hold(c, p, [pools[p] EXCEPT !.maps = ms], ms, "maps")
         ELSE Done(c)
  /\ UNCHANGED <<store, lapped, revived, calls>>

\* Every map of a composition is looked up before it is stored: "maps" for
\* an edited pool, "copy" for a duplicate, which is then counted.
Known(m) == maps[m] # "none"
LookUp(c) ==
  /\ pc[c] \in {"maps", "copy"}
  /\ IF todo[c] = {}
       THEN Go(c, IF pc[c] = "copy" THEN "count" ELSE "write")
       ELSE \E m \in todo[c] :
              IF Known(m) THEN Hold(c, target[c], doc[c], todo[c] \ {m}, pc[c]) ELSE Done(c)
  /\ UNCHANGED <<store, lapped, revived, calls>>

\* The publish button refuses an empty pool; a pool that moves leaves the archive.
Allowed(d, s) == s \in Transitions(d.state)
Publish(c) ==
  /\ pc[c] = "menu" /\ doc[c].maps # {}
  /\ LET p == target[c] IN
       IF pools[p] # None /\ Allowed(pools[p], "published")
         THEN Hold(c, p, Moved(pools[p], "published"), {}, "write") ELSE Done(c)
  /\ UNCHANGED <<store, lapped, revived, calls>>

Transition(c, p, s) ==
  /\ Begin(c) /\ pools[p] # None /\ s # "published" /\ Allowed(pools[p], s)
  /\ Hold(c, p, Moved(pools[p], s), {}, "write")
  /\ UNCHANGED <<store, revived>>

Archive(c, p) ==
  /\ Begin(c) /\ p \in Active /\ Hold(c, p, Closed(pools[p]), {}, "write")
  /\ UNCHANGED <<store, revived>>

Rename(c, p, n) ==
  /\ Begin(c) /\ pools[p] # None /\ Editable(pools[p]) /\ n # pools[p].name
  /\ Hold(c, p, [pools[p] EXCEPT !.name = n], {}, "name")
  /\ UNCHANGED <<store, revived>>

NameFree(c) ==
  /\ pc[c] = "name"
  /\ IF Taken(doc[c].name) \subseteq {target[c]} THEN Go(c, "write") ELSE Done(c)
  /\ UNCHANGED <<store, lapped, revived, calls>>

\* Quotas and the link to the forum post: the rest is written as it was read.
Relink(c, p) ==
  /\ Begin(c) /\ pools[p] # None /\ Hold(c, p, pools[p], {}, "write")
  /\ UNCHANGED <<store, revived>>

Comes(p, d) == pools[p] # None /\ pools[p].state = "closed" /\ d.state # "closed"
Stored(c) == doc[c]
Write(c) ==
  /\ pc[c] = "write" /\ Done(c)
  /\ pools' = [pools EXCEPT ![target[c]] = Stored(c)]
  /\ revived' = IF Comes(target[c], doc[c]) THEN revived \cup {target[c]} ELSE revived
  /\ UNCHANGED <<maps, lapped, calls>>

\* The modal wants a closed pool, the service one that was never used.
Erasable(d) == ~d.ever
HardDelete(c) ==
  /\ pc[c] = "menu"
  /\ LET p == target[c] IN
       IF doc[c].state = "closed" /\ pools[p] # None /\ Erasable(pools[p])
         THEN Go(c, "erase") ELSE Done(c)
  /\ UNCHANGED <<store, lapped, revived, calls>>

Erase(c) ==
  /\ pc[c] = "erase" /\ Done(c) /\ pools' = [pools EXCEPT ![target[c]] = None]
  /\ UNCHANGED <<maps, lapped, revived, calls>>

-----------------------------------------------------------------------------
(* The maps.                                                                *)

MapTaken(m) == maps[m] = "live"
CreateMap(c, m) ==
  /\ Begin(c) /\ ~MapTaken(m) /\ Hold(c, m, None, {}, "live")
  /\ UNCHANGED <<store, revived>>

\* An import skips a map it has; when its tail fails it deletes the map again.
Import(c, m) ==
  /\ Begin(c) /\ ~MapTaken(m) /\ Hold(c, m, None, {}, "import")
  /\ UNCHANGED <<store, revived>>

ImportTail(c) ==
  /\ \/ pc[c] = "import" /\ maps' = [maps EXCEPT ![target[c]] = "live"] /\ Go(c, "tail")
     \/ pc[c] = "tail" /\ UNCHANGED maps
        /\ (Done(c) \/ (maps[target[c]] # "none" /\ Go(c, "unused")))
  /\ UNCHANGED <<pools, lapped, revived, calls>>

ArchiveMap(c, m) ==
  /\ Begin(c) /\ m \in Usable /\ Hold(c, m, None, {}, "archived")
  /\ UNCHANGED <<store, revived>>

\* The edit form renames the map, if it is not archived, or gives it back its
\* first name: the old one is free, and the id made of it is not.
MapEditable(m) == m \in Usable
EditMap(c, m) ==
  /\ Begin(c) /\ MapEditable(m)
  /\ \E next \in {"live", "renamed"} : Hold(c, m, None, {}, next)
  /\ UNCHANGED <<store, revived>>

\* The link to the post: the map is written as it was read, archived or not.
RelinkMap(c, m) ==
  /\ Begin(c) /\ maps[m] # "none" /\ Hold(c, m, None, {}, maps[m])
  /\ UNCHANGED <<store, revived>>

DeleteMap(c, m) ==
  /\ Begin(c) /\ maps[m] # "none" /\ Hold(c, m, None, {}, "unused")
  /\ UNCHANGED <<store, revived>>

Referenced_bug(m) == \E p \in Active : pools[p].maps = {m}
Referenced(m) == \E p \in Active : m \in pools[p].maps
Unused(c) ==
  /\ pc[c] = "unused" /\ IF Referenced(target[c]) THEN Done(c) ELSE Go(c, "none")
  /\ UNCHANGED <<store, lapped, revived, calls>>

WriteMap(c) ==
  /\ pc[c] \in MapStates /\ Done(c)
  /\ maps' = [maps EXCEPT ![target[c]] = pc[c]]
  /\ UNCHANGED <<pools, lapped, revived, calls>>

DataNext ==
  \E c \in Callers :
    \/ \E p \in Pools :
         \/ Create(c, p) \/ Look(c, p) \/ Archive(c, p) \/ Relink(c, p)
         \/ \E q \in Pools : Duplicate(c, p, q) \/ Rename(c, p, q)
         \/ \E s \in States : Transition(c, p, s)
    \/ Count(c) \/ Update(c) \/ LookUp(c) \/ Publish(c) \/ NameFree(c) \/ Write(c)
    \/ HardDelete(c) \/ Erase(c)
    \/ \E m \in Maps : CreateMap(c, m) \/ Import(c, m) \/ ArchiveMap(c, m)
                      \/ EditMap(c, m) \/ RelinkMap(c, m) \/ DeleteMap(c, m)
    \/ ImportTail(c) \/ Unused(c) \/ WriteMap(c)

DataSpec == DataInit /\ [][DataNext]_dataVars

-----------------------------------------------------------------------------
\* Every variable keeps its type.
DataTypeOK ==
  /\ pools \in [Pools -> Doc \cup {None}]
  /\ maps \in [Maps -> MapStates]
  /\ pc \in [Callers -> {"idle", "menu", "maps", "copy", "count", "name", "write", "erase",
                         "import", "tail", "unused"} \cup MapStates]
  /\ target \in [Callers -> Pools \cup Maps \cup {None}]
  /\ doc \in [Callers -> Doc \cup {None}] /\ todo \in [Callers -> SUBSET Maps]
  /\ lapped \in BOOLEAN /\ revived \subseteq Pools /\ calls \in 0..MaxCalls

\* While operations take turns and nothing comes back from the archive, two
\* pools that are not archived have different names, there are at most
\* MAX_ACTIVE_POOLS of them, and every map they name exists.
PoolRules ==
  ~lapped /\ revived = {} =>
    /\ \A n \in Pools : Cardinality(Named(n)) <= 1
    /\ Cardinality(Active) <= MaxActive
    /\ \A p \in Active : \A m \in pools[p].maps : maps[m] # "none"

\* While operations take turns, a pool in use stays so until it is closed,
\* with the composition it was put to use with, if it was not renamed: the
\* old name of a renamed pool is free, and the id made of it is not.
UsedKept ==
  [][~lapped' => \A p \in Pools :
       pools[p] # None /\ pools[p].state = "used" /\ pools[p].name = p =>
         /\ pools'[p] # None /\ pools'[p].state \in {"used", "closed"}
         /\ pools'[p].maps = pools[p].maps]_dataVars

\* A pool in the archive stays readable for history: until it is deleted for
\* good its composition and its use are what they were when it was archived.
HistoryStays ==
  [][\A p \in Pools : pools[p] # None /\ pools[p].archived /\ pools'[p] # None =>
       pools'[p].maps = pools[p].maps /\ pools'[p].ever = pools[p].ever]_dataVars
=============================================================================
