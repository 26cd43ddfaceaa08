-------------------------- MODULE CatalogueProofs ---------------------------
(***************************************************************************)
(* The catalogue of a game for every number of pools, maps, entities and   *)
(* callers: the rules of the pools and the composition of a pool in use;   *)
(* the refresh of the content, which loses nothing whatever overlaps or    *)
(* fails, and left undisturbed leaves the catalogue whole; the pace and    *)
(* the circuit of the source of its maps; and, for every number of guilds, *)
(* entries, posts and refreshes, the forums that mirror it.                *)
(***************************************************************************)
EXTENDS GameData, GameForums, ContentRefresh, MapSource, FiniteSetTheorems, TLAPS

-----------------------------------------------------------------------------
(* THE POOLS.                                                               *)

-----------------------------------------------------------------------------
(* Type correctness.                                                        *)

PoolSteps == {"menu", "maps", "copy", "count", "name", "write", "erase"}
MapSteps == {"import", "tail", "unused"} \cup MapStates

USE DEF MapStates

\* What is archived is closed; what is in use has been, and is not edited.
Sound(d) ==
  /\ d.archived => d.state = "closed" /\ ~d.editable
  /\ d.state = "used" => d.ever /\ ~d.editable

\* What an operation has read of a pool is sound too.
Holds(c) ==
  /\ pc[c] \in PoolSteps => target[c] \in Pools /\ doc[c] \in Doc /\ Sound(doc[c])
  /\ pc[c] \in MapSteps => target[c] \in Maps
Calling ==
  /\ pc \in [Callers -> {"idle"} \cup PoolSteps \cup MapSteps]
  /\ target \in [Callers -> Pools \cup Maps \cup {None}]
  /\ doc \in [Callers -> Doc \cup {None}] /\ todo \in [Callers -> SUBSET Maps]
  /\ \A c \in Callers : Holds(c)
Storing ==
  /\ pools \in [Pools -> Doc \cup {None}] /\ maps \in [Maps -> MapStates]
  /\ \A p \in Pools : pools[p] # None => Sound(pools[p])
Counting == lapped \in BOOLEAN /\ revived \subseteq Pools /\ calls \in 0..MaxCalls
DataTyped == Calling /\ Storing /\ Counting

\* The documents that the operations write, and what they keep of the old one.
LEMMA FreshDoc ==
  ASSUME NEW p \in Pools, NEW ms \in SUBSET Maps
  PROVE  /\ Fresh(p, ms) \in Doc /\ Sound(Fresh(p, ms))
         /\ Fresh(p, ms).name = p /\ Fresh(p, ms).maps = ms /\ Fresh(p, ms).state = "draft"
  BY DEF Fresh, Doc, States, Sound

LEMMA ClosedDoc ==
  ASSUME NEW d \in Doc
  PROVE  /\ Closed(d) \in Doc /\ Sound(Closed(d))
         /\ Closed(d).maps = d.maps /\ Closed(d).state = "closed" /\ Closed(d).archived
  BY DEF Closed, Doc, States, Sound

LEMMA MovedDoc ==
  ASSUME NEW d \in Doc, NEW s \in States, Sound(d), Allowed(d, s)
  PROVE  /\ Moved(d, s) \in Doc /\ Sound(Moved(d, s))
         /\ Moved(d, s).maps = d.maps /\ Moved(d, s).name = d.name /\ Moved(d, s).state = s
         /\ d.state = "used" => s = "closed"
         /\ d.state # "closed" => ~d.archived
         /\ d.state = "closed" => s # "closed"
  BY DEF Moved, Doc, States, Sound, Allowed, Transitions

LEMMA EditedDoc ==
  ASSUME NEW d \in Doc, NEW ms \in SUBSET Maps, NEW n \in Pools, Sound(d)
  PROVE  /\ [d EXCEPT !.maps = ms] \in Doc /\ Sound([d EXCEPT !.maps = ms])
         /\ [d EXCEPT !.maps = ms].maps = ms /\ [d EXCEPT !.maps = ms].name = d.name
         /\ [d EXCEPT !.name = n] \in Doc /\ Sound([d EXCEPT !.name = n])
         /\ [d EXCEPT !.name = n].maps = d.maps /\ [d EXCEPT !.name = n].name = n
         /\ d.editable => d.state # "used" /\ ~d.archived
  BY DEF Doc, Sound

\* An operation goes on with an entry, goes on as it is, or is over.
LEMMA HoldTyped ==
  ASSUME Calling, NEW c \in Callers, NEW id, NEW d, NEW need \in SUBSET Maps, NEW next,
         Hold(c, id, d, need, next),
         \/ next \in PoolSteps /\ id \in Pools /\ d \in Doc /\ Sound(d)
         \/ next \in MapSteps /\ id \in Maps /\ d = None
         \/ next = "idle" /\ id = None /\ d = None
  PROVE  Calling'
<1>1. ASSUME NEW o \in Callers PROVE Holds(o)'
  BY DEF Calling, Holds, Hold, PoolSteps, MapSteps
<1> QED BY <1>1 DEF Calling, Hold

LEMMA GoTyped ==
  ASSUME Calling, NEW c \in Callers, NEW next, Go(c, next),
         \/ pc[c] \in PoolSteps /\ next \in PoolSteps
         \/ pc[c] \in MapSteps /\ next \in MapSteps
  PROVE  Calling'
<1>1. ASSUME NEW o \in Callers PROVE Holds(o)'
  BY DEF Calling, Holds, Go, PoolSteps, MapSteps
<1> QED BY <1>1 DEF Calling, Go

LEMMA DoneTyped ==
  ASSUME Calling, NEW c \in Callers, Done(c) PROVE Calling'
  BY HoldTyped DEF Done

LEMMA BeginTyped ==
  ASSUME Counting, NEW c \in Callers, Begin(c), revived' = revived PROVE Counting'
  BY GameDataAssumption DEF Counting, Begin

\* A step of the caller c.
StepOf(c) ==
  \/ \E p \in Pools :
       \/ Create(c, p) \/ Look(c, p) \/ Archive(c, p) \/ Relink(c, p)
       \/ \E q \in Pools : Duplicate(c, p, q) \/ Rename(c, p, q)
       \/ \E s \in States : Transition(c, p, s)
  \/ Count(c) \/ Update(c) \/ LookUp(c) \/ Publish(c) \/ NameFree(c) \/ Write(c)
  \/ HardDelete(c) \/ Erase(c)
  \/ \E m \in Maps : CreateMap(c, m) \/ Import(c, m) \/ ArchiveMap(c, m)
                    \/ EditMap(c, m) \/ RelinkMap(c, m) \/ DeleteMap(c, m)
  \/ ImportTail(c) \/ Unused(c) \/ WriteMap(c)

LEMMA StoreKept ==
  ASSUME Storing, UNCHANGED store PROVE Storing'
  BY DEF Storing, store

LEMMA CountsKept ==
  ASSUME Counting, UNCHANGED <<lapped, revived, calls>> PROVE Counting'
  BY DEF Counting

LEMMA PoolStored ==
  ASSUME Storing, NEW p \in Pools, NEW d \in Doc \cup {None}, d # None => Sound(d),
         pools' = [pools EXCEPT ![p] = d], maps' = maps
  PROVE  Storing'
  BY DEF Storing

LEMMA MapStored ==
  ASSUME Storing, NEW m \in Maps, NEW s \in MapStates,
         maps' = [maps EXCEPT ![m] = s], pools' = pools
  PROVE  Storing'
  BY DEF Storing

LEMMA DataTypedStep ==
  ASSUME DataTyped, NEW c \in Callers, StepOf(c)
  PROVE  DataTyped'
<1> USE DEF DataTyped, PoolSteps, MapSteps
<1>a. \A p \in Pools : pools[p] # None => pools[p] \in Doc /\ Sound(pools[p])
  BY DEF Storing
<1>h. Holds(c) /\ todo[c] \in SUBSET Maps /\ pc[c] \in {"idle"} \cup PoolSteps \cup MapSteps
  BY DEF Calling
<1>1. ASSUME NEW p \in Pools, Create(c, p) PROVE DataTyped'
  BY <1>1, FreshDoc, HoldTyped, BeginTyped, StoreKept DEF Create
<1>2. ASSUME NEW p \in Pools, Look(c, p) \/ Relink(c, p) PROVE DataTyped'
  BY <1>2, <1>a, HoldTyped, BeginTyped, StoreKept DEF Look, Relink
<1>3. ASSUME NEW p \in Pools, Archive(c, p) PROVE DataTyped'
  <2>1. Closed(pools[p]) \in Doc /\ Sound(Closed(pools[p]))
    BY <1>3, <1>a, ClosedDoc DEF Archive, Active
  <2> QED BY <2>1, <1>3, HoldTyped, BeginTyped, StoreKept DEF Archive
<1>4. ASSUME NEW p \in Pools, NEW q \in Pools, Duplicate(c, p, q) PROVE DataTyped'
  <2>1. pools[q].maps \in SUBSET Maps
    BY <1>4, <1>a DEF Duplicate, Doc
  <2> QED BY <2>1, <1>4, FreshDoc, HoldTyped, BeginTyped, StoreKept DEF Duplicate
<1>5. ASSUME NEW p \in Pools, NEW q \in Pools, Rename(c, p, q) PROVE DataTyped'
  <2>1. pools[p] \in Doc /\ Sound(pools[p])
    BY <1>5, <1>a DEF Rename
  <2>2. [pools[p] EXCEPT !.name = q] \in Doc /\ Sound([pools[p] EXCEPT !.name = q])
    BY <2>1, EditedDoc
  <2> QED BY <2>2, <1>5, HoldTyped, BeginTyped, StoreKept DEF Rename
<1>6. ASSUME NEW p \in Pools, NEW s \in States, Transition(c, p, s) PROVE DataTyped'
  <2>1. Moved(pools[p], s) \in Doc /\ Sound(Moved(pools[p], s))
    BY <1>6, <1>a, MovedDoc DEF Transition
  <2> QED BY <2>1, <1>6, HoldTyped, BeginTyped, StoreKept DEF Transition
<1>7. CASE Count(c)
  BY <1>7, <1>h, GoTyped, DoneTyped, StoreKept, CountsKept DEF Count, store
<1>8. CASE Update(c)
  <2>1. ASSUME pools[target[c]] # None, NEW ms,
               ms \in Toggled(doc[c]) \cup AddedById(doc[c]) \cup Composed(doc[c]),
               Hold(c, target[c], [pools[target[c]] EXCEPT !.maps = ms], ms, "maps")
        PROVE  Calling'
    <3>1. ms \in SUBSET Maps
      BY <2>1, <1>8, <1>h DEF Update, Toggled, AddedById, Composed, Usable, Holds, Doc
    <3>2. target[c] \in Pools
      BY <1>8, <1>h DEF Update, Holds
    <3>3. LET d == [pools[target[c]] EXCEPT !.maps = ms] IN d \in Doc /\ Sound(d)
      BY <2>1, <3>1, <3>2, <1>a, EditedDoc
    <3> QED BY <3>1, <3>2, <3>3, <2>1, HoldTyped
  <2> QED BY <2>1, <1>8, DoneTyped, StoreKept, CountsKept DEF Update
<1>9. CASE LookUp(c)
  <2>1. pc[c] \in {"maps", "copy"} /\ target[c] \in Pools /\ doc[c] \in Doc /\ Sound(doc[c])
    BY <1>9, <1>h DEF LookUp, Holds
  <2>2. ASSUME NEW m \in todo[c], Hold(c, target[c], doc[c], todo[c] \ {m}, pc[c]) PROVE Calling'
    BY <2>1, <2>2, <1>h, HoldTyped
  <2> QED BY <2>1, <2>2, <1>9, GoTyped, DoneTyped, StoreKept, CountsKept DEF LookUp
<1>10. CASE Publish(c)
  <2>1. target[c] \in Pools
    BY <1>10, <1>h DEF Publish, Holds
  <2>2. pools[target[c]] # None /\ Allowed(pools[target[c]], "published") =>
          LET d == Moved(pools[target[c]], "published") IN d \in Doc /\ Sound(d)
    BY <2>1, <1>a, MovedDoc DEF States
  <2> QED BY <2>1, <2>2, <1>10, HoldTyped, DoneTyped, StoreKept, CountsKept DEF Publish
<1>11. CASE NameFree(c)
  BY <1>11, <1>h, GoTyped, DoneTyped, StoreKept, CountsKept DEF NameFree
<1>12. CASE Write(c)
  <2>1. target[c] \in Pools /\ doc[c] \in Doc /\ Sound(doc[c])
    BY <1>12, <1>h DEF Write, Holds
  <2>2. Storing'
    BY <2>1, <1>12, PoolStored DEF Write, Stored
  <2>3. Counting'
    BY <2>1, <1>12 DEF Write, Counting
  <2> QED BY <2>2, <2>3, <1>12, DoneTyped DEF Write
<1>13. CASE HardDelete(c)
  BY <1>13, <1>h, GoTyped, DoneTyped, StoreKept, CountsKept DEF HardDelete
<1>14. CASE Erase(c)
  <2>1. target[c] \in Pools
    BY <1>14, <1>h DEF Erase, Holds
  <2> QED BY <2>1, <1>14, PoolStored, DoneTyped, CountsKept DEF Erase
<1>15. ASSUME NEW m \in Maps,
              \/ CreateMap(c, m) \/ Import(c, m) \/ ArchiveMap(c, m)
              \/ EditMap(c, m) \/ RelinkMap(c, m) \/ DeleteMap(c, m)
       PROVE  DataTyped'
  <2>1. maps[m] \in MapStates
    BY DEF Storing
  <2> QED BY <2>1, <1>15, HoldTyped, BeginTyped, StoreKept
          DEF CreateMap, Import, ArchiveMap, EditMap, MapEditable, Usable, RelinkMap, DeleteMap
<1>16. CASE ImportTail(c)
  <2>1. target[c] \in Maps
    BY <1>16, <1>h DEF ImportTail, Holds
  <2>2. Storing'
    BY <2>1, <1>16, MapStored, StoreKept DEF ImportTail, store
  <2> QED BY <2>2, <1>16, <1>h, GoTyped, DoneTyped, CountsKept DEF ImportTail
<1>17. CASE Unused(c)
  BY <1>17, <1>h, GoTyped, DoneTyped, StoreKept, CountsKept DEF Unused
<1>18. CASE WriteMap(c)
  <2>1. target[c] \in Maps /\ pc[c] \in MapStates
    BY <1>18, <1>h DEF WriteMap, Holds
  <2> QED BY <2>1, <1>18, MapStored, DoneTyped, CountsKept DEF WriteMap
<1> QED BY <1>1, <1>2, <1>3, <1>4, <1>5, <1>6, <1>7, <1>8, <1>9, <1>10, <1>11, <1>12, <1>13, <1>14,
           <1>15, <1>16, <1>17, <1>18 DEF StepOf

LEMMA TypedStay ==
  ASSUME DataTyped, UNCHANGED dataVars PROVE DataTyped'
  BY DEF DataTyped, Calling, Storing, Counting, Holds, dataVars

LEMMA DataTypedInit == DataInit => DataTyped
<1> SUFFICES ASSUME DataInit PROVE DataTyped
  OBVIOUS
<1>1. Calling
  BY DEF DataInit, Calling, Holds, PoolSteps, MapSteps
<1>2. Storing
  BY DEF DataInit, Storing
<1>3. Counting
  <2>1. MaxCalls \in Nat
    BY GameDataAssumption
  <2>2. lapped = FALSE /\ revived = {} /\ calls = 0
    BY DEF DataInit
  <2>3. calls \in 0..MaxCalls
    BY <2>1, <2>2
  <2>4. lapped \in BOOLEAN /\ revived \subseteq Pools
    BY <2>2
  <2> QED BY <2>3, <2>4 DEF Counting
<1> QED BY <1>1, <1>2, <1>3 DEF DataTyped

LEMMA DataTypedAlways == DataTyped /\ [DataNext]_dataVars => DataTyped'
  BY DataTypedStep, TypedStay DEF DataNext, StepOf

\* Every variable of the store and of the operations keeps its type.
THEOREM DataTypeCorrect == DataSpec => []DataTypeOK
<1>1. DataTyped => DataTypeOK
  BY DEF DataTyped, Calling, Storing, Counting, DataTypeOK, PoolSteps, MapSteps
<1> QED BY <1>1, DataTypedInit, DataTypedAlways, PTL DEF DataSpec

-----------------------------------------------------------------------------
(* What an operation knows while the others wait.                           *)

\* A creation has found its name free, an edit its pool open to it; what is
\* about to be written keeps a use, what is about to be erased has none.
InUse(p) == pools[p] # None /\ pools[p].state = "used" /\ pools[p].name = p
Knows(c) ==
  LET p == target[c]  d == doc[c]
  IN  /\ pc[c] \in {"copy", "count"} => Named(p) = {}
      /\ pc[c] \in {"maps", "name"} => p \in Active /\ pools[p].editable
      /\ pc[c] = "write" /\ InUse(p) => d.state \in {"used", "closed"} /\ d.maps = pools[p].maps
      /\ pc[c] = "erase" => pools[p] = None \/ ~pools[p].ever
Solo == \A c, o \in Callers : pc[c] # "idle" /\ pc[o] # "idle" => c = o
TurnsInv == DataTyped /\ (~lapped => Solo /\ \A c \in Callers : Knows(c))

LEMMA Held ==
  ASSUME Calling, NEW c \in Callers, NEW id, NEW d, NEW need, NEW next, Hold(c, id, d, need, next)
  PROVE  pc'[c] = next /\ target'[c] = id /\ doc'[c] = d /\ todo'[c] = need
  BY DEF Calling, Hold

LEMMA GoneFacts ==
  ASSUME Calling, NEW c \in Callers, NEW next, Go(c, next)
  PROVE  pc'[c] = next /\ target'[c] = target[c] /\ doc'[c] = doc[c] /\ todo'[c] = todo[c]
  BY DEF Calling, Go

LEMMA IsOver == ASSUME Calling, NEW c \in Callers, Done(c) PROVE pc'[c] = "idle"
  BY Held DEF Done

\* A step begins an operation or goes on with one, and moves nobody else.
LEMMA StepShape ==
  ASSUME NEW c \in Callers, StepOf(c)
  PROVE  /\ Begin(c) \/ (pc[c] # "idle" /\ lapped' = lapped)
         /\ \E n : pc' = [pc EXCEPT ![c] = n]
<1> USE DEF Hold, Go, Done
<1>1. CASE \E p \in Pools : Create(c, p) \/ Look(c, p) \/ Archive(c, p) \/ Relink(c, p)
  BY <1>1 DEF Create, Look, Archive, Relink
<1>2. CASE \E p, q \in Pools : Duplicate(c, p, q) \/ Rename(c, p, q)
  BY <1>2 DEF Duplicate, Rename
<1>3. CASE \E p \in Pools, s \in States : Transition(c, p, s)
  BY <1>3 DEF Transition
<1>4. CASE Count(c) \/ NameFree(c) \/ Write(c) \/ HardDelete(c) \/ Erase(c) \/ Unused(c) \/ WriteMap(c)
  BY <1>4 DEF Count, NameFree, Write, HardDelete, Erase, Unused, WriteMap
<1>5. CASE Update(c) \/ LookUp(c) \/ Publish(c) \/ ImportTail(c)
  BY <1>5 DEF Update, LookUp, Publish, ImportTail
<1>6. CASE \E m \in Maps : CreateMap(c, m) \/ Import(c, m) \/ ArchiveMap(c, m)
                           \/ EditMap(c, m) \/ RelinkMap(c, m) \/ DeleteMap(c, m)
  BY <1>6 DEF CreateMap, Import, ArchiveMap, EditMap, MapEditable, Usable, RelinkMap, DeleteMap
<1> QED BY <1>1, <1>2, <1>3, <1>4, <1>5, <1>6 DEF StepOf

\* While operations take turns, the others are idle before and after a step.
LEMMA OthersIdle ==
  ASSUME TurnsInv, NEW c \in Callers, StepOf(c), ~lapped'
  PROVE  ~lapped /\ Knows(c) /\ \A o \in Callers \ {c} : pc[o] = "idle" /\ pc'[o] = "idle"
<1>1. PICK n : pc' = [pc EXCEPT ![c] = n]
  BY StepShape
<1>2. \A o \in Callers \ {c} : pc'[o] = pc[o]
  BY <1>1 DEF TurnsInv, DataTyped, Calling
<1>3. ~lapped
  BY StepShape DEF Begin
<1>4. \A o \in Callers \ {c} : pc[o] = "idle"
  <2>1. CASE Begin(c)
    BY <2>1 DEF Begin
  <2>2. CASE pc[c] # "idle"
    BY <2>2, <1>3 DEF TurnsInv, Solo
  <2> QED BY <2>1, <2>2, StepShape
<1> QED BY <1>2, <1>3, <1>4 DEF TurnsInv

LEMMA KnowsStep ==
  ASSUME DataTyped, NEW c \in Callers, StepOf(c), Knows(c)
  PROVE  Knows(c)'
<1> USE DEF DataTyped
<1>a. \A p \in Pools : pools[p] # None => pools[p] \in Doc /\ Sound(pools[p])
  BY DEF Storing
<1>h. Holds(c)
  BY DEF Calling
<1>i. pc'[c] \notin {"maps", "copy", "count", "name", "write", "erase"} => Knows(c)'
  BY DEF Knows
<1>1. ASSUME NEW p \in Pools, Create(c, p) PROVE Knows(c)'
  BY <1>1, Held DEF Create, Taken, Knows, Named, Active, store
<1>2. ASSUME NEW p \in Pools, Look(c, p) PROVE Knows(c)'
  BY <1>2, <1>i, Held DEF Look
<1>3. ASSUME NEW p \in Pools, Relink(c, p) PROVE Knows(c)'
  <2>1. pc'[c] = "write" /\ target'[c] = p /\ doc'[c] = pools[p] /\ pools' = pools
    BY <1>3, Held DEF Relink, store
  <2> QED BY <2>1 DEF Knows, InUse
<1>4. ASSUME NEW p \in Pools, Archive(c, p) PROVE Knows(c)'
  <2>1. pc'[c] = "write" /\ target'[c] = p /\ doc'[c] = Closed(pools[p]) /\ pools' = pools
    BY <1>4, Held DEF Archive, store
  <2>2. Closed(pools[p]).maps = pools[p].maps /\ Closed(pools[p]).state = "closed"
    BY <1>4, <1>a, ClosedDoc DEF Archive, Active
  <2> QED BY <2>1, <2>2 DEF Knows, InUse
<1>5. ASSUME NEW p \in Pools, NEW q \in Pools, Duplicate(c, p, q) PROVE Knows(c)'
  BY <1>5, Held DEF Duplicate, Taken, Knows, Named, Active, store
<1>6. ASSUME NEW p \in Pools, NEW q \in Pools, Rename(c, p, q) PROVE Knows(c)'
  <2>1. pc'[c] = "name" /\ target'[c] = p /\ pools' = pools
    BY <1>6, Held DEF Rename, store
  <2>2. p \in Active /\ pools[p].editable
    BY <1>6, <1>a, EditedDoc DEF Rename, Editable, Active, Sound
  <2> QED BY <2>1, <2>2 DEF Knows, Active
<1>7. ASSUME NEW p \in Pools, NEW s \in States, Transition(c, p, s) PROVE Knows(c)'
  <2>1. /\ pc'[c] = "write" /\ target'[c] = p /\ doc'[c] = Moved(pools[p], s) /\ pools' = pools
    BY <1>7, Held DEF Transition, store
  <2>2. /\ Moved(pools[p], s).maps = pools[p].maps /\ Moved(pools[p], s).state = s
        /\ pools[p].state = "used" => s = "closed"
    BY <1>7, <1>a, MovedDoc DEF Transition
  <2> QED BY <2>1, <2>2 DEF Knows, InUse
<1>8. CASE Count(c)
  <2>1. CASE Go(c, "write")
    <3>1. pc'[c] = "write" /\ target'[c] = target[c] /\ pools' = pools /\ target[c] \in Pools
      BY <2>1, <1>8, <1>h, GoneFacts DEF Count, store, Holds, PoolSteps
    <3>2. ~InUse(target[c])
      <4>1. Named(target[c]) = {}
        BY <1>8 DEF Count, Knows
      <4> QED BY <4>1, <3>1, <1>a DEF InUse, Named, Active, Sound
    <3> QED BY <3>1, <3>2 DEF Knows, InUse
  <2> QED BY <2>1, <1>8, <1>i, IsOver DEF Count
<1>9. CASE Update(c)
  <2>1. ASSUME pools[target[c]] # None, pools[target[c]].editable, NEW ms,
               Hold(c, target[c], [pools[target[c]] EXCEPT !.maps = ms], ms, "maps")
        PROVE  Knows(c)'
    <3>1. pc'[c] = "maps" /\ target'[c] = target[c] /\ pools' = pools /\ target[c] \in Pools
      BY <2>1, <1>9, <1>h, Held DEF Update, store, Holds, PoolSteps
    <3>2. target[c] \in Active
      BY <2>1, <3>1, <1>a DEF Active, Sound
    <3> QED BY <2>1, <3>1, <3>2 DEF Knows, Active
  <2> QED BY <2>1, <1>9, <1>i, IsOver DEF Update, Editable
<1>10. CASE LookUp(c)
  <2>1. pools' = pools
    BY <1>10 DEF LookUp, store
  <2>2. CASE Done(c)
    BY <2>2, <1>i, IsOver
  <2>3. ASSUME NEW m, Hold(c, target[c], doc[c], todo[c] \ {m}, pc[c]) PROVE Knows(c)'
    <3>1. pc'[c] = pc[c] /\ target'[c] = target[c] /\ doc'[c] = doc[c]
      BY <2>3, Held
    <3> QED BY <3>1, <2>1 DEF Knows, Named, Active, InUse
  <2>4. CASE pc[c] = "copy" /\ Go(c, "count")
    <3>1. pc'[c] = "count" /\ target'[c] = target[c]
      BY <2>4, GoneFacts
    <3> QED BY <3>1, <2>1, <2>4 DEF Knows, Named, Active
  <2>5. CASE pc[c] = "maps" /\ Go(c, "write")
    <3>1. pc'[c] = "write" /\ target'[c] = target[c]
      BY <2>5, GoneFacts
    <3>2. ~InUse(target[c])
      BY <2>5, <1>a DEF Knows, InUse, Active, Sound
    <3> QED BY <3>1, <3>2, <2>1 DEF Knows, InUse
  <2> QED BY <2>2, <2>3, <2>4, <2>5, <1>10 DEF LookUp
<1>11. CASE Publish(c)
  <2>1. ASSUME pools[target[c]] # None, Allowed(pools[target[c]], "published"),
               Hold(c, target[c], Moved(pools[target[c]], "published"), {}, "write")
        PROVE  Knows(c)'
    <3>1. /\ pc'[c] = "write" /\ target'[c] = target[c] /\ pools' = pools /\ target[c] \in Pools
      BY <2>1, <1>11, <1>h, Held DEF Publish, store, Holds, PoolSteps
    <3>2. pools[target[c]].state # "used"
      BY <2>1, <3>1, <1>a, MovedDoc DEF States
    <3> QED BY <3>1, <3>2 DEF Knows, InUse
  <2> QED BY <2>1, <1>11, <1>i, IsOver DEF Publish
<1>12. CASE NameFree(c)
  <2>1. CASE Go(c, "write")
    <3>1. pc'[c] = "write" /\ target'[c] = target[c] /\ pools' = pools
      BY <2>1, <1>12, GoneFacts DEF NameFree, store
    <3>2. ~InUse(target[c])
      BY <1>12, <1>a DEF NameFree, Knows, InUse, Active, Sound
    <3> QED BY <3>1, <3>2 DEF Knows, InUse
  <2> QED BY <2>1, <1>12, <1>i, IsOver DEF NameFree
<1>13. CASE HardDelete(c)
  <2>1. CASE Go(c, "erase") /\ ~pools[target[c]].ever
    <3>1. pc'[c] = "erase" /\ target'[c] = target[c] /\ pools' = pools
      BY <2>1, <1>13, GoneFacts DEF HardDelete, store
    <3> QED BY <3>1, <2>1 DEF Knows
  <2> QED BY <2>1, <1>13, <1>i, IsOver DEF HardDelete, Erasable
<1>14. CASE Write(c) \/ Erase(c) \/ WriteMap(c)
  BY <1>14, <1>i, IsOver DEF Write, Erase, WriteMap
<1>15. ASSUME NEW m \in Maps,
              \/ CreateMap(c, m) \/ Import(c, m) \/ ArchiveMap(c, m)
              \/ EditMap(c, m) \/ RelinkMap(c, m) \/ DeleteMap(c, m)
       PROVE  Knows(c)'
  <2>1. maps[m] \in MapStates
    BY DEF Storing
  <2> QED BY <2>1, <1>15, <1>i, Held DEF CreateMap, Import, ArchiveMap, EditMap, MapEditable, Usable, RelinkMap, DeleteMap
<1>16. CASE ImportTail(c) \/ Unused(c)
  BY <1>16, <1>i, GoneFacts, IsOver DEF ImportTail, Unused
<1> QED BY <1>1, <1>2, <1>3, <1>4, <1>5, <1>6, <1>7, <1>8, <1>9, <1>10, <1>11, <1>12, <1>13, <1>14,
           <1>15, <1>16 DEF StepOf

LEMMA TurnsInit == DataInit => TurnsInv
  BY DataTypedInit DEF DataInit, TurnsInv, Solo, Knows

LEMMA TurnsStep == TurnsInv /\ [DataNext]_dataVars => TurnsInv'
<1>1. ASSUME TurnsInv, NEW c \in Callers, StepOf(c) PROVE TurnsInv'
  <2>1. DataTyped'
    BY <1>1, DataTypedStep DEF TurnsInv
  <2>2. ASSUME ~lapped' PROVE Solo' /\ \A o \in Callers : Knows(o)'
    <3>1. Knows(c) /\ \A o \in Callers \ {c} : pc'[o] = "idle"
      BY <1>1, <2>2, OthersIdle
    <3>2. Knows(c)'
      BY <1>1, <3>1, KnowsStep DEF TurnsInv
    <3>3. \A o \in Callers \ {c} : Knows(o)'
      BY <3>1 DEF Knows
    <3> QED BY <3>1, <3>2, <3>3 DEF Solo
  <2> QED BY <2>1, <2>2 DEF TurnsInv
<1>2. ASSUME TurnsInv, UNCHANGED dataVars PROVE TurnsInv'
  <2>1. DataTyped'
    BY <1>2, TypedStay DEF TurnsInv
  <2> QED BY <2>1, <1>2 DEF TurnsInv, Solo, Knows, Named, Active, InUse, dataVars
<1> QED BY <1>1, <1>2 DEF DataNext, StepOf

\* A pool in use is closed or kept by whatever the operation under way writes,
\* and not erased (MapPoolService), for every number of pools, maps and callers.
THEOREM UseIsKept == DataSpec => UsedKept
<1> DEFINE Keeps == ~lapped' => \A p \in Pools : InUse(p) =>
                      /\ pools'[p] # None /\ pools'[p].state \in {"used", "closed"}
                      /\ pools'[p].maps = pools[p].maps
<1>1. TurnsInv /\ [DataNext]_dataVars => Keeps
  <2> SUFFICES ASSUME TurnsInv, [DataNext]_dataVars, ~lapped', NEW p \in Pools, InUse(p)
               PROVE  /\ pools'[p] # None /\ pools'[p].state \in {"used", "closed"}
                      /\ pools'[p].maps = pools[p].maps
    OBVIOUS
  <2>1. CASE pools' = pools
    BY <2>1 DEF InUse
  <2>2. ASSUME NEW c \in Callers, StepOf(c), pools' # pools
        PROVE  /\ pools'[p] # None /\ pools'[p].state \in {"used", "closed"}
               /\ pools'[p].maps = pools[p].maps
    <3>1. Knows(c)
      BY <2>2, OthersIdle
    <3>2. Holds(c) /\ pools \in [Pools -> Doc \cup {None}] /\ \A q \in Pools : pools[q] # None => Sound(pools[q])
      BY DEF TurnsInv, DataTyped, Calling, Storing
    <3>3. CASE Write(c)
      <4>1. target[c] \in Pools /\ doc[c] # None /\ pools' = [pools EXCEPT ![target[c]] = doc[c]]
        BY <3>3, <3>2, GameDataAssumption DEF Write, Stored, Holds, PoolSteps
      <4>2. InUse(target[c]) => doc[c].state \in {"used", "closed"} /\ doc[c].maps = pools[target[c]].maps
        BY <3>1, <3>3 DEF Knows, Write
      <4> QED BY <4>1, <4>2, <3>2 DEF InUse
    <3>4. CASE Erase(c)
      <4>1. target[c] # p
        BY <3>1, <3>2, <3>4 DEF Knows, Erase, InUse, Sound
      <4> QED BY <4>1, <3>2, <3>4 DEF Erase, InUse
    <3> QED BY <3>3, <3>4, <2>2 DEF StepOf, store, Create, Look, Archive, Relink, Duplicate,
              Rename, Transition, Count, Update, LookUp, Publish, NameFree, HardDelete, CreateMap,
              Import, ArchiveMap, EditMap, MapEditable, Usable, RelinkMap, DeleteMap, ImportTail, Unused, WriteMap
  <2> QED BY <2>1, <2>2 DEF DataNext, StepOf, dataVars
<1>2. TurnsInv /\ [DataNext]_dataVars => [Keeps]_dataVars
  BY <1>1
<1>3. Keeps => (~lapped' => \A p \in Pools :
        pools[p] # None /\ pools[p].state = "used" /\ pools[p].name = p =>
          /\ pools'[p] # None /\ pools'[p].state \in {"used", "closed"}
          /\ pools'[p].maps = pools[p].maps)
  BY DEF InUse
<1> QED BY <1>2, <1>3, TurnsInit, TurnsStep, PTL DEF DataSpec, UsedKept

-----------------------------------------------------------------------------
(* The rules of the pools.                                                  *)

Exist(S) == \A m \in S : maps[m] # "none"
\* The pool p may bear the name n, and be active.
Free(p, n) == \A q \in Active \ {p} : pools[q].name # n
Fits(p) == p \in Active \/ Cardinality(Active) < MaxActive
Lawful(p) == Free(p, pools[p].name) /\ Exist(pools[p].maps)
Rules ==
  IsFiniteSet(Active) /\ Cardinality(Active) <= MaxActive /\ \A p \in Active : Lawful(p)

\* How far an operation has come with its checks.
Checked(c) ==
  LET p == target[c]  d == doc[c]
  IN  /\ pc[c] \in {"copy", "count"} => d.name = p /\ Exist(d.maps \ todo[c])
      /\ pc[c] = "count" => todo[c] = {}
      /\ pc[c] = "maps" => d.name = pools[p].name /\ Exist(d.maps \ todo[c])
      /\ pc[c] = "name" => d.maps = pools[p].maps
      /\ pc[c] = "write" /\ ~d.archived /\ ~Comes(p, d) =>
           Free(p, d.name) /\ Fits(p) /\ Exist(d.maps)
      /\ pc[c] = "none" => ~Referenced(p)
RulesInv == ~lapped /\ revived = {} => Rules /\ \A c \in Callers : Checked(c)

\* The rules survive whatever shrinks the pools that are active, or keeps
\* them and the maps they name.
LEMMA FewerRule ==
  ASSUME Storing, Rules, NEW p \in Pools, NEW d, d = None \/ (d \in Doc /\ d.archived),
         pools' = [pools EXCEPT ![p] = d], maps' = maps
  PROVE  Rules'
<1>1. Active' = Active \ {p} /\ \A q \in Active' : pools'[q] = pools[q]
  BY DEF Active, Storing
<1>2. IsFiniteSet(Active') /\ Cardinality(Active') <= MaxActive
  <2>1. IsFiniteSet(Active') /\ Cardinality(Active') <= Cardinality(Active)
    BY <1>1, FS_Subset DEF Rules
  <2>2. Cardinality(Active) \in Nat /\ Cardinality(Active') \in Nat /\ MaxActive \in Nat
    BY <2>1, FS_CardinalityType, GameDataAssumption DEF Rules
  <2> QED BY <2>1, <2>2 DEF Rules
<1> QED BY <1>1, <1>2 DEF Rules, Lawful, Free, Exist

LEMMA StoredRule ==
  ASSUME Storing, Rules, NEW p \in Pools, NEW d \in Doc, ~d.archived,
         Free(p, d.name), Fits(p), Exist(d.maps),
         pools' = [pools EXCEPT ![p] = d], maps' = maps
  PROVE  Rules'
<1>1. Active' = Active \cup {p} /\ pools'[p] = d /\ \A q \in Pools \ {p} : pools'[q] = pools[q]
  BY GameDataAssumption DEF Active, Storing
<1>2. IsFiniteSet(Active') /\ Cardinality(Active') <= MaxActive
  <2>1. IsFiniteSet(Active) /\ Cardinality(Active) \in Nat /\ MaxActive \in Nat
    BY FS_CardinalityType, GameDataAssumption DEF Rules
  <2>2. CASE p \in Active
    BY <2>2, <1>1 DEF Rules
  <2>3. CASE p \notin Active
    <3>1. IsFiniteSet(Active') /\ Cardinality(Active') = Cardinality(Active) + 1
      BY <2>1, <2>3, <1>1, FS_AddElement
    <3> QED BY <3>1, <2>1, <2>3 DEF Fits
  <2> QED BY <2>2, <2>3
<1>3. Active \subseteq Pools
  BY DEF Active
<1>4. ASSUME NEW q \in Active' PROVE Lawful(q)'
  <2>1. CASE q = p
    BY <2>1, <1>1, <1>3 DEF Lawful, Free, Exist
  <2>2. CASE q # p
    <3>1. q \in Active /\ pools'[q] = pools[q]
      BY <2>2, <1>1, <1>3
    <3> QED BY <3>1, <2>2, <1>1, <1>3 DEF Rules, Lawful, Free, Exist
  <2> QED BY <2>1, <2>2
<1> QED BY <1>2, <1>4 DEF Rules

LEMMA RulesStep ==
  ASSUME TurnsInv, NEW c \in Callers, StepOf(c), ~lapped', revived' = {}, Rules, Checked(c)
  PROVE  Rules'
<1> USE DEF TurnsInv, DataTyped
<1>h. Holds(c) /\ Storing
  BY DEF Calling
<1>1. CASE UNCHANGED store
  BY <1>1 DEF store, Rules, Active, Lawful, Free, Exist
<1>2. CASE Write(c)
  <2>1. /\ target[c] \in Pools /\ doc[c] \in Doc
        /\ pools' = [pools EXCEPT ![target[c]] = doc[c]] /\ maps' = maps
    BY <1>2, <1>h DEF Write, Stored, Holds, PoolSteps
  <2>2. ~Comes(target[c], doc[c])
    BY <1>2 DEF Write
  <2>3. CASE doc[c].archived
    BY <2>1, <2>3, <1>h, FewerRule
  <2>4. CASE ~doc[c].archived
    <3>1. Free(target[c], doc[c].name) /\ Fits(target[c]) /\ Exist(doc[c].maps)
      BY <2>2, <2>4, <1>2 DEF Checked, Write
    <3> QED BY <3>1, <2>1, <2>4, <1>h, StoredRule
  <2> QED BY <2>3, <2>4
<1>3. CASE Erase(c)
  <2>1. target[c] \in Pools /\ pools' = [pools EXCEPT ![target[c]] = None] /\ maps' = maps
    BY <1>3, <1>h DEF Erase, Holds, PoolSteps
  <2> QED BY <2>1, <1>h, FewerRule
<1>4. CASE ImportTail(c) \/ WriteMap(c)
  <2>1. /\ pools' = pools /\ target[c] \in Maps
        /\ \/ maps' = maps
           \/ \E s \in MapStates \ {"none"} : maps' = [maps EXCEPT ![target[c]] = s]
           \/ maps' = [maps EXCEPT ![target[c]] = "none"] /\ ~Referenced(target[c])
    BY <1>4, <1>h DEF ImportTail, WriteMap, Holds, MapSteps, Checked
  <2>2. \A m \in Maps : maps[m] # "none" /\ maps'[m] = "none" => m = target[c] /\ ~Referenced(m)
    BY <2>1, <1>h DEF Storing
  <2>3. Active' = Active /\ \A p \in Active : Exist(pools[p].maps)'
    <3>1. Active' = Active
      BY <2>1 DEF Active
    <3>2. ASSUME NEW p \in Active PROVE Exist(pools[p].maps)'
      <4>1. pools[p].maps \subseteq Maps /\ Exist(pools[p].maps)
        BY <1>h DEF Rules, Lawful, Active, Storing, Doc
      <4> QED BY <4>1, <2>1, <2>2 DEF Exist, Referenced
    <3> QED BY <3>1, <3>2
  <2> QED BY <2>1, <2>3 DEF Rules, Lawful, Free
<1> QED BY <1>1, <1>2, <1>3, <1>4 DEF StepOf, store, Create, Look, Archive, Relink, Duplicate,
   Rename,
      Transition, Count, Update, LookUp, Publish, NameFree, HardDelete, CreateMap, Import,
      ArchiveMap, EditMap, RelinkMap, DeleteMap, Unused

\* A pool written as it was, but for what keeps it lawful, may be written.
LEMMA Unmoved ==
  ASSUME Rules, NEW p \in Pools, NEW d, NEW q, pools[p] # None, ~pools[p].archived,
         d = pools[p].name, q = pools[p].maps
  PROVE  Free(p, d) /\ Fits(p) /\ Exist(q)
<1>1. p \in Active
  BY DEF Active
<1> QED BY <1>1 DEF Rules, Lawful, Fits

LEMMA CheckedStep ==
  ASSUME TurnsInv, NEW c \in Callers, StepOf(c), Rules, Checked(c), Knows(c)
  PROVE  Checked(c)'
<1> USE DEF TurnsInv, DataTyped
<1>a. \A p \in Pools : pools[p] # None => pools[p] \in Doc /\ Sound(pools[p])
  BY DEF Storing
<1>h. Holds(c) /\ todo[c] \in SUBSET Maps
  BY DEF Calling
<1>i. pc'[c] \notin {"maps", "copy", "count", "name", "write", "none"} => Checked(c)'
  BY DEF Checked
<1> DEFINE Prepared(p, d) == Free(p, d.name) /\ Fits(p) /\ Exist(d.maps)
<1>w. ASSUME NEW p \in Pools, NEW d, UNCHANGED store,
             pc'[c] = "write", target'[c] = p, doc'[c] = d,
             ~d.archived /\ ~Comes(p, d) => Prepared(p, d)
      PROVE  Checked(c)'
  BY <1>w DEF store, Checked, Comes, Free, Fits, Exist, Active
<1> HIDE DEF Prepared
<1>1. ASSUME NEW p \in Pools, Create(c, p) PROVE Checked(c)'
  <2>1. pc'[c] = "count" /\ target'[c] = p /\ doc'[c] = Fresh(p, {}) /\ todo'[c] = {}
    BY <1>1, Held DEF Create
  <2> QED BY <2>1, FreshDoc DEF Checked, Exist
<1>2. ASSUME NEW p \in Pools, Look(c, p) PROVE Checked(c)'
  BY <1>2, <1>i, Held DEF Look
<1>3. ASSUME NEW p \in Pools, Relink(c, p) PROVE Checked(c)'
  <2>1. pc'[c] = "write" /\ target'[c] = p /\ doc'[c] = pools[p] /\ UNCHANGED store
    BY <1>3, Held DEF Relink
  <2>2. ~pools[p].archived => Prepared(p, pools[p])
    BY <1>3, Unmoved DEF Relink, Prepared
  <2> QED BY <2>1, <2>2, <1>w
<1>4. ASSUME NEW p \in Pools, Archive(c, p) PROVE Checked(c)'
  <2>1. pc'[c] = "write" /\ target'[c] = p /\ doc'[c] = Closed(pools[p]) /\ UNCHANGED store
    BY <1>4, Held DEF Archive
  <2>2. Closed(pools[p]).archived
    BY <1>4, <1>a, ClosedDoc DEF Archive, Active
  <2> QED BY <2>1, <2>2, <1>w
<1>5. ASSUME NEW p \in Pools, NEW q \in Pools, Duplicate(c, p, q) PROVE Checked(c)'
  <2>1. /\ pc'[c] = "copy" /\ target'[c] = p /\ doc'[c] = Fresh(p, pools[q].maps)
        /\ todo'[c] = pools[q].maps
    BY <1>5, Held DEF Duplicate
  <2>2. Fresh(p, pools[q].maps).name = p /\ Fresh(p, pools[q].maps).maps = pools[q].maps
    BY DEF Fresh
  <2> QED BY <2>1, <2>2 DEF Checked, Exist
<1>6. ASSUME NEW p \in Pools, NEW q \in Pools, Rename(c, p, q) PROVE Checked(c)'
  <2>1. /\ pc'[c] = "name" /\ target'[c] = p /\ doc'[c] = [pools[p] EXCEPT !.name = q]
        /\ UNCHANGED store
    BY <1>6, Held DEF Rename
  <2>2. [pools[p] EXCEPT !.name = q].maps = pools[p].maps
    BY <1>6, <1>a, EditedDoc DEF Rename, Doc
  <2> QED BY <2>1, <2>2 DEF Checked, store
<1>m. ASSUME NEW p \in Pools, NEW s \in States, pools[p] # None, Allowed(pools[p], s),
             UNCHANGED store,
             Hold(c, p, Moved(pools[p], s), {}, "write")
      PROVE  Checked(c)'
  <2>1. pc'[c] = "write" /\ target'[c] = p /\ doc'[c] = Moved(pools[p], s)
    BY <1>m, Held
  <2>2. /\ Moved(pools[p], s).maps = pools[p].maps /\ Moved(pools[p], s).name = pools[p].name
        /\ Moved(pools[p], s).state = s
        /\ pools[p].state # "closed" => ~pools[p].archived
        /\ pools[p].state = "closed" => s # "closed"
    BY <1>m, <1>a, MovedDoc
  <2>3. ~Comes(p, Moved(pools[p], s)) => Prepared(p, Moved(pools[p], s))
    BY <2>2, <1>m, Unmoved DEF Comes, Prepared
  <2> QED BY <2>1, <2>3, <1>m, <1>w
<1>7. ASSUME NEW p \in Pools, NEW s \in States, Transition(c, p, s) PROVE Checked(c)'
  BY <1>7, <1>m DEF Transition
<1>8. CASE Count(c)
  <2>1. CASE Room /\ Go(c, "write")
    <3>1. /\ pc'[c] = "write" /\ target'[c] = target[c] /\ doc'[c] = doc[c] /\ UNCHANGED store
          /\ target[c] \in Pools
      BY <2>1, <1>8, <1>h, GoneFacts DEF Count, Holds, PoolSteps
    <3>2. Named(target[c]) = {} /\ doc[c].name = target[c] /\ Exist(doc[c].maps)
      BY <1>8 DEF Count, Knows, Checked, Exist
    <3>3. Prepared(target[c], doc[c])
      BY <3>2, <2>1 DEF Prepared, Free, Named, Fits, Room
    <3> QED BY <3>1, <3>3, <1>w
  <2> QED BY <2>1, <1>8, <1>i, IsOver DEF Count
<1>9. CASE Update(c)
  <2>1. ASSUME pools[target[c]] # None, NEW ms,
               ms \in Toggled(doc[c]) \cup AddedById(doc[c]) \cup Composed(doc[c]),
               Hold(c, target[c], [pools[target[c]] EXCEPT !.maps = ms], ms, "maps")
        PROVE  Checked(c)'
    <3>1. /\ pc'[c] = "maps" /\ target'[c] = target[c] /\ todo'[c] = ms /\ UNCHANGED store
          /\ doc'[c] = [pools[target[c]] EXCEPT !.maps = ms] /\ target[c] \in Pools
      BY <2>1, <1>9, <1>h, Held DEF Update, Holds, PoolSteps
    <3>2. ms \in SUBSET Maps
      BY <2>1, <1>9, <1>h DEF Update, Toggled, AddedById, Composed, Usable, Holds, PoolSteps, Doc
    <3>3. doc'[c].name = pools[target[c]].name /\ doc'[c].maps = ms
      BY <3>1, <3>2, <2>1, <1>a, EditedDoc
    <3> QED BY <3>1, <3>3 DEF Checked, store, Exist
  <2> QED BY <2>1, <1>9, <1>i, IsOver DEF Update
<1>10. CASE LookUp(c)
  <2>1. UNCHANGED store /\ pc[c] \in {"maps", "copy"} /\ target[c] \in Pools
    BY <1>10, <1>h DEF LookUp, Holds, PoolSteps
  <2>2. CASE Done(c)
    BY <2>2, <1>i, IsOver
  <2>3. ASSUME NEW m \in todo[c], Known(m), Hold(c, target[c], doc[c], todo[c] \ {m}, pc[c])
        PROVE  Checked(c)'
    <3>1. pc'[c] = pc[c] /\ target'[c] = target[c] /\ doc'[c] = doc[c] /\ todo'[c] = todo[c] \ {m}
      BY <2>3, Held
    <3>2. Exist(doc[c].maps \ (todo[c] \ {m}))
      BY <2>1, <2>3 DEF Checked, Exist, Known
    <3> QED BY <3>1, <3>2, <2>1 DEF Checked, Exist, store
  <2>4. CASE pc[c] = "copy" /\ todo[c] = {} /\ Go(c, "count")
    <3>1. pc'[c] = "count" /\ target'[c] = target[c] /\ doc'[c] = doc[c] /\ todo'[c] = todo[c]
      BY <2>4, GoneFacts
    <3> QED BY <3>1, <2>1, <2>4 DEF Checked, Exist, store
  <2>5. CASE pc[c] = "maps" /\ todo[c] = {} /\ Go(c, "write")
    <3>1. pc'[c] = "write" /\ target'[c] = target[c] /\ doc'[c] = doc[c]
      BY <2>5, GoneFacts
    <3>2. doc[c].name = pools[target[c]].name /\ Exist(doc[c].maps) /\ target[c] \in Active
      BY <2>5 DEF Checked, Knows, Exist
    <3>3. Prepared(target[c], doc[c])
      BY <3>2 DEF Prepared, Rules, Lawful, Fits
    <3> QED BY <3>1, <3>3, <2>1, <1>w
  <2> QED BY <2>2, <2>3, <2>4, <2>5, <1>10 DEF LookUp
<1>11. CASE Publish(c)
  <2>1. target[c] \in Pools
    BY <1>11, <1>h DEF Publish, Holds, PoolSteps
  <2> QED BY <2>1, <1>11, <1>i, <1>m, IsOver DEF Publish, States
<1>12. CASE NameFree(c)
  <2>1. CASE Taken(doc[c].name) \subseteq {target[c]} /\ Go(c, "write")
    <3>1. /\ pc'[c] = "write" /\ target'[c] = target[c] /\ doc'[c] = doc[c] /\ UNCHANGED store
          /\ target[c] \in Pools
      BY <2>1, <1>12, <1>h, GoneFacts DEF NameFree, Holds, PoolSteps
    <3>2. doc[c].maps = pools[target[c]].maps /\ target[c] \in Active
      BY <1>12 DEF NameFree, Knows, Checked
    <3>3. Prepared(target[c], doc[c])
      BY <3>2, <2>1 DEF Prepared, Rules, Lawful, Fits, Free, Taken, Named
    <3> QED BY <3>1, <3>3, <1>w
  <2> QED BY <2>1, <1>12, <1>i, IsOver DEF NameFree
<1>13. CASE HardDelete(c) \/ Write(c) \/ Erase(c) \/ WriteMap(c)
  BY <1>13, <1>i, GoneFacts, IsOver DEF HardDelete, Write, Erase, WriteMap
<1>14. ASSUME NEW m \in Maps,
              \/ CreateMap(c, m) \/ Import(c, m) \/ ArchiveMap(c, m)
              \/ EditMap(c, m) \/ RelinkMap(c, m) \/ DeleteMap(c, m)
       PROVE  Checked(c)'
  <2>1. maps[m] \in MapStates
    BY DEF Storing
  <2> QED BY <2>1, <1>14, <1>i, Held DEF CreateMap, Import, ArchiveMap, EditMap, MapEditable, Usable, RelinkMap, DeleteMap
<1>15. CASE ImportTail(c)
  BY <1>15, <1>i, GoneFacts, IsOver DEF ImportTail
<1>16. CASE Unused(c)
  <2>1. CASE ~Referenced(target[c]) /\ Go(c, "none")
    <3>1. pc'[c] = "none" /\ target'[c] = target[c] /\ UNCHANGED store
      BY <2>1, <1>16, GoneFacts DEF Unused
    <3> QED BY <3>1, <2>1 DEF Checked, Referenced, Active, store
  <2> QED BY <2>1, <1>16, <1>i, IsOver DEF Unused
<1> QED BY <1>1, <1>2, <1>3, <1>4, <1>5, <1>6, <1>7, <1>8, <1>9, <1>10, <1>11, <1>12, <1>13, <1>14,
           <1>15, <1>16 DEF StepOf

LEMMA RulesInit == DataInit => RulesInv
<1> SUFFICES ASSUME DataInit PROVE RulesInv
  OBVIOUS
<1>1. Active = {}
  BY DEF DataInit, Active
<1>2. Rules
  <2>1. MaxActive \in Nat
    BY GameDataAssumption
  <2> QED BY <2>1, <1>1, FS_EmptySet DEF Rules
<1>3. \A c \in Callers : Checked(c)
  BY DEF DataInit, Checked
<1> QED BY <1>2, <1>3 DEF RulesInv

LEMMA RulesInvStep == TurnsInv /\ RulesInv /\ [DataNext]_dataVars => RulesInv'
<1>1. ASSUME TurnsInv, RulesInv, NEW c \in Callers, StepOf(c), ~lapped', revived' = {}
      PROVE  Rules' /\ \A o \in Callers : Checked(o)'
  <2>1. ~lapped /\ Knows(c) /\ \A o \in Callers \ {c} : pc'[o] = "idle"
    BY <1>1, OthersIdle
  <2>2. revived = {}
    BY <1>1 DEF StepOf, Create, Look, Archive, Relink, Duplicate, Rename,
         Transition, Count, Update, LookUp, Publish, NameFree, Write, HardDelete, Erase, CreateMap,
         Import,
         ArchiveMap, EditMap, MapEditable, Usable, RelinkMap, DeleteMap, ImportTail, Unused, WriteMap
  <2>3. Rules /\ Checked(c)
    BY <1>1, <2>1, <2>2 DEF RulesInv
  <2>4. Rules' /\ Checked(c)'
    BY <1>1, <2>1, <2>3, RulesStep, CheckedStep
  <2>5. \A o \in Callers \ {c} : Checked(o)'
    BY <2>1 DEF Checked
  <2> QED BY <2>4, <2>5
<1>2. ASSUME RulesInv, UNCHANGED dataVars PROVE RulesInv'
  BY <1>2 DEF RulesInv, Rules, Lawful, Checked, Free, Fits, Exist, Comes, Referenced, Active,
     dataVars
<1> QED BY <1>1, <1>2 DEF RulesInv, DataNext, StepOf

\* Distinct names, the cap on active pools and the existence of their maps
\* (MapPoolService), for every number of pools, maps and callers and every
\* sequence of operations that take turns.
THEOREM RulesHold == DataSpec => []PoolRules
<1>1. RulesInv => PoolRules
  <2> SUFFICES ASSUME Rules PROVE /\ \A n \in Pools : Cardinality(Named(n)) <= 1
                                  /\ Cardinality(Active) <= MaxActive
                                  /\ \A p \in Active : \A m \in pools[p].maps : maps[m] # "none"
    BY DEF RulesInv, PoolRules
  <2>1. ASSUME NEW n \in Pools PROVE Cardinality(Named(n)) <= 1
    <3>1. \A p, q \in Named(n) : p = q
      BY DEF Rules, Lawful, Free, Named
    <3>2. CASE Named(n) = {}
      BY <3>2, FS_EmptySet
    <3>3. CASE Named(n) # {}
      <4>1. PICK p : Named(n) = {p}
        BY <3>1, <3>3
      <4>2. Cardinality(Named(n)) = 1
        BY <4>1, FS_Singleton
      <4> QED BY <4>2
    <3> QED BY <3>2, <3>3
  <2> QED BY <2>1 DEF Rules, Lawful, Exist
<1> QED BY <1>1, TurnsInit, TurnsStep, RulesInit, RulesInvStep, PTL DEF DataSpec

-----------------------------------------------------------------------------
(* THE REFRESH.                                                             *)

-----------------------------------------------------------------------------
(* Type correctness, and the copy that a rename leaves.                     *)

Stages == {"idle", "scan", "rename", "drop", "refs", "factions", "create", "text"}
\* What a refresh holds at its stage; before the old document is deleted, the
\* new one is there.
RefreshHolds(c) ==
  /\ stage[c] \in {"drop", "create", "text"} => read[c] \subseteq Entities
  /\ stage[c] = "refs" => read[c] \subseteq Ids
  /\ stage[c] = "drop" => New(read[c]) \subseteq present
RefreshTyped ==
  /\ present \subseteq Ids /\ refs \subseteq Ids /\ texts \subseteq Ids
  /\ draft = NoDraft \/ draft \subseteq Ids
  /\ stage \in [Refreshers -> Stages]
  /\ renames \in [Refreshers -> SUBSET Entities] /\ waiting \in [Refreshers -> SUBSET Entities]
  /\ read \in [Refreshers -> SUBSET (Entities \cup Ids)]
  /\ settled \in BOOLEAN /\ spoilt \in BOOLEAN
  /\ refreshes \in Nat /\ faults \in Nat /\ changes \in Nat
  /\ \A c \in Refreshers : RefreshHolds(c)

StageOf(c) ==
  \/ BeginRefresh(c) \/ Scan(c) \/ RenameDoc(c) \/ Drop(c) \/ ReadRefs(c) \/ WriteRefs(c)
  \/ NextFaction(c) \/ CreateFaction(c) \/ Text(c) \/ Fails(c)

LEMMA IdsOf ==
  ASSUME NEW S \in SUBSET Entities, NEW R \in SUBSET Ids
  PROVE  New(S) \subseteq Ids /\ Rewritten(R, S) \subseteq Ids
  BY DEF Ids, New, Old, Rewritten

\* A step changes what its refresh holds and leaves the others where they are.
LEMMA StageShape ==
  ASSUME NEW c \in Refreshers, StageOf(c)
  PROVE  /\ \E n : stage' = [stage EXCEPT ![c] = n]
         /\ \E S : waiting' = [waiting EXCEPT ![c] = S]
         /\ renames' = renames \/ \E S : renames' = [renames EXCEPT ![c] = S]
         /\ read' = read \/ \E S : read' = [read EXCEPT ![c] = S]
         /\ draft' = draft
         /\ stage[c] = "idle" <=> BeginRefresh(c)
<1> USE DEF Goes, Ends
<1>1. CASE BeginRefresh(c)
  BY <1>1 DEF BeginRefresh
<1>2. CASE Scan(c)
  BY <1>2 DEF Scan, BeginRefresh
<1>3. CASE RenameDoc(c)
  BY <1>3 DEF RenameDoc, BeginRefresh
<1>4. CASE Drop(c) \/ ReadRefs(c)
  BY <1>4 DEF Drop, ReadRefs, BeginRefresh
<1>5. CASE WriteRefs(c)
  BY <1>5 DEF WriteRefs, BeginRefresh
<1>6. CASE NextFaction(c)
  BY <1>6 DEF NextFaction, BeginRefresh
<1>7. CASE CreateFaction(c) \/ Text(c) \/ Fails(c)
  BY <1>7 DEF CreateFaction, Text, Fails, BeginRefresh
<1> QED BY <1>1, <1>2, <1>3, <1>4, <1>5, <1>6, <1>7 DEF StageOf

\* No step takes a document away under its current identifier.
LEMMA NewStays ==
  ASSUME NEW c \in Refreshers, StageOf(c)
  PROVE  \A S : New(S) \subseteq present => New(S) \subseteq present'
<1>1. CASE Drop(c)
  BY <1>1 DEF Drop, New, Old
<1>2. CASE RenameDoc(c)
  BY <1>2 DEF RenameDoc, Put
<1>3. CASE CreateFaction(c)
  BY <1>3 DEF CreateFaction
<1>4. CASE ~(Drop(c) \/ RenameDoc(c) \/ CreateFaction(c))
  BY <1>4 DEF StageOf, BeginRefresh, Scan, ReadRefs, WriteRefs, NextFaction, Text, Fails, content
<1> QED BY <1>1, <1>2, <1>3, <1>4

\* What the others hold stays true.
LEMMA OthersHold ==
  ASSUME RefreshTyped, NEW c \in Refreshers, StageOf(c), NEW o \in Refreshers, o # c
  PROVE  RefreshHolds(o)'
<1>1. stage'[o] = stage[o] /\ read'[o] = read[o]
  <2>1. PICK n : stage' = [stage EXCEPT ![c] = n]
    BY StageShape
  <2>2. read' = read \/ \E S : read' = [read EXCEPT ![c] = S]
    BY StageShape
  <2> QED BY <2>1, <2>2 DEF RefreshTyped
<1> QED BY <1>1, NewStays DEF RefreshTyped, RefreshHolds

LEMMA TypedCounts ==
  ASSUME RefreshTyped, NEW c \in Refreshers, StageOf(c)
  PROVE  /\ settled' \in BOOLEAN /\ spoilt' \in BOOLEAN
         /\ refreshes' \in Nat /\ faults' \in Nat /\ changes' \in Nat
<1>1. CASE BeginRefresh(c)
  <2>1. settled' \in BOOLEAN /\ spoilt' \in BOOLEAN
    BY <1>1 DEF BeginRefresh, RefreshTyped
  <2>2. refreshes' = refreshes + 1 /\ faults' = faults /\ changes' = changes
    BY <1>1 DEF BeginRefresh
  <2> QED BY <2>1, <2>2 DEF RefreshTyped
<1>2. CASE ~BeginRefresh(c)
  <2>1. refreshes' = refreshes /\ changes' = changes /\ (Fine \/ Fault)
    BY <1>2 DEF StageOf, Scan, RenameDoc, Drop, ReadRefs, WriteRefs, NextFaction, CreateFaction,
       Text, Fails
  <2>2. (settled' = settled /\ spoilt' = spoilt) \/ (settled' = FALSE /\ spoilt' = TRUE)
    BY <2>1 DEF Fine, Fault
  <2>3. settled' \in BOOLEAN /\ spoilt' \in BOOLEAN
    BY <2>2, Zenon DEF RefreshTyped
  <2>4. faults' = faults \/ faults' = faults + 1
    BY <2>1 DEF Fine, Fault
  <2>5. refreshes' \in Nat /\ faults' \in Nat /\ changes' \in Nat
    BY <2>1, <2>4 DEF RefreshTyped
  <2> QED BY <2>3, <2>5
<1> QED BY <1>1, <1>2

\* The refresh c moves to the stage n, and holds there what it may.
LEMMA TypedMove ==
  ASSUME RefreshTyped, NEW c \in Refreshers, StageOf(c), NEW n \in Stages, NEW W \in SUBSET Entities,
         Goes(c, n, W),
         UNCHANGED renames \/ \E S \in SUBSET Entities : renames' = [renames EXCEPT ![c] = S],
         UNCHANGED read \/ \E S \in SUBSET (Entities \cup Ids) : read' = [read EXCEPT ![c] = S],
         present' \subseteq Ids, refs' \subseteq Ids, texts' \subseteq Ids,
         n \in {"drop", "create", "text"} => read'[c] \subseteq Entities,
         n = "refs" => read'[c] \subseteq Ids,
         n = "drop" => New(read'[c]) \subseteq present'
  PROVE  RefreshTyped'
<1>1. stage' \in [Refreshers -> Stages] /\ waiting' \in [Refreshers -> SUBSET Entities]
  BY DEF Goes, RefreshTyped
<1>2. renames' \in [Refreshers -> SUBSET Entities] /\ read' \in [Refreshers -> SUBSET (Entities \cup Ids)]
  BY DEF RefreshTyped
<1>3. draft' = NoDraft \/ draft' \subseteq Ids
  BY StageShape DEF RefreshTyped
<1>4. RefreshHolds(c)'
  BY DEF Goes, RefreshHolds, RefreshTyped
<1> QED BY <1>1, <1>2, <1>3, <1>4, OthersHold, TypedCounts DEF RefreshTyped

LEMMA RefreshTypedStep ==
  ASSUME RefreshTyped, NEW c \in Refreshers, StageOf(c)
  PROVE  RefreshTyped'
<1>t. /\ present \subseteq Ids /\ refs \subseteq Ids /\ texts \subseteq Ids
      /\ waiting[c] \in SUBSET Entities /\ renames[c] \in SUBSET Entities
      /\ read[c] \in SUBSET (Entities \cup Ids) /\ RefreshHolds(c)
      /\ read \in [Refreshers -> SUBSET (Entities \cup Ids)]
  BY DEF RefreshTyped
<1>n. \A S \in SUBSET Entities : New(S) \subseteq Ids
  BY IdsOf
<1>e. {} \in SUBSET Entities /\ {} \in SUBSET (Entities \cup Ids) /\ Factions \in SUBSET Entities
      /\ SUBSET Entities \subseteq SUBSET (Entities \cup Ids)
  BY DEF Entities
<1> USE DEF Stages, RefreshHolds
<1>1. CASE BeginRefresh(c)
  <2>1. Goes(c, "scan", {}) /\ UNCHANGED <<present, refs, texts, renames, read>>
    BY <1>1 DEF BeginRefresh, content
  <2> QED BY <2>1, <1>e, <1>t, TypedMove
<1>2. CASE Scan(c)
  <2>1. PICK S \in SUBSET Legacy :
          /\ renames' = [renames EXCEPT ![c] = S]
          /\ IF S = {} THEN Goes(c, "factions", Factions) ELSE Goes(c, "rename", S)
    BY <1>2 DEF Scan
  <2>2. S \in SUBSET Entities
    BY DEF Legacy
  <2>3. UNCHANGED <<present, refs, texts, read>>
    BY <1>2 DEF Scan, content
  <2>4. CASE Goes(c, "factions", Factions)
    BY <2>1, <2>2, <2>3, <2>4, <1>e, <1>t, TypedMove
  <2>5. CASE Goes(c, "rename", S)
    BY <2>1, <2>2, <2>3, <2>5, <1>t, TypedMove
  <2> QED BY <2>1, <2>4, <2>5
<1>3. CASE RenameDoc(c)
  <2>1. PICK e \in waiting[c] :
          \/ present' = Put(e) /\ Goes(c, "drop", waiting[c]) /\ read' = [read EXCEPT ![c] = {e}]
          \/ UNCHANGED <<present, read>> /\ Goes(c, "rename", waiting[c] \ {e})
    BY <1>3 DEF RenameDoc
  <2>2. UNCHANGED <<refs, texts, renames>>
    BY <1>3 DEF RenameDoc
  <2>3. {e} \in SUBSET Entities
    BY <1>t
  <2>4. CASE present' = Put(e) /\ Goes(c, "drop", waiting[c]) /\ read' = [read EXCEPT ![c] = {e}]
    <3>1. read'[c] = {e} /\ New({e}) \subseteq present' /\ present' \subseteq Ids
      BY <2>3, <2>4, <1>t, <1>n DEF Put
    <3> QED BY <3>1, <2>2, <2>3, <2>4, <1>e, <1>t, TypedMove
  <2>5. CASE UNCHANGED <<present, read>> /\ Goes(c, "rename", waiting[c] \ {e})
    <3>1. waiting[c] \ {e} \in SUBSET Entities
      BY <1>t
    <3> QED BY <3>1, <2>2, <2>5, <1>t, TypedMove
  <2> QED BY <2>1, <2>4, <2>5
<1>4. CASE Drop(c)
  <2>1. /\ Goes(c, "rename", waiting[c] \ read[c]) /\ read' = [read EXCEPT ![c] = {}]
        /\ present' \subseteq Ids /\ UNCHANGED <<refs, texts, renames>>
    BY <1>4, <1>t DEF Drop
  <2>2. waiting[c] \ read[c] \in SUBSET Entities
    BY <1>t
  <2> QED BY <2>1, <2>2, <1>e, <1>t, TypedMove
<1>5. CASE ReadRefs(c)
  <2>1. UNCHANGED content /\ UNCHANGED renames /\ Factions \subseteq Entities
    BY <1>5 DEF ReadRefs, Entities
  <2>2. CASE Goes(c, "refs", {}) /\ read' = [read EXCEPT ![c] = refs]
    <3>1. read'[c] = refs /\ refs \in SUBSET (Entities \cup Ids)
      BY <2>2, <1>t
    <3> QED BY <3>1, <2>1, <2>2, <1>e, <1>t, TypedMove DEF content
  <2>3. CASE Goes(c, "factions", Factions) /\ UNCHANGED read
    BY <2>1, <2>3, <1>e, <1>t, TypedMove DEF content
  <2> QED BY <2>2, <2>3, <1>5 DEF ReadRefs
<1>6. CASE WriteRefs(c)
  <2>1. Rewritten(read[c], renames[c]) \subseteq Ids
    BY <1>6, <1>t, IdsOf DEF WriteRefs
  <2>2. /\ Goes(c, "factions", Factions) /\ read' = [read EXCEPT ![c] = {}]
        /\ refs' \subseteq Ids /\ UNCHANGED <<present, texts, renames>>
    BY <1>6, <2>1, <1>t DEF WriteRefs
  <2> QED BY <2>2, <1>e, <1>t, TypedMove
<1>7. CASE NextFaction(c)
  <2>1. UNCHANGED content
    BY <1>7 DEF NextFaction
  <2>2. CASE Ends(c)
    BY <2>1, <2>2, <1>e, <1>t, TypedMove DEF Ends, content
  <2>3. ASSUME NEW f \in waiting[c], read' = [read EXCEPT ![c] = {f}], renames' = renames,
               Goes(c, IF Has(f, "new") THEN "text" ELSE "create", waiting[c])
        PROVE  RefreshTyped'
    <3>1. read'[c] = {f} /\ {f} \in SUBSET Entities
      BY <2>3, <1>t
    <3>2. CASE Goes(c, "text", waiting[c])
      BY <3>1, <3>2, <2>1, <2>3, <1>e, <1>t, TypedMove DEF content
    <3>3. CASE Goes(c, "create", waiting[c])
      BY <3>1, <3>3, <2>1, <2>3, <1>e, <1>t, TypedMove DEF content
    <3> QED BY <2>3, <3>2, <3>3
  <2> QED BY <2>2, <2>3, <1>7 DEF NextFaction
<1>8. CASE CreateFaction(c)
  <2>1. UNCHANGED <<refs, texts>>
    BY <1>8 DEF CreateFaction
  <2>2. CASE Ends(c) /\ UNCHANGED present
    BY <2>1, <2>2, <1>e, <1>t, TypedMove DEF Ends
  <2>3. ASSUME NEW f \in read[c], present' = present \cup New({f}), Goes(c, "text", waiting[c]),
               UNCHANGED <<renames, read>>
        PROVE  RefreshTyped'
    <3>1. read[c] \subseteq Entities
      BY <1>8, <1>t DEF CreateFaction
    <3>2. New({f}) \subseteq Ids
      BY <3>1, <1>n
    <3> QED BY <3>1, <3>2, <2>1, <2>3, <1>t, TypedMove
  <2> QED BY <2>2, <2>3, <1>8 DEF CreateFaction
<1>9. CASE Text(c)
  <2>1. New(read[c]) \subseteq Ids
    BY <1>9, <1>t, <1>n DEF Text
  <2>2. /\ Goes(c, "factions", waiting[c] \ read[c]) /\ read' = [read EXCEPT ![c] = {}]
        /\ texts' \subseteq Ids /\ UNCHANGED <<present, refs, renames>>
    BY <1>9, <2>1, <1>t DEF Text
  <2>3. waiting[c] \ read[c] \in SUBSET Entities
    BY <1>t
  <2> QED BY <2>2, <2>3, <1>e, <1>t, TypedMove
<1>10. CASE Fails(c)
  BY <1>10, <1>e, <1>t, TypedMove DEF Fails, Ends, content
<1> QED BY <1>1, <1>2, <1>3, <1>4, <1>5, <1>6, <1>7, <1>8, <1>9, <1>10 DEF StageOf

LEMMA TypedRest ==
  ASSUME RefreshTyped, Restart \/ Edit \/ Save \/ UNCHANGED refreshVars
  PROVE  RefreshTyped'
<1>1. CASE Restart
  <2>1. /\ stage' = [c \in Refreshers |-> "idle"] /\ renames' = [c \in Refreshers |-> {}]
        /\ waiting' = [c \in Refreshers |-> {}] /\ read' = [c \in Refreshers |-> {}]
        /\ draft' = NoDraft /\ settled' = FALSE /\ spoilt' = TRUE
        /\ faults' = faults + 1 /\ UNCHANGED <<present, refs, texts, refreshes, changes>>
    BY <1>1 DEF Restart, Fault, content
  <2>2. /\ stage' \in [Refreshers -> Stages] /\ renames' \in [Refreshers -> SUBSET Entities]
        /\ waiting' \in [Refreshers -> SUBSET Entities]
        /\ read' \in [Refreshers -> SUBSET (Entities \cup Ids)]
    BY <2>1 DEF Stages
  <2>3. settled' \in BOOLEAN /\ spoilt' \in BOOLEAN
    BY <2>1
  <2>4. refreshes' \in Nat /\ faults' \in Nat /\ changes' \in Nat
    BY <2>1 DEF RefreshTyped
  <2>5. \A c \in Refreshers : RefreshHolds(c)'
    BY <2>1 DEF RefreshHolds
  <2> QED BY <2>1, <2>2, <2>3, <2>4, <2>5 DEF RefreshTyped
<1>2. CASE Edit
  <2>1. draft' \subseteq Ids
    BY <1>2 DEF Edit, MapDocs, RefreshTyped
  <2> QED BY <2>1, <1>2 DEF Edit, RefreshTyped, RefreshHolds, content, locals
<1>3. CASE Save
  BY <1>3 DEF Save, RefreshTyped, RefreshHolds, locals, counts
<1>4. CASE UNCHANGED refreshVars
  BY <1>4 DEF RefreshTyped, RefreshHolds, refreshVars, content, locals, history, counts
<1> QED BY <1>1, <1>2, <1>3, <1>4

LEMMA RefreshTypedInit == RefreshInit => RefreshTyped
<1> SUFFICES ASSUME RefreshInit PROVE RefreshTyped
  OBVIOUS
<1>1. present \subseteq Ids /\ refs \subseteq Ids /\ texts \subseteq Ids /\ draft = NoDraft
  BY DEF RefreshInit, MapDocs
<1>2. /\ stage = [c \in Refreshers |-> "idle"] /\ renames = [c \in Refreshers |-> {}]
      /\ waiting = [c \in Refreshers |-> {}] /\ read = [c \in Refreshers |-> {}]
  BY DEF RefreshInit
<1>3. /\ stage \in [Refreshers -> Stages] /\ renames \in [Refreshers -> SUBSET Entities]
      /\ waiting \in [Refreshers -> SUBSET Entities]
      /\ read \in [Refreshers -> SUBSET (Entities \cup Ids)]
  BY <1>2 DEF Stages
<1>4. settled \in BOOLEAN /\ spoilt \in BOOLEAN
  BY DEF RefreshInit
<1>5. refreshes \in Nat /\ faults \in Nat /\ changes \in Nat
  BY DEF RefreshInit
<1>6. \A c \in Refreshers : RefreshHolds(c)
  BY <1>2 DEF RefreshHolds
<1> QED BY <1>1, <1>3, <1>4, <1>5, <1>6 DEF RefreshTyped

LEMMA RefreshTypedAlways == RefreshTyped /\ [RefreshNext]_refreshVars => RefreshTyped'
  BY RefreshTypedStep, TypedRest DEF RefreshNext, StageOf

\* Every variable of the refresh keeps its type.
THEOREM RefreshTypeCorrect == RefreshSpec => []RefreshTypeOK
<1>1. RefreshTyped => RefreshTypeOK
  BY DEF RefreshTyped, RefreshTypeOK, Stages
<1> QED BY <1>1, RefreshTypedInit, RefreshTypedAlways, PTL DEF RefreshSpec

\* A document is deleted under its old identifier only when the new one is
\* there, and that one stays (content_refresh.py), for every set of entities and
\* any number of refreshes that overlap, fail and are cut short.
THEOREM DocumentsSurvive == RefreshSpec => NothingLost
<1> DEFINE Stays == \A e \in Entities : Has(e, "old") \/ Has(e, "new") => Has(e, "old")' \/ Has(e, "new")'
<1>1. RefreshTyped /\ [RefreshNext]_refreshVars => [Stays]_refreshVars
  <2> SUFFICES ASSUME RefreshTyped, [RefreshNext]_refreshVars, NEW e \in Entities, Has(e, "old") \/ Has(e,
                      "new")
               PROVE  Has(e, "old")' \/ Has(e, "new")'
    OBVIOUS
  <2>1. ASSUME NEW c \in Refreshers, Drop(c) PROVE Has(e, "old")' \/ Has(e, "new")'
    <3>1. New(read[c]) \subseteq present
      BY <2>1 DEF RefreshTyped, RefreshHolds, Drop
    <3>2. CASE e \in read[c]
      BY <3>1, <3>2, <2>1 DEF Drop, Has, New, Old
    <3>3. CASE e \notin read[c]
      BY <3>3, <2>1 DEF Drop, Has, Old
    <3> QED BY <3>2, <3>3
  <2>2. CASE present \subseteq present'
    BY <2>2 DEF Has
  <2>3. ASSUME NEW c \in Refreshers, StageOf(c), ~Drop(c) PROVE present \subseteq present'
    BY <2>3 DEF StageOf, BeginRefresh, Scan, RenameDoc, Put, ReadRefs, WriteRefs, NextFaction,
       CreateFaction,
       Text, Fails, content
  <2>4. CASE Restart \/ Edit \/ Save \/ UNCHANGED refreshVars
    BY <2>2, <2>4 DEF Restart, Edit, Save, refreshVars, content
  <2> QED BY <2>1, <2>2, <2>3, <2>4 DEF RefreshNext, StageOf
<1> QED BY <1>1, RefreshTypedInit, RefreshTypedAlways, PTL DEF RefreshSpec, NothingLost

-----------------------------------------------------------------------------
(* What holds of a refresh that runs alone.                                 *)

SoloRefresh == \A c, o \in Busy : c = o
SoloInv == settled \/ ~spoilt => SoloRefresh

\* Of one that nothing disturbs: what it has still to rename, then which
\* factions are complete.
Complete(S) == New(S) \subseteq present /\ New(S) \subseteq texts
Progress(c) ==
  /\ stage[c] \in {"rename", "drop"} => Legacy \subseteq waiting[c]
  /\ stage[c] \in {"refs", "factions", "create", "text"} => Legacy = {}
  /\ stage[c] \in {"factions", "create", "text"} => Complete(Factions \ waiting[c])
  /\ stage[c] = "create" => \E f \in Entities : read[c] = {f} /\ ~Has(f, "new")
  /\ stage[c] = "text" => New(read[c]) \subseteq present
SettledInv == settled => (Busy = {} => Complete(Factions)) /\ \A c \in Refreshers : Progress(c)

\* While nothing failed or overlapped: the references that are gone are those
\* that it is about to rewrite.
Stepped(c) == refs \subseteq present \cup Old(renames[c])
Sure(c) ==
  /\ stage[c] \in {"scan", "factions", "create", "text"} => refs \subseteq present
  /\ stage[c] \in {"rename", "drop"} =>
       /\ Stepped(c) /\ (stage[c] = "drop" => read[c] \subseteq waiting[c])
       /\ waiting[c] \subseteq renames[c]
       /\ \A e \in waiting[c] : Has(e, "old")
       /\ New(renames[c] \ waiting[c]) \subseteq present
  /\ stage[c] = "refs" => Stepped(c) /\ read[c] = refs /\ New(renames[c]) \subseteq present
CleanInv ==
  ~spoilt =>
    /\ Busy = {} => refs \subseteq present
    /\ draft # NoDraft => Busy = {} /\ draft \subseteq present
    /\ \A c \in Refreshers : Sure(c)

RefreshInv == RefreshTyped /\ SoloInv /\ SettledInv /\ CleanInv

\* A refresh whose step leaves it undisturbed is the only one.
LEMMA Alone ==
  ASSUME RefreshTyped, SoloInv, NEW c \in Refreshers, StageOf(c), settled' \/ ~spoilt'
  PROVE  /\ \A o \in Refreshers : o # c => stage[o] = "idle" /\ stage'[o] = "idle"
         /\ IF BeginRefresh(c) THEN Busy = {} ELSE Fine /\ c \in Busy
<1>1. PICK n : stage' = [stage EXCEPT ![c] = n]
  BY StageShape
<1>2. CASE BeginRefresh(c)
  <2>1. Busy = {}
    BY <1>2 DEF BeginRefresh
  <2> QED BY <1>1, <1>2, <2>1 DEF Busy, RefreshTyped
<1>3. CASE ~BeginRefresh(c)
  <2>1. Fine \/ Fault
    BY <1>3 DEF StageOf, Scan, RenameDoc, Drop, ReadRefs, WriteRefs, NextFaction, CreateFaction,
       Text, Fails
  <2>2. Fine
    BY <2>1 DEF Fault
  <2>3. SoloRefresh
    BY <2>2 DEF SoloInv, Fine
  <2>4. c \in Busy
    BY <1>3, StageShape DEF Busy
  <2> QED BY <1>1, <1>3, <2>2, <2>3, <2>4 DEF SoloRefresh, Busy, RefreshTyped
<1> QED BY <1>2, <1>3

LEMMA SoloStep ==
  ASSUME RefreshTyped, SoloInv, NEW c \in Refreshers, StageOf(c)
  PROVE  SoloInv'
  BY Alone DEF SoloInv, SoloRefresh, Busy

\* What a step must show of its own refresh, when nothing disturbed it.
LEMMA SettledMove ==
  ASSUME RefreshTyped, SoloInv, SettledInv, NEW c \in Refreshers, StageOf(c), settled',
         settled => Progress(c)', settled => (stage'[c] = "idle" => Complete(Factions)')
  PROVE  SettledInv'
<1>1. \A o \in Refreshers : o # c => Progress(o)'
  BY Alone DEF Progress
<1>2. CASE BeginRefresh(c)
  <2>1. stage'[c] = "scan"
    BY <1>2 DEF BeginRefresh, Goes, RefreshTyped
  <2> QED BY <1>1, <2>1 DEF SettledInv, Progress, Busy
<1>3. CASE ~BeginRefresh(c)
  <2>1. settled
    BY <1>3, Alone DEF Fine
  <2> QED BY <1>1, <2>1 DEF SettledInv, Busy
<1> QED BY <1>2, <1>3

LEMMA SettledStep ==
  ASSUME RefreshTyped, SoloInv, SettledInv, NEW c \in Refreshers, StageOf(c)
  PROVE  SettledInv'
<1> SUFFICES ASSUME settled' PROVE SettledInv'
  BY DEF SettledInv
<1> SUFFICES ASSUME settled
             PROVE  Progress(c)' /\ (stage'[c] = "idle" => Complete(Factions)')
  BY SettledMove
<1>t. /\ Progress(c) /\ RefreshHolds(c) /\ waiting[c] \subseteq Entities
      /\ stage \in [Refreshers -> Stages] /\ waiting \in [Refreshers -> SUBSET Entities]
      /\ read \in [Refreshers -> SUBSET (Entities \cup Ids)]
  BY DEF SettledInv, RefreshTyped
<1>1. CASE BeginRefresh(c)
  BY <1>1, <1>t DEF BeginRefresh, Goes, Progress
<1>f. ASSUME ~BeginRefresh(c) PROVE Fine
  BY <1>f, Alone
<1>2. CASE Scan(c)
  <2>1. Fine /\ ~Fault
    BY <1>2, <1>f DEF Scan, BeginRefresh, Fine, Fault
  <2>2. IF Legacy = {} THEN Goes(c, "factions", Factions) ELSE Goes(c, "rename", Legacy)
    BY <2>1, <1>2 DEF Scan
  <2>3. Legacy' = Legacy
    BY <1>2 DEF Scan, content, Legacy, Has
  <2> QED BY <2>2, <2>3, <1>t DEF Goes, Progress, Complete, New
<1>3. CASE RenameDoc(c)
  <2>1. PICK e \in waiting[c] :
          \/ /\ present' = Put(e) /\ Goes(c, "drop", waiting[c])
          \/ /\ ~Has(e, "old") /\ UNCHANGED present /\ Goes(c, "rename", waiting[c] \ {e})
    BY <1>3, <1>f, <1>t DEF RenameDoc, BeginRefresh, Renamed, Fine, Fault
  <2>2. Legacy \subseteq waiting[c]
    BY <1>3, <1>t DEF Progress, RenameDoc
  <2>3. Legacy' \subseteq waiting'[c]
    BY <2>1, <2>2, <1>t DEF Put, New, Goes, Legacy, Has
  <2>4. stage'[c] \in {"rename", "drop"}
    BY <2>1, <1>t DEF Goes
  <2> QED BY <2>3, <2>4 DEF Progress
<1>4. CASE Drop(c)
  <2>1. present' = present \ Old(read[c]) \/ (UNCHANGED present /\ Fault)
    BY <1>4 DEF Drop
  <2>2. present' = present \ Old(read[c]) /\ Goes(c, "rename", waiting[c] \ read[c])
    BY <1>4, <2>1, <1>f DEF Drop, BeginRefresh, Fine, Fault
  <2>3. Legacy \subseteq waiting[c]
    BY <1>4, <1>t DEF Progress, Drop
  <2>4. Legacy' \subseteq waiting[c] \ read[c]
    BY <2>2, <2>3 DEF Legacy, Has, Old
  <2>5. stage'[c] = "rename" /\ waiting'[c] = waiting[c] \ read[c]
    BY <2>2, <1>t DEF Goes
  <2> QED BY <2>4, <2>5 DEF Progress
<1>5. CASE ReadRefs(c)
  <2>1. Legacy = {}
    BY <1>5, <1>t DEF Progress, ReadRefs
  <2>2. stage'[c] = "refs" /\ Legacy' = Legacy
    BY <1>5, <1>f, <1>t DEF ReadRefs, BeginRefresh, Goes, Fine, Fault, content, Legacy, Has
  <2> QED BY <2>1, <2>2 DEF Progress
<1>6. CASE WriteRefs(c)
  <2>1. Legacy = {} /\ Legacy' = Legacy
    BY <1>6, <1>t DEF Progress, WriteRefs, Legacy, Has
  <2>2. stage'[c] = "factions" /\ waiting'[c] = Factions
    BY <1>6, <1>t DEF WriteRefs, Goes
  <2> QED BY <2>1, <2>2 DEF Progress, Complete, New
<1>7. CASE NextFaction(c)
  <2>1. /\ Legacy = {} /\ Complete(Factions \ waiting[c])
        /\ UNCHANGED <<present, texts>> /\ Legacy' = Legacy
    BY <1>7, <1>t DEF Progress, NextFaction, content, Legacy, Has
  <2>2. CASE waiting[c] = {}
    <3>1. stage'[c] = "idle" /\ Complete(Factions)
      BY <2>1, <2>2, <1>7, <1>t DEF NextFaction, Ends, Goes
    <3> QED BY <2>1, <3>1 DEF Progress, Complete
  <2>3. CASE waiting[c] # {}
    <3>1. PICK f \in waiting[c] : /\ read' = [read EXCEPT ![c] = {f}]
               /\ Goes(c, IF Has(f, "new") THEN "text" ELSE "create", waiting[c])
      BY <2>3, <1>7 DEF NextFaction
    <3>2. read'[c] = {f} /\ f \in Entities /\ waiting'[c] = waiting[c]
      BY <3>1, <1>t DEF Goes
    <3>3. stage'[c] = IF Has(f, "new") THEN "text" ELSE "create"
      BY <3>1, <1>t DEF Goes
    <3>4. Complete(Factions \ waiting[c])'
      BY <2>1, <3>2 DEF Complete
    <3> QED BY <2>1, <3>2, <3>3, <3>4 DEF Progress, Has, New
  <2> QED BY <2>2, <2>3
<1>8. CASE CreateFaction(c)
  <2>1. Legacy = {} /\ Complete(Factions \ waiting[c])
    BY <1>8, <1>t DEF Progress, CreateFaction
  <2>2. PICK f \in Entities : read[c] = {f} /\ ~Has(f, "new")
    BY <1>8, <1>t DEF Progress, CreateFaction
  <2>3. ~Has(f, "old")
    BY <2>1, <2>2 DEF Legacy
  <2>4. /\ present' = present \cup New(read[c]) /\ Goes(c, "text", waiting[c])
        /\ UNCHANGED <<read, texts>>
    BY <1>8, <2>2, <2>3 DEF CreateFaction
  <2>5. Legacy' = {}
    BY <2>1, <2>4 DEF Legacy, Has, New
  <2>6. stage'[c] = "text" /\ waiting'[c] = waiting[c]
    BY <2>4, <1>t DEF Goes
  <2> QED BY <2>1, <2>4, <2>5, <2>6 DEF Progress, Complete
<1>9. CASE Text(c)
  <2>1. /\ Legacy = {} /\ Complete(Factions \ waiting[c]) /\ New(read[c]) \subseteq present
        /\ Legacy' = Legacy
    BY <1>9, <1>t DEF Progress, Text, Legacy, Has
  <2>2. /\ texts' = texts \cup New(read[c]) /\ UNCHANGED present
        /\ stage'[c] = "factions" /\ waiting'[c] = waiting[c] \ read[c]
    BY <1>9, <1>t DEF Text, Goes
  <2>3. New(Factions \ waiting'[c]) \subseteq New(Factions \ waiting[c]) \cup New(read[c])
    BY <2>2 DEF New
  <2> QED BY <2>1, <2>2, <2>3 DEF Progress, Complete
<1>10. CASE Fails(c)
  BY <1>10, <1>f DEF Fails, BeginRefresh, Fine, Fault
<1> QED BY <1>1, <1>2, <1>3, <1>4, <1>5, <1>6, <1>7, <1>8, <1>9, <1>10 DEF StageOf

\* The references that a step leaves, when nothing disturbed it.
LEMMA CleanMove ==
  ASSUME RefreshTyped, SoloInv, CleanInv, NEW c \in Refreshers, StageOf(c), ~spoilt',
         Sure(c)', stage'[c] = "idle" => refs' \subseteq present'
  PROVE  CleanInv'
<1>1. \A o \in Refreshers : o # c => Sure(o)'
  BY Alone DEF Sure
<1>2. draft' = NoDraft
  <2>1. draft' = draft
    BY StageShape
  <2>2. CASE BeginRefresh(c)
    BY <2>1, <2>2 DEF BeginRefresh
  <2>3. CASE ~BeginRefresh(c)
    BY <2>1, <2>3, Alone DEF Fine, CleanInv
  <2> QED BY <2>2, <2>3
<1>3. Busy' = {} => refs' \subseteq present'
  BY DEF Busy
<1> QED BY <1>1, <1>2, <1>3 DEF CleanInv

LEMMA CleanStep ==
  ASSUME RefreshTyped, SoloInv, CleanInv, NEW c \in Refreshers, StageOf(c)
  PROVE  CleanInv'
<1> SUFFICES ASSUME ~spoilt' PROVE CleanInv'
  BY DEF CleanInv
<1> SUFFICES Sure(c)' /\ (stage'[c] = "idle" => refs' \subseteq present')
  BY CleanMove
<1>t. /\ RefreshHolds(c) /\ waiting[c] \subseteq Entities
      /\ stage \in [Refreshers -> Stages] /\ waiting \in [Refreshers -> SUBSET Entities]
      /\ renames \in [Refreshers -> SUBSET Entities]
      /\ read \in [Refreshers -> SUBSET (Entities \cup Ids)]
  BY DEF RefreshTyped
<1>f. ASSUME ~BeginRefresh(c) PROVE ~Fault /\ Sure(c)
  BY <1>f, Alone DEF Fine, Fault, CleanInv
<1>1. CASE BeginRefresh(c)
  <2>1. Busy = {} /\ refs \subseteq present
    BY <1>1, Alone DEF BeginRefresh, CleanInv
  <2>2. stage'[c] = "scan" /\ UNCHANGED <<refs, present>>
    BY <1>1, <1>t DEF BeginRefresh, Goes, content
  <2> QED BY <2>1, <2>2 DEF Sure
<1>2. CASE Scan(c)
  <2>1. ~Fault /\ refs \subseteq present
    BY <1>2, <1>f DEF Scan, BeginRefresh, Sure
  <2>2. /\ renames' = [renames EXCEPT ![c] = Legacy] /\ UNCHANGED <<refs, present>>
        /\ IF Legacy = {} THEN Goes(c, "factions", Factions) ELSE Goes(c, "rename", Legacy)
    BY <2>1, <1>2 DEF Scan, content
  <2>3. \/ stage'[c] = "factions"
        \/ stage'[c] = "rename" /\ waiting'[c] = Legacy /\ renames'[c] = Legacy
    BY <2>2, <1>t DEF Goes
  <2> QED BY <2>1, <2>2, <2>3 DEF Sure, Stepped, Legacy, Has, New
<1>3. CASE RenameDoc(c)
  <2>1. /\ ~Fault /\ Stepped(c) /\ waiting[c] \subseteq renames[c]
        /\ \A e \in waiting[c] : Has(e, "old")
        /\ New(renames[c] \ waiting[c]) \subseteq present
    BY <1>3, <1>f DEF RenameDoc, BeginRefresh, Sure
  <2>2. PICK e \in waiting[c] :
          /\ present' = Put(e) /\ Goes(c, "drop", waiting[c]) /\ read' = [read EXCEPT ![c] = {e}]
    BY <2>1, <1>3, <1>t DEF RenameDoc, Renamed
  <2>3. UNCHANGED <<refs, renames>> /\ present \subseteq present'
    BY <2>2, <1>3 DEF RenameDoc, Put
  <2>4. stage'[c] = "drop" /\ waiting'[c] = waiting[c] /\ read'[c] = {e}
    BY <2>2, <1>t DEF Goes
  <2> QED BY <2>1, <2>3, <2>4 DEF Sure, Stepped, Has
<1>4. CASE Drop(c)
  <2>1. /\ ~Fault /\ Stepped(c) /\ waiting[c] \subseteq renames[c] /\ read[c] \subseteq waiting[c]
        /\ \A e \in waiting[c] : Has(e, "old")
        /\ New(renames[c] \ waiting[c]) \subseteq present /\ New(read[c]) \subseteq present
    BY <1>4, <1>f, <1>t DEF Drop, BeginRefresh, Sure, RefreshHolds
  <2>2. /\ present' = present \ Old(read[c]) /\ Goes(c, "rename", waiting[c] \ read[c])
        /\ UNCHANGED <<refs, renames>>
    BY <2>1, <1>4 DEF Drop
  <2>3. stage'[c] = "rename" /\ waiting'[c] = waiting[c] \ read[c]
    BY <2>2, <1>t DEF Goes
  <2>4. Stepped(c)'
    BY <2>1, <2>2 DEF Stepped, Old
  <2>5. \A e \in waiting'[c] : Has(e, "old")'
    BY <2>1, <2>2, <2>3 DEF Has, Old
  <2>6. New(renames[c] \ waiting'[c]) \subseteq present'
    BY <2>1, <2>2, <2>3 DEF New, Old
  <2> QED BY <2>1, <2>2, <2>3, <2>4, <2>5, <2>6 DEF Sure
<1>5. CASE ReadRefs(c)
  <2>1. ~Fault /\ Stepped(c) /\ New(renames[c] \ waiting[c]) \subseteq present /\ waiting[c] = {}
    BY <1>5, <1>f DEF ReadRefs, BeginRefresh, Sure
  <2>2. /\ Goes(c, "refs", {}) /\ read' = [read EXCEPT ![c] = refs]
        /\ UNCHANGED <<refs, renames, present>>
    BY <2>1, <1>5 DEF ReadRefs, content
  <2>3. stage'[c] = "refs" /\ read'[c] = refs /\ New(renames[c]) \subseteq present
    BY <2>1, <2>2, <1>t DEF Goes, New
  <2> QED BY <2>1, <2>2, <2>3 DEF Sure, Stepped
<1>6. CASE WriteRefs(c)
  <2>1. ~Fault /\ Stepped(c) /\ read[c] = refs /\ New(renames[c]) \subseteq present
    BY <1>6, <1>f DEF WriteRefs, BeginRefresh, Sure
  <2>2. /\ stage'[c] = "factions" /\ UNCHANGED present
        /\ IF refs \cap Old(renames[c]) = {} THEN UNCHANGED refs
           ELSE refs' = Rewritten(refs, renames[c])
    BY <2>1, <1>6, <1>t DEF WriteRefs, Goes
  <2>3. refs' \subseteq present
    BY <2>1, <2>2 DEF Rewritten, Stepped, New
  <2> QED BY <2>2, <2>3 DEF Sure
<1>7. CASE NextFaction(c)
  <2>1. refs \subseteq present /\ UNCHANGED <<refs, present>>
    BY <1>7, <1>f DEF NextFaction, BeginRefresh, Sure, content
  <2>2. stage'[c] \in {"idle", "text", "create"}
    BY <1>7, <1>t DEF NextFaction, Ends, Goes
  <2> QED BY <2>1, <2>2 DEF Sure
<1>8. CASE CreateFaction(c)
  <2>1. refs \subseteq present /\ UNCHANGED refs /\ present \subseteq present'
    BY <1>8, <1>f DEF CreateFaction, BeginRefresh, Sure
  <2>2. stage'[c] \in {"idle", "text"}
    BY <1>8, <1>t DEF CreateFaction, Ends, Goes
  <2> QED BY <2>1, <2>2 DEF Sure
<1>9. CASE Text(c)
  <2>1. refs \subseteq present /\ UNCHANGED <<refs, present>>
    BY <1>9, <1>f DEF Text, BeginRefresh, Sure
  <2>2. stage'[c] = "factions"
    BY <1>9, <1>t DEF Text, Goes
  <2> QED BY <2>1, <2>2 DEF Sure
<1>10. CASE Fails(c)
  BY <1>10, <1>f DEF Fails, BeginRefresh
<1> QED BY <1>1, <1>2, <1>3, <1>4, <1>5, <1>6, <1>7, <1>8, <1>9, <1>10 DEF StageOf

\* A restart, an edit and its saving: none of them happens under a refresh that
\* is still called undisturbed.
LEMMA InvRest ==
  ASSUME RefreshInv, Restart \/ Edit \/ Save \/ UNCHANGED refreshVars
  PROVE  SoloInv' /\ SettledInv' /\ CleanInv'
<1>1. CASE Restart
  BY <1>1 DEF Restart, Fault, SoloInv, SettledInv, CleanInv
<1>2. CASE Edit \/ Save \/ UNCHANGED refreshVars
  <2>1. UNCHANGED <<present, texts, stage, renames, waiting, read, settled>> /\ (spoilt => spoilt')
    BY <1>2 DEF Edit, Save, refreshVars, content, locals, history, RefreshInv, RefreshTyped
  <2>2. SoloInv' /\ Busy' = Busy
    BY <2>1 DEF RefreshInv, SoloInv, SoloRefresh, Busy
  <2>3. SettledInv'
    BY <2>1, <2>2 DEF RefreshInv, SettledInv, Progress, Complete, Legacy, Has
  <2>4. ASSUME UNCHANGED refreshVars PROVE CleanInv'
    <3>1. UNCHANGED <<present, refs, draft, stage, renames, waiting, read, spoilt>>
      BY <2>4 DEF refreshVars, content, locals, history
    <3>2. (\A c \in Refreshers : Sure(c)) => \A c \in Refreshers : Sure(c)'
      BY <3>1 DEF Sure, Stepped, Has
    <3> QED BY <2>2, <3>1, <3>2 DEF RefreshInv, CleanInv
  <2>5. ASSUME Edit \/ Save PROVE CleanInv'
    <3> SUFFICES ASSUME ~spoilt' PROVE CleanInv'
      BY DEF CleanInv
    <3>1. ~spoilt /\ Busy = {} /\ refs \subseteq present
      BY <2>1, <2>5 DEF Edit, Save, RefreshInv, CleanInv
    <3>2. \A c \in Refreshers : Sure(c)'
      BY <2>2, <3>1 DEF Busy, Sure
    <3>3. refs' \subseteq present /\ (draft' # NoDraft => draft' \subseteq present)
      BY <2>5, <3>1 DEF Edit, Save, MapDocs, content, RefreshInv, CleanInv
    <3> QED BY <2>1, <2>2, <3>1, <3>2, <3>3 DEF CleanInv
  <2> QED BY <2>2, <2>3, <2>4, <2>5, <1>2
<1> QED BY <1>1, <1>2

LEMMA InvAlways == RefreshInv /\ [RefreshNext]_refreshVars => RefreshInv'
<1> SUFFICES ASSUME RefreshInv, [RefreshNext]_refreshVars PROVE RefreshInv'
  OBVIOUS
<1>1. RefreshTyped'
  BY RefreshTypedAlways DEF RefreshInv
<1>2. CASE \E c \in Refreshers : StageOf(c)
  BY <1>1, <1>2, SoloStep, SettledStep, CleanStep DEF RefreshInv
<1>3. CASE Restart \/ Edit \/ Save \/ UNCHANGED refreshVars
  BY <1>1, <1>3, InvRest DEF RefreshInv
<1> QED BY <1>2, <1>3 DEF RefreshNext, StageOf

LEMMA InvInit == RefreshInit => RefreshInv
<1> SUFFICES ASSUME RefreshInit PROVE RefreshInv
  OBVIOUS
<1>1. /\ \A c \in Refreshers : stage[c] = "idle"
      /\ settled = FALSE /\ draft = NoDraft /\ refs \subseteq present
  BY DEF RefreshInit, MapDocs
<1> QED BY <1>1, RefreshTypedInit DEF RefreshInv, SoloInv, SoloRefresh, Busy, SettledInv, CleanInv, Sure

\* A refresh that ran undisturbed leaves every faction with its document and its
\* text, whatever an earlier one left half done; and while nothing failed or
\* overlapped no pool references a map that is gone (content_refresh.py).
THEOREM RefreshHeals == RefreshSpec => []Refreshed
<1>1. RefreshInv => Refreshed
  BY DEF RefreshInv, SettledInv, CleanInv, Complete, Refreshed
<1> QED BY <1>1, InvInit, InvAlways, PTL DEF RefreshSpec

-----------------------------------------------------------------------------
(* THE SOURCE OF THE MAPS.                                                  *)

\* The types, and a thread at work has a request to make.
SourceTyped ==
  /\ SourceTypeOK
  /\ \A c \in Askers : step[c] # "idle" => plan[c] # << >>

\* While one thread at a time is at work: a request about to leave waits for its
\* interval, and none is under way before the last window has lapsed.
PaceKept ==
  /\ \A c, d \in Askers : step[c] # "idle" /\ step[d] # "idle" => c = d
  /\ \A k \in Kinds : sent[k] <= marked[k] /\ marked[k] <= now
  /\ \A c \in Askers : step[c] = "pace" => marked[Kind(c)] + Interval[Kind(c)] <= due[c]
  /\ ~tight
WindowsKept ==
  /\ refused = streak /\ ~broke
  /\ refused # 0 =>
       /\ openUntil = shutAt + Stretch(refused)
       /\ \A c \in Askers : step[c] \in {"pace", "sent", "wait"} => openUntil <= now

\* What a thread has sent since the circuit opened, by the retries it has made.
CircuitKept ==
  Open => \A c \in Askers :
    /\ after[c] <= MaxRetries + 1
    /\ step[c] \in {"pace", "wait"} => after[c] <= attempt[c]
    /\ step[c] = "sent" => after[c] <= attempt[c] + 1

SourceInv == SourceTyped /\ (~overlapped => PaceKept /\ WindowsKept) /\ CircuitKept

LEMMA NatSums == \A x, y \in Nat : x + y \in Nat /\ x * y \in Nat
OBVIOUS

LEMMA NatLater ==
  \A x, y, z \in Nat : x <= y /\ y <= z => x <= y /\ y <= z + 1
OBVIOUS

LEMMA NatBetween ==
  \A x, y, z \in Nat : x <= y /\ y <= z => x <= z /\ z <= z /\ x + 1 <= z + 1 /\ x + 1 <= y + 1
OBVIOUS

LEMMA NatChain ==
  \A x, y, i, d, n \in Nat : x <= y /\ y + i <= d /\ n >= d => x + i <= n
OBVIOUS

\* A power of two is the number of subsets of a set.
LEMMA PowersOfTwo == ASSUME NEW n \in Nat PROVE 2 ^ n \in Nat
<1> DEFINE S == 1..n
<1>1. IsFiniteSet(S) /\ Cardinality(S) = n
  BY FS_Interval
<1>2. IsFiniteSet(SUBSET S) /\ Cardinality(SUBSET S) = 2 ^ n
  BY <1>1, FS_SUBSET
<1> QED BY <1>2, FS_CardinalityType

LEMMA StretchIsNat == ASSUME MapSourceAssumption, NEW n \in Nat \ {0} PROVE Stretch(n) \in Nat
<1>1. n - 1 \in Nat /\ 2 ^ (n - 1) \in Nat
  BY PowersOfTwo
<1>2. Window * 2 ^ (n - 1) \in Nat
  BY <1>1 DEF MapSourceAssumption
<1> QED BY <1>2 DEF MapSourceAssumption, Stretch, Least

\* What is left to request, and the request at hand.
LEMMA PlanTyped ==
  ASSUME MapSourceAssumption, SourceTyped, NEW c \in Askers, step[c] # "idle"
  PROVE  /\ Kind(c) \in Kinds /\ Tail(plan[c]) \in Seq(Kinds)
         /\ Interval[Kind(c)] \in Nat \ {0} /\ marked[Kind(c)] \in Nat /\ sent[Kind(c)] \in Nat
<1>1. plan[c] \in Seq(Kinds) /\ plan[c] # << >>
  BY DEF SourceTyped, SourceTypeOK
<1>2. Kind(c) \in Kinds /\ Tail(plan[c]) \in Seq(Kinds)
  BY <1>1 DEF Kind
<1>3. Interval \in [Kinds -> Nat \ {0}] /\ marked \in [Kinds -> Nat] /\ sent \in [Kinds -> Nat]
  BY DEF MapSourceAssumption, SourceTyped, SourceTypeOK
<1> QED BY <1>2, <1>3

\* What is well typed after a job ends, goes on with its next title, or begins.
LEMMA LeaveTyped ==
  ASSUME MapSourceAssumption, SourceTyped, NEW c \in Askers, Leave(c)
  PROVE  /\ step' \in [Askers -> {"idle", "ask", "pace", "sent", "wait"}]
         /\ plan' \in [Askers -> Seq(Kinds)]
         /\ \A w \in Askers : step'[w] # "idle" => plan'[w] # << >>
         /\ tries' \in [Askers -> Nat] /\ due' \in [Askers -> Nat]
         /\ attempt' \in [Askers -> 0..MaxRetries] /\ doneAt' \in Nat
         /\ job' \in [Askers -> {"none", "import", "sync"}]
<1> USE DEF Leave, SourceTyped, SourceTypeOK
<1>1. << >> \in Seq(Kinds) /\ 0 \in 0..MaxRetries
  BY DEF MapSourceAssumption
<1>2. plan' \in [Askers -> Seq(Kinds)]
  BY <1>1
<1>3. /\ step' \in [Askers -> {"idle", "ask", "pace", "sent", "wait"}]
      /\ job' \in [Askers -> {"none", "import", "sync"}]
  OBVIOUS
<1>4. \A w \in Askers : step'[w] # "idle" => plan'[w] # << >>
  OBVIOUS
<1>5. /\ tries' \in [Askers -> Nat] /\ due' \in [Askers -> Nat]
      /\ attempt' \in [Askers -> 0..MaxRetries]
  BY <1>1
<1>6. doneAt' \in Nat
  OBVIOUS
<1> QED BY <1>2, <1>3, <1>4, <1>5, <1>6

LEMMA NextTitleTyped ==
  ASSUME MapSourceAssumption, SourceTyped, NEW c \in Askers, NextTitle(c)
  PROVE  /\ step' \in [Askers -> {"idle", "ask", "pace", "sent", "wait"}]
         /\ plan' \in [Askers -> Seq(Kinds)]
         /\ \A w \in Askers : step'[w] # "idle" => plan'[w] # << >>
         /\ tries' \in [Askers -> Nat] /\ due' \in [Askers -> Nat]
         /\ attempt' \in [Askers -> 0..MaxRetries] /\ doneAt' \in Nat
         /\ job' \in [Askers -> {"none", "import", "sync"}]
<1>1. CASE tries[c] = 0
  BY <1>1, LeaveTyped DEF NextTitle
<1>2. CASE tries[c] # 0
  <2>1. Requests.import \in Seq(Kinds) /\ Requests.import # << >>
    BY DEF MapSourceAssumption
  <2>2. tries \in [Askers -> Nat] /\ tries[c] \in Nat /\ tries[c] - 1 \in Nat
    <3>1. tries \in [Askers -> Nat]
      BY DEF SourceTyped, SourceTypeOK
    <3> QED BY <1>2, <3>1
  <2> USE <1>2 DEF NextTitle, SourceTyped, SourceTypeOK
  <2>3. plan' \in [Askers -> Seq(Kinds)]
    BY <2>1
  <2>4. /\ step' \in [Askers -> {"idle", "ask", "pace", "sent", "wait"}]
        /\ UNCHANGED <<due, job, doneAt>>
    OBVIOUS
  <2>5. \A w \in Askers : step'[w] # "idle" => plan'[w] # << >>
    BY <2>1
  <2>6. tries' \in [Askers -> Nat]
    BY <2>2
  <2>7. attempt' \in [Askers -> 0..MaxRetries]
    <3>1. 0 \in 0..MaxRetries
      BY DEF MapSourceAssumption
    <3>2. attempt' = [attempt EXCEPT ![c] = 0] /\ attempt \in [Askers -> 0..MaxRetries]
      OBVIOUS
    <3> QED BY <3>1, <3>2
  <2> QED BY <2>3, <2>4, <2>5, <2>6, <2>7
<1> QED BY <1>1, <1>2

LEMMA JobTyped ==
  ASSUME MapSourceAssumption, SourceTyped, NEW c \in Askers, NEW what \in {"import", "sync"},
         Job(c, what)
  PROVE  /\ step' \in [Askers -> {"idle", "ask", "pace", "sent", "wait"}]
         /\ plan' \in [Askers -> Seq(Kinds)]
         /\ \A w \in Askers : step'[w] # "idle" => plan'[w] # << >>
         /\ sent' \in [Kinds -> Nat] /\ refused' \in Nat /\ shutAt' \in Nat /\ jobs' \in Nat
         /\ overlapped' \in BOOLEAN /\ tight' = tight /\ broke' = broke
         /\ job' \in [Askers -> {"none", "import", "sync"}]
<1> USE DEF Job, SourceTyped, SourceTypeOK
<1>1. Requests[what] \in Seq(Kinds) /\ Requests[what] # << >>
  BY DEF MapSourceAssumption
<1>2. /\ plan' \in [Askers -> Seq(Kinds)]
      /\ \A w \in Askers : step'[w] # "idle" => plan'[w] # << >>
  BY <1>1
<1>3. /\ step' \in [Askers -> {"idle", "ask", "pace", "sent", "wait"}] /\ jobs' \in Nat
      /\ job' \in [Askers -> {"none", "import", "sync"}]
  <2>1. step' = [step EXCEPT ![c] = "ask"] /\ job' = [job EXCEPT ![c] = what] /\ jobs' = jobs + 1
    OBVIOUS
  <2>2. /\ step \in [Askers -> {"idle", "ask", "pace", "sent", "wait"}] /\ jobs \in Nat
        /\ job \in [Askers -> {"none", "import", "sync"}]
    OBVIOUS
  <2> HIDE DEF Job, SourceTyped, SourceTypeOK
  <2> QED BY <2>1, <2>2
<1>4. sent' \in [Kinds -> Nat] /\ refused' \in Nat /\ shutAt' \in Nat
  <2>1. CASE overlapped'
    <3>1. sent' = [k \in Kinds |-> 0] /\ refused' = 0 /\ shutAt' = 0
      BY <2>1
    <3> HIDE DEF Job, SourceTyped, SourceTypeOK
    <3> QED BY <3>1
  <2>2. CASE ~ overlapped' BY <2>2
  <2> QED BY <2>1, <2>2
<1>5. overlapped' \in BOOLEAN
  <2>1. overlapped' = (overlapped \/ AtWork # {})
    BY DEF Job
  <2> HIDE DEF Job, SourceTyped, SourceTypeOK
  <2> QED BY <2>1
<1>6. tight' = tight /\ broke' = broke
  OBVIOUS
<1> QED BY <1>2, <1>3, <1>4, <1>5, <1>6

LEMMA SourceTypedStep ==
  ASSUME MapSourceAssumption, SourceTyped, [SourceNext]_sourceVars
  PROVE  SourceTyped'
<1> USE DEF clocks, threads, pace
<1>t. /\ now \in Nat /\ openUntil \in Nat /\ streak \in Nat /\ doneAt \in Nat
      /\ refused \in Nat /\ shutAt \in Nat /\ jobs \in Nat /\ errors \in Nat
      /\ marked \in [Kinds -> Nat] /\ sent \in [Kinds -> Nat]
      /\ step \in [Askers -> {"idle", "ask", "pace", "sent", "wait"}]
      /\ plan \in [Askers -> Seq(Kinds)] /\ tries \in [Askers -> Nat]
      /\ due \in [Askers -> Nat] /\ attempt \in [Askers -> 0..MaxRetries]
      /\ job \in [Askers -> {"none", "import", "sync"}] /\ after \in [Askers -> Nat]
  BY DEF SourceTyped, SourceTypeOK
<1>n. /\ now \in Nat /\ streak \in Nat /\ refused \in Nat /\ shutAt \in Nat
      /\ errors \in Nat
  BY <1>t
<1>b. tight \in BOOLEAN /\ broke \in BOOLEAN /\ overlapped \in BOOLEAN
  BY DEF SourceTyped, SourceTypeOK
<1>p. \A c \in Askers : step[c] # "idle" => plan[c] # << >>
  BY DEF SourceTyped
<1>m. MaxRetries \in Nat /\ Backoff \in Nat
  BY DEF MapSourceAssumption
<1>1. ASSUME NEW c \in Askers, ImportMap(c) PROVE SourceTyped'
  <2>1. UNCHANGED <<clocks, due, attempt, after, errors>>
    BY <1>1 DEF ImportMap
  <2>2. tries' \in [Askers -> Nat]
    <3>1. PICK n \in 0..1 : tries' = [tries EXCEPT ![c] = n]
      BY <1>1 DEF ImportMap
    <3>2. tries \in [Askers -> Nat]
      BY <1>t
    <3>3. n \in Nat
      OBVIOUS
    <3> QED BY <3>1, <3>2, <3>3
  <2> QED BY <1>1, <1>t, <1>b, <2>1, <2>2, JobTyped DEF ImportMap, SourceTyped, SourceTypeOK
<1>2. ASSUME NEW c \in Askers, Sync(c) PROVE SourceTyped'
  <2>1. /\ doneAt' \in Nat
        /\ UNCHANGED <<now, marked, openUntil, streak, tries, due, attempt, after, errors>>
    BY <1>2, <1>t DEF Sync
  <2> QED BY <1>2, <1>t, <1>b, <2>1, JobTyped DEF Sync, SourceTyped, SourceTypeOK
<1>3. ASSUME NEW c \in Askers, Ask(c) PROVE SourceTyped'
  <2>1. UNCHANGED <<now, marked, openUntil, streak, pace, after, overlapped, jobs, errors>>
    BY <1>3 DEF Ask
  <2>2. CASE FailFast
    BY <1>3, <1>t, <1>b, <2>1, <2>2, NextTitleTyped DEF Ask, SourceTyped, SourceTypeOK
  <2>3. CASE ~ FailFast
    <3>1. Most(now, marked[Kind(c)] + Interval[Kind(c)]) \in Nat
      <4>1. step[c] # "idle"
        BY <1>3 DEF Ask
      <4>2. Interval[Kind(c)] \in Nat /\ marked[Kind(c)] \in Nat
        BY <4>1, PlanTyped
      <4>3. marked[Kind(c)] + Interval[Kind(c)] \in Nat
        BY <4>2, NatSums
      <4> QED BY <1>n, <4>3 DEF Most
    <3>2. /\ step' = [step EXCEPT ![c] = "pace"] /\ UNCHANGED <<plan, tries, attempt, job, doneAt>>
          /\ due' = [due EXCEPT ![c] = Most(now, marked[Kind(c)] + Interval[Kind(c)])]
          /\ step[c] = "ask"
      BY <1>3, <2>3 DEF Ask
    <3>3. due' \in [Askers -> Nat] /\ \A w \in Askers : step'[w] # "idle" => plan'[w] # << >>
      BY <1>t, <1>p, <3>1, <3>2
    <3> QED BY <1>t, <1>b, <2>1, <3>2, <3>3 DEF SourceTyped, SourceTypeOK
  <2> QED BY <2>2, <2>3
<1>4. ASSUME NEW c \in Askers, Send(c) PROVE SourceTyped'
  <2>1. /\ step[c] = "pace" /\ step' = [step EXCEPT ![c] = "sent"]
        /\ marked' = [marked EXCEPT ![Kind(c)] = now]
        /\ UNCHANGED <<now, openUntil, streak, doneAt, plan, tries, due, attempt, job, refused,
                       shutAt, overlapped, jobs, errors>>
    BY <1>4 DEF Send, Mark
  <2>2. sent' = sent \/ sent' = [sent EXCEPT ![Kind(c)] = now]
    BY <1>4 DEF Send
  <2>3. after' \in [Askers -> Nat]
    <3>1. after' = [after EXCEPT ![c] = IF Open THEN @ + 1 ELSE @]
      BY <1>4 DEF Send
    <3>2. after \in [Askers -> Nat] /\ after[c] + 1 \in Nat
      <4>1. after \in [Askers -> Nat] BY <1>t
      <4> QED BY <4>1
    <3> QED BY <3>1, <3>2
  <2>4. tight' \in BOOLEAN
    BY <1>4 DEF Send
  <2>5. broke' \in BOOLEAN
    BY <1>4 DEF Send
  <2>6. marked' \in [Kinds -> Nat] /\ sent' \in [Kinds -> Nat]
    BY <1>t, <2>1, <2>2
  <2>7. \A w \in Askers : step'[w] # "idle" => plan'[w] # << >>
    BY <1>t, <1>p, <2>1
  <2> QED BY <1>t, <1>b, <2>1, <2>3, <2>4, <2>5, <2>6, <2>7 DEF SourceTyped, SourceTypeOK
<1>5. ASSUME NEW c \in Askers, Success(c) PROVE SourceTyped'
  <2>1. /\ UNCHANGED <<now, marked, openUntil, sent, tight, shutAt, broke, after, overlapped, jobs,
                       errors>>
        /\ streak' = 0 /\ refused' = 0 /\ step[c] = "sent"
    BY <1>5 DEF Success, Answered
  <2>2. CASE Leave(c)
    BY <1>t, <1>b, <2>1, <2>2, LeaveTyped DEF SourceTyped, SourceTypeOK
  <2>3. CASE /\ Tail(plan[c]) # << >>
             /\ step' = [step EXCEPT ![c] = "ask"] /\ plan' = [plan EXCEPT ![c] = Tail(@)]
             /\ attempt' = [attempt EXCEPT ![c] = 0] /\ UNCHANGED <<tries, due, job, doneAt>>
    <3>1. plan' \in [Askers -> Seq(Kinds)]
      BY <1>t, <2>1, <2>3, PlanTyped
    <3>2. \A w \in Askers : step'[w] # "idle" => plan'[w] # << >>
      BY <1>t, <1>p, <2>3
    <3>3. attempt' \in [Askers -> 0..MaxRetries]
      <4>1. 0 \in 0..MaxRetries BY <1>m
      <4> QED BY <1>t, <2>3, <4>1
    <3> QED BY <1>t, <1>b, <2>1, <2>3, <3>1, <3>2, <3>3 DEF SourceTyped, SourceTypeOK
  <2> QED BY <1>5, <2>2, <2>3 DEF Success
<1>6. ASSUME NEW c \in Askers, Failure(c) PROVE SourceTyped'
  <2>1. /\ UNCHANGED <<now, marked, openUntil, sent, tight, shutAt, broke, after, overlapped, jobs>>
        /\ streak' = 0 /\ refused' = 0
    BY <1>6 DEF Failure, Answered
  <2>e. errors' \in Nat
    <3>1. errors' = errors + 1 BY <1>6 DEF Failure
    <3> QED BY <1>n, <3>1
  <2>2. CASE NextTitle(c)
    BY <1>t, <1>b, <2>1, <2>e, <2>2, NextTitleTyped DEF SourceTyped, SourceTypeOK
  <2>3. CASE Leave(c)
    BY <1>t, <1>b, <2>1, <2>e, <2>3, LeaveTyped DEF SourceTyped, SourceTypeOK
  <2> QED BY <1>6, <2>2, <2>3 DEF Failure
<1>12. ASSUME NEW c \in Askers, Unanswered(c) PROVE SourceTyped'
  <2>1. /\ UNCHANGED <<now, marked, openUntil, sent, tight, shutAt, broke, after, overlapped, jobs>>
        /\ UNCHANGED <<streak, refused>> /\ Leave(c)
    BY <1>12 DEF Unanswered, Answered
  <2>2. errors' \in Nat
    <3>1. errors' = errors + 1 BY <1>12 DEF Unanswered
    <3> QED BY <1>n, <3>1
  <2> QED BY <1>t, <1>b, <2>1, <2>2, LeaveTyped DEF SourceTyped, SourceTypeOK
<1>7. ASSUME NEW c \in Askers, Retry(c) PROVE SourceTyped'
  <2>1. /\ UNCHANGED <<clocks, plan, tries, job, pace, after, overlapped, jobs>>
        /\ step[c] = "sent"
        /\ step' = [step EXCEPT ![c] = "wait"] /\ attempt' = [attempt EXCEPT ![c] = @ + 1]
        /\ due' = [due EXCEPT ![c] = now + Backoff * 2 ^ attempt[c]]
    BY <1>7 DEF Retry
  <2>2. attempt[c] \in Nat /\ attempt[c] + 1 \in 0..MaxRetries
    <3>1. attempt[c] < MaxRetries /\ attempt[c] \in 0..MaxRetries
      BY <1>7, <1>t DEF Retry
    <3> QED BY ONLY <1>m, <3>1
  <2>3. now + Backoff * 2 ^ attempt[c] \in Nat
    <3>1. 2 ^ attempt[c] \in Nat
      BY <2>2, PowersOfTwo
    <3>2. Backoff * 2 ^ attempt[c] \in Nat
      BY <1>m, <3>1, NatSums
    <3> QED BY <1>n, <3>2, NatSums
  <2>4. due' \in [Askers -> Nat] /\ attempt' \in [Askers -> 0..MaxRetries]
    BY <1>t, <2>1, <2>2, <2>3
  <2>e. errors' \in Nat
    <3>1. errors' = errors + 1 BY <1>7 DEF Retry
    <3> QED BY <1>n, <3>1
  <2>5. \A w \in Askers : step'[w] # "idle" => plan'[w] # << >>
    BY <1>t, <1>p, <2>1
  <2> QED BY <1>t, <1>b, <2>1, <2>4, <2>5, <2>e DEF SourceTyped, SourceTypeOK
<1>8. ASSUME NEW c \in Askers, Resume(c) PROVE SourceTyped'
  <2>1. /\ UNCHANGED <<now, openUntil, streak, doneAt, plan, tries, attempt, job, pace, after,
                       overlapped, jobs, errors>>
        /\ step[c] = "wait" /\ step' = [step EXCEPT ![c] = "pace"]
        /\ marked' = [marked EXCEPT ![Kind(c)] = now]
        /\ due' = [due EXCEPT ![c] = now + Interval[Kind(c)]]
    BY <1>8 DEF Resume
  <2>2. due' \in [Askers -> Nat] /\ marked' \in [Kinds -> Nat]
    <3>1. Interval[Kind(c)] \in Nat
      BY <2>1, PlanTyped
    <3>2. now + Interval[Kind(c)] \in Nat
      BY ONLY <1>n, <3>1
    <3> QED BY <1>t, <2>1, <3>2
  <2>3. \A w \in Askers : step'[w] # "idle" => plan'[w] # << >>
    BY <1>t, <1>p, <2>1
  <2> QED BY <1>t, <1>b, <2>1, <2>2, <2>3 DEF SourceTyped, SourceTypeOK
<1>9. ASSUME NEW c \in Askers, Exhausted(c) PROVE SourceTyped'
  <2>1. /\ UNCHANGED <<now, marked, sent, tight, broke, overlapped, jobs>> /\ Leave(c)
    BY <1>9 DEF Exhausted
  <2>2. openUntil' \in Nat /\ streak' \in Nat /\ errors' \in Nat
    <3>1. /\ errors' = errors + 1 /\ streak' = streak + 1
          /\ openUntil' = now + Stretch(streak + 1)
      BY <1>9 DEF Exhausted
    <3>2. Stretch(streak + 1) \in Nat
      <4>1. streak + 1 \in Nat \ {0} BY <1>n
      <4> QED BY <4>1, StretchIsNat
    <3> QED BY ONLY <1>n, <3>1, <3>2
  <2>3. refused' \in Nat /\ shutAt' \in Nat
    <3>1. UNCHANGED <<refused, shutAt>> \/ (refused' = refused + 1 /\ shutAt' = now)
      BY <1>9 DEF Exhausted
    <3> QED BY ONLY <1>n, <3>1
  <2>4. after' \in [Askers -> Nat]
    BY <1>9, <1>t DEF Exhausted
  <2> QED BY <1>t, <1>b, <2>1, <2>2, <2>3, <2>4, LeaveTyped DEF SourceTyped, SourceTypeOK
<1>10. CASE Tick
  <2>1. UNCHANGED <<marked, openUntil, streak, doneAt, threads, pace, after, overlapped, jobs,
                    errors>>
    BY <1>10 DEF Tick
  <2>2. now' \in Nat
    <3>1. now' = now + 1 BY <1>10 DEF Tick
    <3> QED BY <1>n, <3>1
  <2> QED BY <1>t, <1>b, <1>p, <2>1, <2>2 DEF SourceTyped, SourceTypeOK
<1>11. CASE UNCHANGED sourceVars
  BY <1>11, <1>t, <1>b, <1>p DEF sourceVars, SourceTyped, SourceTypeOK
<1> QED
  BY <1>1, <1>2, <1>3, <1>4, <1>5, <1>6, <1>7, <1>8, <1>9, <1>10, <1>11, <1>12 DEF SourceNext

\* A step is one thread's, and leaves the others where they are.
Moves(c) ==
  \/ ImportMap(c) \/ Sync(c) \/ Ask(c) \/ Send(c) \/ Success(c) \/ Failure(c)
  \/ Unanswered(c) \/ Retry(c) \/ Resume(c) \/ Exhausted(c)

LEMMA OthersStay ==
  ASSUME SourceTyped, NEW c \in Askers, Moves(c), NEW d \in Askers \ {c}
  PROVE  step'[d] = step[d] /\ attempt'[d] = attempt[d]
<1> USE DEF SourceTyped, SourceTypeOK
<1>1. Leave(c) => step'[d] = step[d] /\ attempt'[d] = attempt[d]
  BY DEF Leave
<1>2. NextTitle(c) => step'[d] = step[d] /\ attempt'[d] = attempt[d]
  BY <1>1 DEF NextTitle
<1>3. CASE ImportMap(c) BY <1>3 DEF ImportMap, Job
<1>4. CASE Sync(c) BY <1>4 DEF Sync, Job
<1>5. CASE Ask(c) BY <1>5, <1>2 DEF Ask
<1>6. CASE Send(c) BY <1>6 DEF Send
<1>7. CASE Success(c) BY <1>7, <1>1 DEF Success
<1>8. CASE Failure(c) BY <1>8, <1>1, <1>2 DEF Failure
<1>9. CASE Retry(c) BY <1>9 DEF Retry
<1>10. CASE Resume(c) BY <1>10 DEF Resume
<1>11. CASE Exhausted(c) BY <1>11, <1>1 DEF Exhausted
<1>12. CASE Unanswered(c) BY <1>12, <1>1 DEF Unanswered
<1> QED BY <1>3, <1>4, <1>5, <1>6, <1>7, <1>8, <1>9, <1>10, <1>11, <1>12 DEF Moves

\* Where an action takes its own thread.
LEMMA Steps ==
  ASSUME SourceTyped, NEW c \in Askers
  PROVE  /\ Leave(c) => step'[c] = "idle"
         /\ NextTitle(c) => step'[c] \in {"idle", "ask"}
         /\ ImportMap(c) \/ Sync(c) => step[c] = "idle" /\ step'[c] = "ask"
         /\ Ask(c) => /\ step[c] = "ask" /\ (Open => step'[c] \in {"idle", "ask"})
                      /\ step'[c] \in {"idle", "ask", "pace"}
         /\ Send(c) => step[c] = "pace" /\ step'[c] = "sent"
         /\ Success(c) \/ Failure(c) => step[c] = "sent" /\ step'[c] \in {"idle", "ask"}
         /\ Retry(c) => step[c] = "sent" /\ step'[c] = "wait"
         /\ Resume(c) => step[c] = "wait" /\ step'[c] = "pace"
         /\ Exhausted(c) \/ Unanswered(c) => step[c] = "sent" /\ step'[c] = "idle"
<1> USE DEF SourceTyped, SourceTypeOK
<1>1. Leave(c) => step'[c] = "idle"
  BY DEF Leave
<1>2. NextTitle(c) => step'[c] \in {"idle", "ask"}
  BY <1>1 DEF NextTitle
<1>3. ImportMap(c) \/ Sync(c) => step[c] = "idle" /\ step'[c] = "ask"
  BY DEF ImportMap, Sync, Job
<1>4. Ask(c) => /\ step[c] = "ask" /\ (Open => step'[c] \in {"idle", "ask"})
                /\ step'[c] \in {"idle", "ask", "pace"}
  BY <1>2 DEF Ask, FailFast
<1>5. Send(c) => step[c] = "pace" /\ step'[c] = "sent"
  BY DEF Send
<1>6. Success(c) \/ Failure(c) => step[c] = "sent" /\ step'[c] \in {"idle", "ask"}
  BY <1>1, <1>2 DEF Success, Failure
<1>7. /\ Retry(c) => step[c] = "sent" /\ step'[c] = "wait"
      /\ Resume(c) => step[c] = "wait" /\ step'[c] = "pace"
  BY DEF Retry, Resume
<1>8. Exhausted(c) \/ Unanswered(c) => step[c] = "sent" /\ step'[c] = "idle"
  BY <1>1 DEF Exhausted, Unanswered
<1> QED BY <1>1, <1>2, <1>3, <1>4, <1>5, <1>6, <1>7, <1>8

\* Once two jobs overlapped they have.
LEMMA OverlapStays ==
  ASSUME NEW c \in Askers, Moves(c), ~overlapped'
  PROVE  /\ ~overlapped
         /\ ImportMap(c) \/ Sync(c) =>
              UNCHANGED <<sent, refused, shutAt>> /\ \A w \in Askers : step[w] = "idle"
<1>1. CASE ImportMap(c)
  BY <1>1 DEF ImportMap, Job, AtWork
<1>2. CASE Sync(c)
  BY <1>2 DEF Sync, Job, AtWork
<1>3. CASE ~ImportMap(c) /\ ~Sync(c)
  <2>1. overlapped' = overlapped
    BY <1>3 DEF Moves, Ask, Send, Success, Failure, Unanswered, Retry, Resume, Exhausted
  <2> QED BY <1>3, <2>1
<1> QED BY <1>1, <1>2, <1>3

LEMMA SomebodyMoves ==
  ASSUME [SourceNext]_sourceVars
  PROVE  Tick \/ UNCHANGED sourceVars \/ \E c \in Askers : Moves(c)
BY DEF SourceNext, Moves

LEMMA PaceStep ==
  ASSUME MapSourceAssumption, SourceTyped, SourceTyped', [SourceNext]_sourceVars, ~overlapped',
         ~overlapped, PaceKept
  PROVE  PaceKept'
<1>t. /\ now \in Nat /\ marked \in [Kinds -> Nat] /\ sent \in [Kinds -> Nat]
      /\ step \in [Askers -> {"idle", "ask", "pace", "sent", "wait"}]
      /\ due \in [Askers -> Nat] /\ plan \in [Askers -> Seq(Kinds)]
  BY DEF SourceTyped, SourceTypeOK
<1>i. \A k \in Kinds : Interval[k] \in Nat
  BY DEF MapSourceAssumption
<1>s. \A k \in Kinds : /\ sent[k] \in Nat /\ marked[k] \in Nat /\ now \in Nat
                       /\ sent[k] <= marked[k] /\ marked[k] <= now
  BY <1>t DEF PaceKept
<1>1. ASSUME NEW c \in Askers, Moves(c) PROVE PaceKept'
  <2>1. \A d \in Askers \ {c} : step[d] = "idle" /\ step'[d] = "idle"
    <3>1. step[c] # "idle" \/ \A w \in Askers : step[w] = "idle"
      BY <1>1, Steps, OverlapStays DEF Moves
    <3> QED BY <1>1, <3>1, OthersStay DEF PaceKept
  <2>2. \A d, e \in Askers : step'[d] # "idle" /\ step'[e] # "idle" => d = e
    BY <2>1
  \* A step that sets no clock, and ends before the next wait.
  <2>3. ASSUME UNCHANGED <<now, marked, sent, tight>>, step'[c] # "pace"
        PROVE  PaceKept'
    <3>1. \A d \in Askers : step'[d] # "pace"
      BY <2>1, <2>3
    <3> QED BY <2>2, <2>3, <3>1 DEF PaceKept
  <2>4. CASE ImportMap(c) \/ Sync(c)
    <3>1. UNCHANGED <<now, marked, tight>>
      BY <2>4 DEF ImportMap, Sync, Job, clocks
    <3> QED BY <1>1, <2>3, <2>4, <3>1, Steps, OverlapStays
  <2>5. CASE Ask(c)
    <3>1. UNCHANGED <<now, marked, sent, tight>>
      BY <2>5 DEF Ask, pace
    <3>2. CASE step'[c] # "pace"
      BY <2>3, <3>1, <3>2
    <3>3. CASE step'[c] = "pace"
      <4>1. ~FailFast
        BY <2>5, <3>3, Steps DEF FailFast
      <4>2. due'[c] = Most(now, marked[Kind(c)] + Interval[Kind(c)]) /\ Kind(c)' = Kind(c)
        BY <1>t, <2>5, <4>1 DEF Ask, Kind
      <4>3. Kind(c) \in Kinds
        BY <2>5, Steps, PlanTyped
      <4>4. marked[Kind(c)] + Interval[Kind(c)] <= due'[c]
        BY ONLY <1>i, <1>s, <4>2, <4>3 DEF Most
      <4>5. \A d \in Askers : step'[d] = "pace" => d = c
        BY <2>1
      <4> QED BY <2>2, <3>1, <4>2, <4>4, <4>5 DEF PaceKept
    <3> QED BY <3>2, <3>3
  <2>6. CASE Send(c)
    <3>1. /\ now >= due[c] /\ now' = now /\ marked' = [marked EXCEPT ![Kind(c)] = now]
          /\ sent' = [sent EXCEPT ![Kind(c)] = now]
          /\ tight' <=> tight \/ (sent[Kind(c)] # 0 /\ now < sent[Kind(c)] + Interval[Kind(c)])
      BY <2>6 DEF Send, Mark
    <3>2. Kind(c) \in Kinds /\ step[c] = "pace"
      BY <2>6, Steps, PlanTyped
    <3>3. marked[Kind(c)] + Interval[Kind(c)] <= due[c] /\ due[c] \in Nat
      BY <1>t, <3>2 DEF PaceKept
    <3>4. ~ tight'
      <4>1. sent[Kind(c)] + Interval[Kind(c)] <= now
        <5>1. /\ sent[Kind(c)] \in Nat /\ marked[Kind(c)] \in Nat /\ now \in Nat
              /\ sent[Kind(c)] <= marked[Kind(c)] /\ Interval[Kind(c)] \in Nat
          BY <1>i, <1>s, <3>2
        <5> QED BY <3>1, <3>3, <5>1, NatChain
      <4>2. ~ (now < sent[Kind(c)] + Interval[Kind(c)])
        BY ONLY <1>i, <1>s, <3>2, <4>1
      <4> QED BY <3>1, <4>2 DEF PaceKept
    <3>5. \A k \in Kinds : sent'[k] <= marked'[k] /\ marked'[k] <= now'
      BY <1>t, <1>s, <3>1
    <3>6. \A d \in Askers : step'[d] # "pace"
      BY <2>1, <2>6, Steps
    <3> QED BY <2>2, <3>4, <3>5, <3>6 DEF PaceKept
  <2>7. CASE Success(c) \/ Failure(c) \/ Unanswered(c) \/ Retry(c) \/ Exhausted(c)
    <3>1. UNCHANGED <<now, marked, sent, tight>>
      BY <2>7 DEF Success, Failure, Unanswered, Retry, Exhausted, clocks, pace
    <3>2. step'[c] # "pace"
      BY <2>7, Steps
    <3> QED BY <2>3, <3>1, <3>2
  <2>8. CASE Resume(c)
    <3>1. /\ now' = now /\ marked' = [marked EXCEPT ![Kind(c)] = now] /\ UNCHANGED <<sent, tight, plan>>
          /\ due' = [due EXCEPT ![c] = now + Interval[Kind(c)]]
      BY <2>8 DEF Resume, pace
    <3>2. Kind(c) \in Kinds /\ Kind(c)' = Kind(c)
      BY <2>8, <3>1, Steps, PlanTyped DEF Kind
    <3>3. \A k \in Kinds : sent'[k] <= marked'[k] /\ marked'[k] <= now'
      <4>1. TAKE k \in Kinds
      <4>2. sent[k] \in Nat /\ marked[k] \in Nat /\ sent[k] <= marked[k] /\ marked[k] <= now
        BY <1>s
      <4>3. now' = now /\ now \in Nat /\ sent'[k] = sent[k] /\ marked'[k] \in {marked[k], now}
        BY <1>t, <3>1
      <4>4. CASE marked'[k] = marked[k] BY <4>2, <4>3, <4>4
      <4>5. CASE marked'[k] = now BY <4>2, <4>3, <4>5, NatBetween
      <4> QED BY <4>3, <4>4, <4>5
    <3>4. marked'[Kind(c)] + Interval[Kind(c)] <= due'[c]
      BY <1>t, <1>i, <3>1, <3>2
    <3>5. \A d \in Askers : step'[d] = "pace" => d = c
      BY <2>1
    <3> QED BY <2>2, <3>1, <3>2, <3>3, <3>4, <3>5 DEF PaceKept
  <2> QED BY <1>1, <2>4, <2>5, <2>6, <2>7, <2>8 DEF Moves
<1>2. CASE Tick
  <2>1. UNCHANGED <<step, plan, due, marked, sent, tight>> /\ now' = now + 1
    BY <1>2 DEF Tick, threads, pace
  <2>2. \A k \in Kinds : sent'[k] <= marked'[k] /\ marked'[k] <= now'
    <3>1. TAKE k \in Kinds
    <3>2. sent[k] \in Nat /\ marked[k] \in Nat /\ sent[k] <= marked[k] /\ marked[k] <= now
      BY <1>s
    <3>3. now \in Nat /\ sent'[k] = sent[k] /\ marked'[k] = marked[k] /\ now' = now + 1
      BY <1>t, <2>1
    <3> QED BY <3>2, <3>3, NatLater
  <2> QED BY <2>1, <2>2 DEF PaceKept, Kind
<1>3. CASE UNCHANGED sourceVars
  BY <1>3 DEF sourceVars, clocks, threads, pace, PaceKept, Kind
<1> QED BY <1>1, <1>2, <1>3, SomebodyMoves

LEMMA WindowsStep ==
  ASSUME MapSourceAssumption, SourceTyped, SourceTyped', [SourceNext]_sourceVars, ~overlapped',
         ~overlapped, PaceKept, WindowsKept
  PROVE  WindowsKept'
<1>t. now \in Nat /\ openUntil \in Nat /\ refused \in Nat /\ shutAt \in Nat /\ streak \in Nat
  BY DEF SourceTyped, SourceTypeOK
<1>r. refused # 0 => Stretch(refused) \in Nat
  <2>1. refused # 0 => refused \in Nat \ {0}
    BY <1>t
  <2> QED BY <2>1, StretchIsNat
<1>1. ASSUME NEW c \in Askers, Moves(c) PROVE WindowsKept'
  <2>1. \A d \in Askers \ {c} : step[d] = "idle" /\ step'[d] = "idle"
    <3>1. step[c] # "idle" \/ \A w \in Askers : step[w] = "idle"
      BY <1>1, Steps, OverlapStays DEF Moves
    <3> QED BY <1>1, <3>1, OthersStay DEF PaceKept
  \* A step that leaves the circuit as it is, with nobody under way or the window over.
  <2>2. ASSUME UNCHANGED <<now, openUntil, streak, refused, shutAt, broke>>,
               step'[c] \in {"idle", "ask"} \/ step[c] \in {"pace", "sent", "wait"} \/ ~Open
        PROVE  WindowsKept'
    <3>1. ~Open => openUntil <= now
      BY <1>t DEF Open
    <3>2. refused # 0 => \A w \in Askers : step'[w] \in {"pace", "sent", "wait"} => openUntil <= now
      BY <2>1, <2>2, <3>1 DEF WindowsKept
    <3>3. Stretch(refused)' = Stretch(refused)
      BY <2>2 DEF Stretch, Least
    <3> QED BY <2>2, <3>2, <3>3 DEF WindowsKept
  <2>3. CASE ImportMap(c) \/ Sync(c)
    <3>1. UNCHANGED <<now, openUntil, streak, broke>>
      BY <2>3 DEF ImportMap, Sync, Job, clocks
    <3> QED BY <1>1, <2>2, <2>3, <3>1, Steps, OverlapStays
  <2>4. CASE Ask(c)
    <3>1. UNCHANGED <<now, openUntil, streak, refused, shutAt, broke>>
      BY <2>4 DEF Ask, pace
    <3> QED BY <2>2, <2>4, <3>1, Steps
  <2>5. CASE Send(c)
    <3>1. /\ broke' <=> broke \/ (refused # 0 /\ now < shutAt + Stretch(refused))
          /\ UNCHANGED <<now, openUntil, streak, refused, shutAt>> /\ step[c] = "pace"
      BY <2>5 DEF Send
    <3>2. broke' = broke
      <4>1. refused # 0 => openUntil <= now /\ openUntil = shutAt + Stretch(refused)
        BY <3>1 DEF WindowsKept
      <4>2. ~ (refused # 0 /\ now < shutAt + Stretch(refused))
        BY <1>t, <4>1
      <4>3. ~ broke /\ ~ broke' /\ broke \in BOOLEAN /\ broke' \in BOOLEAN
        BY <3>1, <4>2 DEF WindowsKept, SourceTyped, SourceTypeOK
      <4> QED BY <4>3
    <3> QED BY <2>2, <3>1, <3>2
  <2>6. CASE Success(c) \/ Failure(c)
    <3>1. streak' = 0 /\ refused' = 0 /\ broke' = broke
      BY <2>6 DEF Success, Failure, Answered
    <3> QED BY <3>1 DEF WindowsKept
  <2>7. CASE Unanswered(c) \/ Retry(c) \/ Resume(c)
    <3>1. UNCHANGED <<now, openUntil, streak, refused, shutAt, broke>>
      BY <2>7 DEF Unanswered, Answered, Retry, Resume, clocks, pace
    <3> QED BY <2>2, <2>7, <3>1, Steps
  <2>8. CASE Exhausted(c)
    <3>1. /\ streak' = streak + 1 /\ refused' = refused + 1 /\ shutAt' = now /\ broke' = broke
          /\ openUntil' = now + Stretch(streak + 1)
      BY <2>8 DEF Exhausted
    <3>2. streak' = refused' /\ openUntil' = shutAt' + Stretch(refused)'
      BY <3>1 DEF WindowsKept, Stretch, Least
    <3>3. \A w \in Askers : step'[w] = "idle"
      BY <2>1, <2>8, Steps
    <3> QED BY <3>1, <3>2, <3>3 DEF WindowsKept
  <2> QED BY <1>1, <2>3, <2>4, <2>5, <2>6, <2>7, <2>8 DEF Moves
<1>2. CASE Tick
  <2>1. UNCHANGED <<step, openUntil, streak, refused, shutAt, broke>> /\ now' = now + 1
    BY <1>2 DEF Tick, threads, pace
  <2>2. openUntil <= now => openUntil' <= now'
    <3>1. now \in Nat /\ openUntil \in Nat /\ openUntil' = openUntil /\ now' = now + 1
      BY <1>t, <2>1
    <3> QED BY ONLY <3>1, SMT
  <2>3. Stretch(refused)' = Stretch(refused)
    BY <2>1 DEF Stretch, Least
  <2> QED BY <2>1, <2>2, <2>3 DEF WindowsKept
<1>3. CASE UNCHANGED sourceVars
  BY <1>3 DEF sourceVars, clocks, threads, pace, WindowsKept, Stretch, Least
<1> QED BY <1>1, <1>2, <1>3, SomebodyMoves

LEMMA CircuitStep ==
  ASSUME MapSourceAssumption, SourceTyped, SourceTyped', [SourceNext]_sourceVars, CircuitKept
  PROVE  CircuitKept'
<1>t. /\ now \in Nat /\ openUntil \in Nat /\ MaxRetries \in Nat
      /\ \A w \in Askers : after[w] \in Nat /\ attempt[w] \in Nat /\ attempt[w] <= MaxRetries
  <2>1. attempt \in [Askers -> 0..MaxRetries] /\ after \in [Askers -> Nat] /\ MaxRetries \in Nat
    BY DEF SourceTyped, SourceTypeOK, MapSourceAssumption
  <2> QED BY <2>1 DEF SourceTyped, SourceTypeOK
<1>f. after \in [Askers -> Nat] /\ attempt \in [Askers -> 0..MaxRetries]
  BY DEF SourceTyped, SourceTypeOK
<1>1. ASSUME NEW c \in Askers, Moves(c) PROVE CircuitKept'
  <2> DEFINE Counted(w) == /\ after[w] <= MaxRetries + 1
                           /\ step[w] \in {"pace", "wait"} => after[w] <= attempt[w]
                           /\ step[w] = "sent" => after[w] <= attempt[w] + 1
  <2>0. Open => \A w \in Askers : Counted(w)
    BY DEF CircuitKept
  \* Only the thread that moves has to be looked at, while the circuit stays as it is.
  <2>1. ASSUME UNCHANGED <<now, openUntil>>, \A w \in Askers \ {c} : after'[w] = after[w],
               Open => Counted(c)'
        PROVE  CircuitKept'
    <3>1. Open' <=> Open
      BY <2>1 DEF Open
    <3>2. ASSUME Open, NEW w \in Askers \ {c} PROVE Counted(w)'
      BY <1>1, <2>0, <2>1, <3>2, OthersStay
    <3> QED BY <2>1, <3>1, <3>2 DEF CircuitKept
  <2>2. ASSUME UNCHANGED <<now, openUntil, after>>,
               Open => step'[c] \in {"idle", "ask"}
        PROVE  CircuitKept'
    <3>1. Open => Counted(c)'
      BY <2>0, <2>2
    <3> QED BY <2>1, <2>2, <3>1
  <2>3. CASE ImportMap(c) \/ Sync(c) \/ Ask(c) \/ Success(c) \/ Failure(c) \/ Unanswered(c)
    <3>1. UNCHANGED <<now, openUntil, after>>
      BY <2>3 DEF ImportMap, Sync, Job, Ask, Success, Failure, Unanswered, clocks
    <3> QED BY <2>2, <2>3, <3>1, Steps
  <2>4. CASE Send(c)
    <3>1. /\ UNCHANGED <<now, openUntil, attempt>>
          /\ after' = [after EXCEPT ![c] = IF Open THEN @ + 1 ELSE @]
      BY <2>4 DEF Send
    <3>2. Open => after[c] <= attempt[c] /\ after'[c] = after[c] + 1 /\ step'[c] = "sent"
      BY <1>f, <2>0, <2>4, <3>1, Steps
    <3>3. Open => Counted(c)'
      <4>1. after[c] \in Nat /\ attempt[c] \in Nat /\ attempt[c] <= MaxRetries /\ MaxRetries \in Nat
        BY <1>t
      <4>2. ASSUME Open PROVE after'[c] <= MaxRetries + 1 /\ after'[c] <= attempt'[c] + 1
        <5>1. after[c] <= attempt[c] /\ after'[c] = after[c] + 1 /\ attempt' = attempt
          BY <3>1, <3>2, <4>2
        <5>2. after[c] + 1 <= MaxRetries + 1 /\ after[c] + 1 <= attempt[c] + 1
          BY <4>1, <5>1, NatBetween
        <5> QED BY <5>1, <5>2
      <4> QED BY <3>2, <4>2
    <3>4. \A w \in Askers \ {c} : after'[w] = after[w]
      BY <1>f, <3>1
    <3> QED BY <2>1, <3>1, <3>3, <3>4
  <2>5. CASE Retry(c)
    <3>1. UNCHANGED <<now, openUntil, after>> /\ attempt'[c] = attempt[c] + 1
      BY <1>f, <2>5 DEF Retry, clocks
    <3>2. step[c] = "sent" /\ step'[c] = "wait"
      BY <2>5, Steps
    <3>3. Open => Counted(c)'
      BY <2>0, <3>1, <3>2
    <3> QED BY <2>1, <3>1, <3>3
  <2>6. CASE Resume(c)
    <3>1. UNCHANGED <<now, openUntil, after, attempt>>
      BY <2>6 DEF Resume
    <3>2. step[c] = "wait" /\ step'[c] = "pace"
      BY <2>6, Steps
    <3>3. Open => Counted(c)'
      BY <2>0, <3>1, <3>2
    <3> QED BY <2>1, <3>1, <3>3
  <2>7. CASE Exhausted(c)
    <3>1. step'[c] = "idle" /\ now' = now
      BY <2>7, Steps DEF Exhausted
    <3>2. CASE Open
      <4>1. after' = after
        BY <2>7, <3>2 DEF Exhausted
      <4>2. \A w \in Askers : Counted(w)'
        BY <1>1, <2>0, <3>1, <3>2, <4>1, OthersStay
      <4> QED BY <4>2 DEF CircuitKept
    <3>3. CASE ~Open
      <4>1. after' = [w \in Askers |-> 0]
        BY <2>7, <3>3 DEF Exhausted
      <4>2. \A w \in Askers : after'[w] = 0 /\ attempt'[w] \in Nat
        BY <4>1 DEF SourceTyped, SourceTypeOK
      <4>3. \A w \in Askers : after'[w] <= MaxRetries + 1 /\ after'[w] <= attempt'[w] /\ after'[w] <= attempt'[w] + 1
        BY ONLY <1>t, <4>2
      <4> QED BY ONLY <4>3 DEF CircuitKept
    <3> QED BY <3>2, <3>3
  <2> QED BY <1>1, <2>3, <2>4, <2>5, <2>6, <2>7 DEF Moves
<1>2. CASE Tick
  <2>1. UNCHANGED <<step, attempt, after, openUntil>> /\ now' = now + 1
    BY <1>2 DEF Tick, threads
  <2>2. Open' => Open
    <3>1. now \in Nat /\ openUntil \in Nat /\ openUntil' = openUntil /\ now' = now + 1
      BY <1>t, <2>1
    <3> QED BY ONLY <3>1, SMT DEF Open
  <2> QED BY <2>1, <2>2 DEF CircuitKept
<1>3. CASE UNCHANGED sourceVars
  BY <1>3 DEF sourceVars, clocks, threads, CircuitKept, Open
<1> QED BY <1>1, <1>2, <1>3, SomebodyMoves

LEMMA SourceInvHolds == SourceSpec => []SourceInv
<1>1. ASSUME SourceInit PROVE SourceInv
  <2>1. SourceTypeOK
    <3>1. << >> \in Seq(Kinds) /\ FirstTime \in Nat /\ 0 \in 0..MaxRetries
      BY MapSourceAssumption DEF MapSourceAssumption
    <3>2. /\ now \in Nat /\ openUntil \in Nat /\ streak \in Nat /\ doneAt \in Nat
          /\ refused \in Nat /\ shutAt \in Nat /\ jobs \in Nat /\ errors \in Nat
          /\ marked \in [Kinds -> Nat] /\ sent \in [Kinds -> Nat]
      BY <1>1, <3>1 DEF SourceInit
    <3>3. /\ step \in [Askers -> {"idle", "ask", "pace", "sent", "wait"}]
          /\ plan \in [Askers -> Seq(Kinds)] /\ tries \in [Askers -> Nat]
          /\ due \in [Askers -> Nat] /\ attempt \in [Askers -> 0..MaxRetries]
          /\ job \in [Askers -> {"none", "import", "sync"}] /\ after \in [Askers -> Nat]
      BY <1>1, <3>1 DEF SourceInit
    <3>4. tight \in BOOLEAN /\ broke \in BOOLEAN /\ overlapped \in BOOLEAN
      BY <1>1 DEF SourceInit
    <3> QED BY <3>2, <3>3, <3>4 DEF SourceTypeOK
  <2>2. \A c \in Askers : step[c] = "idle"
    BY <1>1 DEF SourceInit
  <2>3. PaceKept
    <3>1. \A k \in Kinds : sent[k] <= marked[k] /\ marked[k] <= now
      <4>1. now = FirstTime /\ FirstTime \in Nat /\ \A k \in Kinds : sent[k] = 0 /\ marked[k] = 0
        BY <1>1, MapSourceAssumption DEF SourceInit, MapSourceAssumption
      <4> QED BY <4>1
    <3> QED BY <1>1, <2>2, <3>1 DEF PaceKept, SourceInit
  <2>4. WindowsKept
    BY <1>1 DEF WindowsKept, SourceInit
  <2>5. CircuitKept
    <3>1. now \in Nat /\ openUntil = 0
      BY <1>1, <2>1 DEF SourceInit, SourceTypeOK
    <3> QED BY <3>1 DEF CircuitKept, Open
  <2> QED BY <2>1, <2>2, <2>3, <2>4, <2>5 DEF SourceInv, SourceTyped
<1>2. ASSUME SourceInv, [SourceNext]_sourceVars PROVE SourceInv'
  <2>1. SourceTyped' /\ CircuitKept'
    BY <1>2, MapSourceAssumption, SourceTypedStep, CircuitStep DEF SourceInv
  <2>2. ASSUME ~overlapped' PROVE PaceKept' /\ WindowsKept'
    <3>1. ~overlapped
      BY <1>2, <2>2, SomebodyMoves, OverlapStays DEF Tick, sourceVars
    <3> QED BY <1>2, <2>1, <2>2, <3>1, MapSourceAssumption, PaceStep, WindowsStep DEF SourceInv
  <2> QED BY <2>1, <2>2 DEF SourceInv
<1> QED BY <1>1, <1>2, PTL DEF SourceSpec

\* The clocks, the circuit, the threads and what they have left to request stay well
\* typed.
THEOREM SourceTypeCorrect == SourceSpec => []SourceTypeOK
<1>1. SourceInv => SourceTypeOK
  BY DEF SourceInv, SourceTyped
<1> QED BY <1>1, SourceInvHolds, PTL

\* While jobs take turns two requests of one kind keep their interval, whatever is
\* retried, and no request leaves before the last window of the circuit has lapsed; and
\* however many jobs overlap, an open circuit lets through the request that each was
\* about to send and its retries, and nothing else.
THEOREM SourceIsPaced == SourceSpec => []Paced
<1>1. SourceInv => Paced
  <2> SUFFICES ASSUME SourceInv PROVE Paced
    OBVIOUS
  <2>1. PacedAlone
    BY DEF SourceInv, PaceKept, PacedAlone
  <2>2. WindowsDouble
    BY DEF SourceInv, WindowsKept, WindowsDouble
  <2>3. Trickle
    <3>1. DOMAIN after = Askers
      BY DEF SourceInv, SourceTyped, SourceTypeOK
    <3> QED BY <3>1 DEF SourceInv, CircuitKept, Trickle
  <2> QED BY <2>1, <2>2, <2>3 DEF Paced
<1> QED BY <1>1, SourceInvHolds, PTL


-----------------------------------------------------------------------------
(* The forums.                                                            *)

\* A post that somebody holds was created, and as long as it is there it is the post of
\* the entry it is held for.
HoldsPost(t, e) == t # Missing => posts[t] # Missing /\ (t \in Live => posts[t].entry = e)
PostsHeld ==
  /\ \A e \in Entries : HoldsPost(link[e], e)
  /\ \A g \in Guilds, e \in Entries : HoldsPost(seen[g].link[e], e)
  /\ \A w \in Workers : HoldsPost(edit[w].post, edit[w].entry) /\ (edit[w] # NoEdit => edit[w].post # Missing)
  /\ \A t \in Threads : posts[t] = Missing => remembered[t] = Missing /\ t \notin hidden
  /\ \A e \in MapIds : text[e] # Missing

\* What a pass holds: entries of its forum, posts of its guild.
EntriesOf(kind) == IF kind = "idle" THEN {} ELSE Forum(kind)
Passing ==
  \A g \in Guilds :
    /\ pending[g] \subseteq {e \in EntriesOf(pass[g]) : seen[g].text[e] # Missing}
    /\ \A t \in seen[g].posts : 
         posts[t] # Missing /\ (t \in Live => posts[t].guild = g /\ posts[t].entry \in EntriesOf(pass[g]))
    /\ made[g] # Missing =>
         /\ pass[g] \in {"maps", "pools"} /\ posts[made[g]] # Missing
         /\ made[g] \in Live => posts[made[g]].guild = g /\ posts[made[g]].entry \in EntriesOf(pass[g]) \ pending[g]

Remembering ==
  \A t \in Live : posts[t].entry \in PoolIds /\ remembered[t] # Missing => remembered[t] = posts[t].version

\* An undisturbed pass over the pools: the posts created since it began.
Unmet(g, e) == PostsOf(g, e) \ seen[g].posts
PassCalm(g) ==
  /\ \A e \in PoolIds : (seen[g].text[e] = Missing) <=> (text[e] = Missing)
  /\ \A t \in seen[g].posts : \E e \in PoolIds : t \in PostsOf(g, e)
  /\ \A e \in PoolIds :
       IF e \in pending[g] \/ text[e] = Missing \/ PoolPost(g, e) # {} THEN Unmet(g, e) = {}
       ELSE \E t \in Threads : Unmet(g, e) = {t}
  /\ g \in apart => seen[g].twins = {}
OnePost(g) ==
  \A e \in PoolIds :
    /\ text[e] # Missing => PostsOf(g, e) # {}
    /\ g \in apart => IF text[e] = Missing THEN PostsOf(g, e) = {} ELSE \E t \in Threads : PostsOf(g, e) = {t}
CalmAt(g) == IF pass[g] = "pools" THEN PassCalm(g) ELSE OnePost(g)
Calm == \A g \in calm : CalmAt(g)

OneGuild == (\A g, h \in Guilds : g = h) /\ ~strayed
MapAlone(g, e) ==
  /\ pass[g] = "maps" /\ e \in pending[g] => seen[g].link[e] = link[e]
  /\ IF made[g] \in Live /\ posts[made[g]].entry = e THEN PostsOf(g, e) \subseteq {made[g]}
     ELSE PostsOf(g, e) \subseteq {link[e]}
Single == OneGuild => \A g \in Guilds, e \in MapIds : MapAlone(g, e)
ForumsInv == PostsHeld /\ Passing /\ Remembering /\ Calm /\ Single

EditRecords == [post : Threads \cup {Missing}, entry : Entries \cup {Missing}, version : Nat]
PassRecords == [text : [Entries -> Nat \cup {Missing}], link : [Entries -> Threads \cup {Missing}],
                posts : SUBSET Threads, twins : SUBSET Threads]

LEMMA NothingRecords ==
  /\ NoEdit \in EditRecords /\ NoEdit.post = Missing
  /\ NoPass \in PassRecords /\ NoPass.posts = {} /\ \A e \in Entries : NoPass.link[e] = Missing /\ NoPass.text[e] = Missing
BY DEF NoEdit, NoPass, EditRecords, PassRecords

LEMMA LiveFacts ==
  ASSUME ForumsTypeOK
  PROVE  /\ \A t \in Live : t \in Threads /\ posts[t] \in Posts /\ posts[t].guild \in Guilds /\ posts[t].entry \in Entries
                         /\ posts[t] # Missing /\ posts[t] # Gone
         /\ \A t \in Threads : t \in Live <=> posts[t] \in Posts
         /\ \A g : Visible(g) \subseteq Live
         /\ \A g, e : PostsOf(g, e) \subseteq Visible(g)
BY ForumsAssumption DEF ForumsTypeOK, Live, Posts, Visible, PostsOf

\* The post that is found for an entry is the post of that entry.
LEMMA FoundFacts ==
  ASSUME ForumsTypeOK, ForumsInv, NEW g \in Guilds, pass[g] # "idle", NEW e \in pending[g]
  PROVE  /\ e \in Entries /\ e \in Forum(pass[g]) /\ Rendered(g, e) \in Nat
         /\ \A t \in Found(g, e) : t \in Threads /\ posts[t] # Missing /\ (t \in Live => posts[t].entry = e)
<1>1. e \in Entries /\ e \in Forum(pass[g]) /\ seen[g].text[e] # Missing
  BY DEF ForumsTypeOK, ForumsInv, Passing, EntriesOf
<1>2. seen[g].text[e] \in Nat /\ text[e] \in Nat \cup {Missing} /\ (e \in MapIds => text[e] # Missing)
  <2>1. seen[g] \in PassRecords
    BY DEF ForumsTypeOK, PassRecords
  <2> QED BY <1>1, <2>1 DEF PassRecords, ForumsTypeOK, ForumsInv, PostsHeld
<1>3. Rendered(g, e) \in Nat
  BY <1>2 DEF Rendered
<1>4. \A t \in seen[g].posts : t \in Threads /\ posts[t] # Missing
  <2>1. seen[g] \in PassRecords
    BY DEF ForumsTypeOK, PassRecords
  <2> QED BY <2>1 DEF PassRecords, ForumsInv, Passing
<1>5. HoldsPost(seen[g].link[e], e)
  BY <1>1 DEF ForumsInv, PostsHeld
<1>6. CASE e \in MapIds
  <2>1. Found(g, e) = MapPost(g, e)
    BY <1>6, ForumsAssumption DEF Found
  <2> QED BY <1>1, <1>3, <1>5, <2>1, LiveFacts, ForumsAssumption DEF MapPost, HoldsPost
<1>7. CASE e \in PoolIds
  <2>1. Found(g, e) = PoolPost(g, e)
    BY <1>7, ForumsAssumption DEF Found
  <2> QED BY <1>1, <1>3, <1>4, <1>5, <2>1, ForumsAssumption DEF PoolPost, HoldsPost
<1>8. CASE e \in FactionIds
  <2>1. Found(g, e) = FactionPost(g, e)
    BY <1>8, ForumsAssumption DEF Found
  <2> QED BY <1>1, <1>3, <1>4, <2>1 DEF FactionPost, Titled
<1> QED BY <1>1, <1>6, <1>7, <1>8 DEF Entries

\* An edit that begins.
LEMMA EditBegins ==
  ASSUME ForumsTypeOK, NEW w \in Workers, NEW t \in Threads, NEW e \in Entries, NEW v \in Nat, Editing(w, t, e, v)
  PROVE  /\ edit' \in [Workers -> EditRecords] /\ remembered' \in [Threads -> Nat \cup {Missing}]
         /\ \A u \in Workers : \/ edit'[u] = edit[u]
                               \/ edit'[u].post = t /\ edit'[u].entry = e
         /\ \A s \in Threads : remembered'[s] = remembered[s] \/ (s = t /\ e \in MapIds)
<1>1. edit \in [Workers -> EditRecords] /\ remembered \in [Threads -> Nat \cup {Missing}]
  BY DEF ForumsTypeOK, EditRecords
<1>2. CASE UNCHANGED <<edit, remembered>>
  BY <1>1, <1>2
<1>3. CASE /\ edit' = [edit EXCEPT ![w] = [post |-> t, entry |-> e, version |-> v]]
           /\ remembered' = Before(e, t, v)
  <2> DEFINE r == [post |-> t, entry |-> e, version |-> v]
  <2>1. r \in EditRecords /\ r.post = t /\ r.entry = e
    BY DEF EditRecords
  <2> HIDE DEF r
  <2>2. edit' = [edit EXCEPT ![w] = r]
    BY <1>3 DEF r
  <2>3. edit' \in [Workers -> EditRecords] /\ \A u \in Workers : edit'[u] = edit[u] \/ edit'[u] = r
    BY <1>1, <2>1, <2>2
  <2>4. remembered' \in [Threads -> Nat \cup {Missing}]
        /\ \A s \in Threads : remembered'[s] = remembered[s] \/ (s = t /\ e \in MapIds)
    BY <1>1, <1>3 DEF Before
  <2> QED BY <2>1, <2>3, <2>4
<1> QED BY <1>2, <1>3 DEF Editing

\* What each step that begins an edit does with posts, and which edit it begins.
Begins(w) == \E t \in Threads, e \in Entries, v \in Nat :
               /\ Editing(w, t, e, v) /\ posts[t] # Missing /\ (t \in Live => posts[t].entry = e)
LEMMA BeginSteps ==
  ASSUME ForumsTypeOK, ForumsInv
  PROVE  /\ \A g \in Guilds : Visit(g) => Begins(g)
         /\ \A w \in Tasks, e \in MapIds : RefreshMap(w, e) => Begins(w)
         /\ \A w \in Tasks, e \in PoolIds : RefreshPool(w, e) => Begins(w)
<1>1. ASSUME NEW g \in Guilds, Visit(g) PROVE Begins(g)
  <2>1. PICK e \in pending[g] : \E t \in Found(g, e) : Editing(g, t, e, Rendered(g, e))
    BY <1>1 DEF Visit
  <2>3. PICK t \in Found(g, e) : Editing(g, t, e, Rendered(g, e))
    BY <2>1
  <2>2. pass[g] # "idle"
    BY <1>1 DEF Visit, Ready
  <2> QED BY <2>2, <2>3, FoundFacts DEF Begins
<1>2. ASSUME NEW w \in Tasks, NEW e \in MapIds, RefreshMap(w, e) PROVE Begins(w)
  <2>0. PICK g \in Guilds : \E t \in PostsOf(g, e) \cap {link[e]} : Editing(w, t, e, text[e])
    BY <1>2 DEF RefreshMap
  <2>1. PICK t \in PostsOf(g, e) \cap {link[e]} : Editing(w, t, e, text[e])
    BY <2>0
  <2>2. e \in Entries /\ text[e] \in Nat /\ t \in Live /\ posts[t].entry = e
    BY <2>1, LiveFacts DEF Entries, ForumsTypeOK, ForumsInv, PostsHeld, PostsOf
  <2>3. t \in Threads /\ posts[t] # Missing
    BY <2>2, LiveFacts
  <2> QED BY <2>1, <2>2, <2>3 DEF Begins
<1>3. ASSUME NEW w \in Tasks, NEW e \in PoolIds, RefreshPool(w, e) PROVE Begins(w)
  <2>0. PICK g \in Guilds : \E t \in Visible(g) \cap {link[e]} : Editing(w, t, e, text[e])
    BY <1>3 DEF RefreshPool
  <2>1. PICK t \in Visible(g) \cap {link[e]} : Editing(w, t, e, text[e])
    BY <2>0
  <2>2. e \in Entries /\ text[e] \in Nat /\ t \in Live
    BY <1>3, <2>1, LiveFacts DEF Entries, ForumsTypeOK, RefreshPool
  <2>3. t \in Threads /\ posts[t] # Missing
    BY <2>2, LiveFacts
  <2>4. posts[t].entry = e
    BY <2>1, <2>2, <2>3, ForumsAssumption DEF ForumsInv, PostsHeld, HoldsPost
  <2> QED BY <2>1, <2>2, <2>3, <2>4 DEF Begins
<1> QED BY <1>1, <1>2, <1>3

\* A post appears once, keeps its guild and its entry, and does not come back.
Evolve ==
  \A t \in Threads : posts[t] # Missing =>
    posts'[t] # Missing /\ (t \in Live' => t \in Live /\ posts'[t].guild = posts[t].guild
                                                     /\ posts'[t].entry = posts[t].entry)
LEMMA EvolveSame == UNCHANGED posts => Evolve
BY DEF Evolve, Live

LEMMA CreatePosts ==
  ASSUME ForumsTypeOK, ForumsInv, NEW g \in Guilds, CreatePost(g)
  PROVE  \E e \in pending[g], t \in Threads :
           /\ e \in Entries /\ e \in Forum(pass[g]) /\ Found(g, e) = {} /\ posts[t] = Missing
           /\ posts'[t] \in Posts /\ posts'[t].guild = g /\ posts'[t].entry = e /\ t \in Live' /\ t \notin Live
           /\ \A s \in Threads \ {t} : posts'[s] = posts[s] /\ (s \in Live' <=> s \in Live)
           /\ posts' \in [Threads -> Posts \cup {Missing, Gone}]
           /\ pending' = [pending EXCEPT ![g] = pending[g] \ {e}]
           /\ made' = [made EXCEPT ![g] = IF e \in FactionIds THEN Missing ELSE t]
<1>1. pass[g] # "idle"
  BY DEF CreatePost, Ready
<1>2. PICK e \in pending[g], t \in Threads :
       /\ Found(g, e) = {} /\ posts[t] = Missing
       /\ posts' = [posts EXCEPT ![t] = [guild |-> g, entry |-> e, version |-> Rendered(g, e)]]
       /\ pending' = [pending EXCEPT ![g] = @ \ {e}]
       /\ made' = [made EXCEPT ![g] = IF e \in FactionIds THEN Missing ELSE t]
  BY DEF CreatePost
<1>3. e \in Entries /\ e \in Forum(pass[g]) /\ Rendered(g, e) \in Nat
  BY <1>1, FoundFacts
<1> DEFINE r == [guild |-> g, entry |-> e, version |-> Rendered(g, e)]
<1>4. r \in Posts /\ r.guild = g /\ r.entry = e
  BY <1>3 DEF Posts
<1>5. posts' = [posts EXCEPT ![t] = r]
  BY <1>2
<1> HIDE DEF r
<1>6. posts \in [Threads -> Posts \cup {Missing, Gone}]
  BY DEF ForumsTypeOK
<1>7. posts' \in [Threads -> Posts \cup {Missing, Gone}] /\ posts'[t] = r /\ \A s \in Threads \ {t} : posts'[s] = posts[s]
  BY <1>4, <1>5, <1>6
<1>8. t \in Live' /\ t \notin Live /\ \A s \in Threads \ {t} : s \in Live' <=> s \in Live
  BY <1>2, <1>4, <1>7, ForumsAssumption DEF Live
<1> QED BY <1>2, <1>3, <1>4, <1>7, <1>8

LEMMA ApplyPosts ==
  ASSUME ForumsTypeOK, NEW w \in Workers, Apply(w)
  PROVE  /\ edit[w].post \in Live /\ edit[w].post \in Threads /\ posts' \in [Threads -> Posts \cup {Missing, Gone}]
         /\ posts'[edit[w].post].version = edit[w].version /\ edit[w].version \in Nat
         /\ Live' = Live
         /\ \A t \in Live : posts'[t].guild = posts[t].guild /\ posts'[t].entry = posts[t].entry
         /\ \A t \in Threads \ {edit[w].post} : posts'[t] = posts[t]
<1> DEFINE t == edit[w].post
           r == [posts[t] EXCEPT !.version = edit[w].version]
<1>1. t \in Live /\ posts' = [posts EXCEPT ![t] = r]
  BY DEF Apply
<1>2. t \in Threads /\ posts[t] \in Posts /\ edit[w].version \in Nat
  <2>1. edit[w] \in EditRecords
    BY DEF ForumsTypeOK, EditRecords
  <2> QED BY <1>1, <2>1, LiveFacts DEF EditRecords
<1>3. r \in Posts /\ r.guild = posts[t].guild /\ r.entry = posts[t].entry /\ r.version = edit[w].version
  BY <1>2 DEF Posts
<1> HIDE DEF r, t
<1>4. posts \in [Threads -> Posts \cup {Missing, Gone}]
  BY DEF ForumsTypeOK
<1>5. posts' \in [Threads -> Posts \cup {Missing, Gone}] /\ posts'[t] = r /\ \A s \in Threads \ {t} : posts'[s] = posts[s]
  BY <1>1, <1>2, <1>3, <1>4
<1>6. Live' = Live
  BY <1>1, <1>3, <1>5, ForumsAssumption DEF Live
<1> QED BY <1>1, <1>2, <1>3, <1>5, <1>6 DEF t, Live

\* Posts that go.
Vanishes(s) ==
  posts' \in [Threads -> Posts \cup {Missing, Gone}] /\ \A t \in Threads : posts'[t] = posts[t] \/ (t = s /\ posts'[t] = Gone)
LEMMA GoneSteps ==
  ASSUME ForumsTypeOK
  PROVE  /\ \A g \in Guilds : Sweep(g) => \E s \in Orphans(g) : Vanishes(s) /\ (\A t \in Threads \ {s} : posts'[t] = posts[t])
         /\ \A s \in Threads : Disappear(s) => Vanishes(s)
         /\ \A e \in PoolIds : DeletePool(e) => Vanishes(link[e])
<1>0. posts \in [Threads -> Posts \cup {Missing, Gone}]
  BY DEF ForumsTypeOK
<1>1. ASSUME NEW g \in Guilds, Sweep(g)
      PROVE  \E s \in Orphans(g) : Vanishes(s) /\ (\A t \in Threads \ {s} : posts'[t] = posts[t])
  <2>1. PICK s \in Orphans(g) : posts' = [posts EXCEPT ![s] = Gone] \/ UNCHANGED posts
    BY <1>1 DEF Sweep
  <2> QED BY <1>0, <2>1 DEF Vanishes
<1>2. ASSUME NEW s \in Threads, Disappear(s) PROVE Vanishes(s)
  BY <1>0, <1>2 DEF Disappear, Vanishes
<1>3. ASSUME NEW e \in PoolIds, DeletePool(e) PROVE Vanishes(link[e])
  BY <1>0, <1>3 DEF DeletePool, Vanishes
<1> QED BY <1>1, <1>2, <1>3

LEMMA EvolveGoes ==
  ASSUME NEW s, Vanishes(s)
  PROVE  Evolve /\ Live' \subseteq Live /\ \A t \in Live' : posts'[t] = posts[t]
BY ForumsAssumption DEF Vanishes, Evolve, Live

\* Which actions change which variables.
LEMMA Frames ==
  ASSUME ForumsNext
  PROVE  /\ UNCHANGED text \/ (\E e \in Entries : Change(e)) \/ (\E e \in PoolIds : DeletePool(e))
         /\ UNCHANGED link \/ (\E g \in Guilds : Record(g)) \/ (\E e \in Entries : Change(e))
              \/ (\E e \in PoolIds : DeletePool(e)) \/ (\E e \in Entries : LoseLink(e))
         /\ UNCHANGED posts \/ (\E g \in Guilds : CreatePost(g)) \/ (\E g \in Guilds : Sweep(g))
              \/ (\E w \in Workers : Apply(w)) \/ (\E e \in PoolIds : DeletePool(e))
              \/ (\E t \in Threads : Disappear(t))
         /\ UNCHANGED hidden \/ (\E t \in Threads : Disappear(t))
         /\ UNCHANGED remembered \/ (\E g \in Guilds : Visit(g)) \/ (\E w \in Tasks, e \in MapIds : RefreshMap(w, e))
              \/ (\E w \in Tasks, e \in PoolIds : RefreshPool(w, e)) \/ (\E w \in Workers : Apply(w))
              \/ ForgetRenders \/ BotRestarts
         /\ UNCHANGED backoff \/ (\E w \in Workers : EditFails(w)) \/ (\E t \in Threads : BackoffEnds(t))
              \/ BotRestarts
         /\ \/ UNCHANGED pass
            \/ (\E g \in Guilds, kind \in {"maps", "pools", "factions"} : Start(g, kind))
            \/ (\E g \in Guilds : Unrecorded(g))
              \/ (\E g \in Guilds : Abort(g)) \/ (\E g \in Guilds : Finish(g))
              \/ BotRestarts
         /\ \/ UNCHANGED pending
            \/ (\E g \in Guilds, kind \in {"maps", "pools", "factions"} : Start(g, kind))
            \/ (\E g \in Guilds : Visit(g))
              \/ (\E g \in Guilds : CreatePost(g)) \/ (\E g \in Guilds : Unrecorded(g))
              \/ (\E g \in Guilds : Abort(g)) \/ (\E g \in Guilds : Finish(g))
              \/ BotRestarts
         /\ \/ UNCHANGED seen
            \/ (\E g \in Guilds, kind \in {"maps", "pools", "factions"} : Start(g, kind))
            \/ (\E g \in Guilds : Unrecorded(g))
              \/ (\E g \in Guilds : Abort(g)) \/ (\E g \in Guilds : Sweep(g))
              \/ (\E g \in Guilds : Finish(g)) \/ BotRestarts
         /\ UNCHANGED made \/ (\E g \in Guilds : CreatePost(g)) \/ (\E g \in Guilds : Record(g))
              \/ (\E g \in Guilds : Unrecorded(g)) \/ (\E g \in Guilds : Abort(g))
              \/ (\E g \in Guilds : Finish(g)) \/ BotRestarts
         /\ UNCHANGED edit \/ (\E g \in Guilds : Visit(g)) \/ (\E w \in Tasks, e \in MapIds : RefreshMap(w, e))
              \/ (\E w \in Tasks, e \in PoolIds : RefreshPool(w, e)) \/ (\E w \in Workers : Apply(w))
              \/ (\E w \in Workers : EditFails(w)) \/ BotRestarts
         /\ \/ UNCHANGED calm
            \/ (\E g \in Guilds, kind \in {"maps", "pools", "factions"} : Start(g, kind))
            \/ (\E g \in Guilds : Unrecorded(g))
              \/ (\E g \in Guilds : Abort(g)) \/ (\E g \in Guilds : Sweep(g))
              \/ (\E e \in Entries : Change(e)) \/ (\E e \in PoolIds : DeletePool(e))
              \/ (\E e \in Entries : LoseLink(e)) \/ (\E t \in Threads : Disappear(t))
              \/ BotRestarts
         /\ UNCHANGED apart \/ (\E g \in Guilds, kind \in {"maps", "pools", "factions"} : Start(g, kind))
         /\ UNCHANGED strayed \/ (\E g \in Guilds : Unrecorded(g)) \/ (\E e \in Entries : LoseLink(e))
              \/ BotRestarts
<1>1. UNCHANGED text \/ (\E e \in Entries : Change(e)) \/ (\E e \in PoolIds : DeletePool(e))
  BY DEF ForumsNext, bot, forumCounts, Start, Visit, CreatePost, Record, Unrecorded, Abort, Sweep, Finish,
     RefreshMap, RefreshPool, Apply, EditFails, BackoffEnds, Disappear, LoseLink, ForgetRenders, BotRestarts
<1>2. \/ UNCHANGED link
      \/ (\E g \in Guilds : Record(g)) \/ (\E e \in Entries : Change(e))
      \/ (\E e \in PoolIds : DeletePool(e)) \/ (\E e \in Entries : LoseLink(e))
  BY DEF ForumsNext, bot, forumCounts, Start, Visit, CreatePost, Unrecorded, Abort, Sweep, Finish, RefreshMap,
     RefreshPool, Apply, EditFails, BackoffEnds, Disappear, ForgetRenders, BotRestarts
<1>3. \/ UNCHANGED posts
      \/ (\E g \in Guilds : CreatePost(g)) \/ (\E g \in Guilds : Sweep(g)) \/ (\E w \in Workers : Apply(w))
      \/ (\E e \in PoolIds : DeletePool(e)) \/ (\E t \in Threads : Disappear(t))
  BY DEF ForumsNext, bot, forumCounts, Start, Visit, Record, Unrecorded, Abort, Finish, RefreshMap, RefreshPool,
     EditFails, BackoffEnds, Change, LoseLink, ForgetRenders, BotRestarts
<1>4. UNCHANGED hidden \/ (\E t \in Threads : Disappear(t))
  BY DEF ForumsNext, bot, forumCounts, Start, Visit, CreatePost, Record, Unrecorded, Abort, Sweep, Finish,
     RefreshMap, RefreshPool, Apply, EditFails, BackoffEnds, Change, LoseLink, DeletePool, ForgetRenders,
     BotRestarts
<1>5. \/ UNCHANGED remembered
      \/ (\E g \in Guilds : Visit(g)) \/ (\E w \in Tasks, e \in MapIds : RefreshMap(w, e))
      \/ (\E w \in Tasks, e \in PoolIds : RefreshPool(w, e)) \/ (\E w \in Workers : Apply(w))
      \/ ForgetRenders \/ BotRestarts
  BY DEF ForumsNext, bot, forumCounts, Start, CreatePost, Record, Unrecorded, Abort, Sweep, Finish, EditFails,
     BackoffEnds, Disappear, Change, LoseLink, DeletePool
<1>6. UNCHANGED backoff \/ (\E w \in Workers : EditFails(w)) \/ (\E t \in Threads : BackoffEnds(t)) \/ BotRestarts
  BY DEF ForumsNext, bot, forumCounts, Start, Visit, CreatePost, Record, Unrecorded, Abort, Sweep, Finish,
     RefreshMap, RefreshPool, Apply, Disappear, Change, LoseLink, DeletePool, ForgetRenders
<1>7. \/ UNCHANGED pass
      \/ (\E g \in Guilds, kind \in {"maps", "pools", "factions"} : Start(g, kind))
      \/ (\E g \in Guilds : Unrecorded(g)) \/ (\E g \in Guilds : Abort(g)) \/ (\E g \in Guilds : Finish(g))
      \/ BotRestarts
  BY DEF ForumsNext, bot, forumCounts, Visit, CreatePost, Record, Sweep, RefreshMap, RefreshPool, Apply, EditFails,
     BackoffEnds, Disappear, Change, LoseLink, DeletePool, ForgetRenders
<1>8. \/ UNCHANGED pending
      \/ (\E g \in Guilds, kind \in {"maps", "pools", "factions"} : Start(g, kind))
      \/ (\E g \in Guilds : Visit(g)) \/ (\E g \in Guilds : CreatePost(g))
      \/ (\E g \in Guilds : Unrecorded(g)) \/ (\E g \in Guilds : Abort(g)) \/ (\E g \in Guilds : Finish(g))
      \/ BotRestarts
  BY DEF ForumsNext, bot, forumCounts, Record, Sweep, RefreshMap, RefreshPool, Apply, EditFails, BackoffEnds,
     Disappear, Change, LoseLink, DeletePool, ForgetRenders
<1>9. \/ UNCHANGED seen
      \/ (\E g \in Guilds, kind \in {"maps", "pools", "factions"} : Start(g, kind))
      \/ (\E g \in Guilds : Unrecorded(g)) \/ (\E g \in Guilds : Abort(g)) \/ (\E g \in Guilds : Sweep(g))
      \/ (\E g \in Guilds : Finish(g)) \/ BotRestarts
  BY DEF ForumsNext, bot, forumCounts, Visit, CreatePost, Record, RefreshMap, RefreshPool, Apply, EditFails,
     BackoffEnds, Disappear, Change, LoseLink, DeletePool, ForgetRenders
<1>10. \/ UNCHANGED made
       \/ (\E g \in Guilds : CreatePost(g)) \/ (\E g \in Guilds : Record(g))
       \/ (\E g \in Guilds : Unrecorded(g)) \/ (\E g \in Guilds : Abort(g)) \/ (\E g \in Guilds : Finish(g))
       \/ BotRestarts
  BY DEF ForumsNext, bot, forumCounts, Start, Visit, Sweep, RefreshMap, RefreshPool, Apply, EditFails, BackoffEnds,
     Disappear, Change, LoseLink, DeletePool, ForgetRenders
<1>11. \/ UNCHANGED edit
       \/ (\E g \in Guilds : Visit(g)) \/ (\E w \in Tasks, e \in MapIds : RefreshMap(w, e))
       \/ (\E w \in Tasks, e \in PoolIds : RefreshPool(w, e)) \/ (\E w \in Workers : Apply(w))
       \/ (\E w \in Workers : EditFails(w)) \/ BotRestarts
  BY DEF ForumsNext, bot, forumCounts, Start, CreatePost, Record, Unrecorded, Abort, Sweep, Finish, BackoffEnds,
     Disappear, Change, LoseLink, DeletePool, ForgetRenders
<1>12. \/ UNCHANGED calm
       \/ (\E g \in Guilds, kind \in {"maps", "pools", "factions"} : Start(g, kind))
       \/ (\E g \in Guilds : Unrecorded(g)) \/ (\E g \in Guilds : Abort(g)) \/ (\E g \in Guilds : Sweep(g))
       \/ (\E e \in Entries : Change(e)) \/ (\E e \in PoolIds : DeletePool(e))
       \/ (\E e \in Entries : LoseLink(e)) \/ (\E t \in Threads : Disappear(t)) \/ BotRestarts
  BY DEF ForumsNext, bot, forumCounts, Visit, CreatePost, Record, Finish, RefreshMap, RefreshPool, Apply,
     EditFails, BackoffEnds, ForgetRenders
<1>13. UNCHANGED strayed \/ (\E g \in Guilds : Unrecorded(g)) \/ (\E e \in Entries : LoseLink(e)) \/ BotRestarts
  BY DEF ForumsNext, bot, forumCounts, Start, Visit, CreatePost, Record, Abort, Sweep, Finish, RefreshMap,
     RefreshPool, Apply, EditFails, BackoffEnds, Disappear, Change, DeletePool, ForgetRenders
<1>14. UNCHANGED apart \/ (\E g \in Guilds, kind \in {"maps", "pools", "factions"} : Start(g, kind))
  BY DEF ForumsNext, bot, forumCounts, Visit, CreatePost, Record, Unrecorded, Abort, Sweep, Finish, RefreshMap,
     RefreshPool, Apply, EditFails, BackoffEnds, Disappear, Change, LoseLink, DeletePool, ForgetRenders, BotRestarts
<1> QED BY <1>1, <1>2, <1>3, <1>4, <1>5, <1>6, <1>7, <1>8, <1>9, <1>10, <1>11, <1>12, <1>13, <1>14

\* The versions of the entries.
LEMMA TextSteps ==
  ASSUME ForumsTypeOK, ForumsInv, ForumsNext
  PROVE  /\ text' \in [Entries -> Nat \cup {Missing}] /\ revisions' \in Nat
         /\ \A e \in MapIds : text'[e] # Missing
<1>1. text \in [Entries -> Nat \cup {Missing}] /\ revisions \in Nat /\ \A e \in MapIds : text[e] # Missing
  BY DEF ForumsTypeOK, ForumsInv, PostsHeld
<1>2. ASSUME UNCHANGED text
      PROVE  text' \in [Entries -> Nat \cup {Missing}] /\ \A m \in MapIds : text'[m] # Missing
  BY <1>1, <1>2
<1>3. ASSUME NEW e \in Entries, Change(e)
      PROVE  text' \in [Entries -> Nat \cup {Missing}] /\ \A m \in MapIds : text'[m] # Missing
  <2>1. CASE text[e] # Missing /\ text' = [text EXCEPT ![e] = @ + 1]
    <3>1. text[e] + 1 \in Nat /\ text[e] + 1 # Missing
      BY <1>1, <2>1, ForumsAssumption
    <3>2. text' = [text EXCEPT ![e] = text[e] + 1]
      BY <2>1
    <3> QED BY <1>1, <3>1, <3>2 DEF Entries
  <2>2. CASE e \in PoolIds \cup FactionIds /\ text' = [text EXCEPT ![e] = IF @ = Missing THEN revisions ELSE Missing]
    <3>1. e \notin MapIds
      BY <2>2, ForumsAssumption
    <3> QED BY <1>1, <2>2, <3>1 DEF Entries
  <2> QED BY <1>3, <2>1, <2>2 DEF Change
<1>4. ASSUME NEW e \in PoolIds, DeletePool(e)
      PROVE  text' \in [Entries -> Nat \cup {Missing}] /\ \A m \in MapIds : text'[m] # Missing
  <2>1. e \notin MapIds /\ text' = [text EXCEPT ![e] = Missing]
    BY <1>4, ForumsAssumption DEF DeletePool
  <2> QED BY <1>1, <2>1 DEF Entries
<1>5. text' \in [Entries -> Nat \cup {Missing}] /\ \A e \in MapIds : text'[e] # Missing
  BY <1>2, <1>3, <1>4, Frames
<1>6. UNCHANGED revisions \/ revisions' = revisions + 1
  BY DEF ForumsNext, bot, forumCounts, Start, Visit, CreatePost, Record, Unrecorded, Abort, Sweep, Finish, RefreshMap,
     RefreshPool, Apply, EditFails, BackoffEnds, Disappear, Change, LoseLink, DeletePool, ForgetRenders, BotRestarts
<1> QED BY <1>1, <1>5, <1>6

\* The posts.
LEMMA PostSteps ==
  ASSUME ForumsTypeOK, ForumsInv, ForumsNext
  PROVE  /\ posts' \in [Threads -> Posts \cup {Missing, Gone}] /\ Evolve
         /\ \A t \in Threads : \/ posts'[t] = posts[t] \/ posts'[t] = Gone
                               \/ posts[t] = Missing
                               \/ \E w \in Workers : Apply(w) /\ t = edit[w].post /\ posts'[t].version = edit[w].version
         /\ hidden' \subseteq Threads /\ \A t \in hidden' \ hidden : t \in Live
<1>1. posts \in [Threads -> Posts \cup {Missing, Gone}] /\ hidden \subseteq Threads
  BY DEF ForumsTypeOK
<1> DEFINE Sane == /\ posts' \in [Threads -> Posts \cup {Missing, Gone}] /\ Evolve
                   /\ \A t \in Threads : \/ posts'[t] = posts[t] \/ posts'[t] = Gone
                                         \/ posts[t] = Missing
                                         \/ \E w \in Workers : Apply(w) /\ t = edit[w].post /\ posts'[t].version = edit[w].version
<1>2. ASSUME UNCHANGED posts PROVE Sane
  BY <1>1, <1>2, EvolveSame
<1>3. ASSUME NEW g \in Guilds, CreatePost(g) PROVE Sane
  <2>1. PICK t \in Threads : posts[t] = Missing /\ posts' \in [Threads -> Posts \cup {Missing, Gone}]
                             /\ \A s \in Threads \ {t} : posts'[s] = posts[s] /\ (s \in Live' <=> s \in Live)
    BY <1>3, CreatePosts
  <2>2. Evolve
    BY <2>1 DEF Evolve
  <2> QED BY <2>1, <2>2
<1>4. ASSUME NEW s, Vanishes(s) PROVE Sane
  <2>1. Evolve
    BY <1>4, EvolveGoes
  <2> QED BY <1>4, <2>1 DEF Vanishes
<1>5. ASSUME NEW w \in Workers, Apply(w) PROVE Sane
  <2>1. Evolve
    <3>1. edit[w].post \in Threads /\ posts[edit[w].post] # Missing /\ posts'[edit[w].post] # Missing
      <4>1. edit[w].post \in Live /\ edit[w].post \in Live'
        BY <1>5, ApplyPosts
      <4> QED BY <4>1, ForumsAssumption DEF Live
    <3> QED BY <1>5, <3>1, ApplyPosts DEF Evolve
  <2>2. \A t \in Threads : posts'[t] = posts[t] \/ t = edit[w].post
    BY <1>5, ApplyPosts
  <2> QED BY <1>5, <2>1, <2>2, ApplyPosts
<1>6. Sane
  BY <1>2, <1>3, <1>4, <1>5, Frames, GoneSteps
<1>7. hidden' \subseteq Threads /\ \A t \in hidden' \ hidden : t \in Live
  BY <1>1, Frames DEF Disappear
<1> QED BY <1>6, <1>7

\* The recorded links.
LEMMA LinkSteps ==
  ASSUME ForumsTypeOK, ForumsInv, ForumsNext
  PROVE  /\ link' \in [Entries -> Threads \cup {Missing}]
         /\ \A e \in Entries : \/ link'[e] = link[e] \/ link'[e] = Missing
                               \/ \E g \in Guilds : Record(g) /\ e = posts[made[g]].entry /\ link'[e] = made[g] /\ made[g] \in Live
<1>1. link \in [Entries -> Threads \cup {Missing}]
  BY DEF ForumsTypeOK
<1> DEFINE Sane == /\ link' \in [Entries -> Threads \cup {Missing}]
                   /\ \A e \in Entries : \/ link'[e] = link[e] \/ link'[e] = Missing
                        \/ \E g \in Guilds : Record(g) /\ e = posts[made[g]].entry /\ link'[e] = made[g] /\ made[g] \in Live
<1>2. CASE UNCHANGED link
  BY <1>1, <1>2
<1>3. ASSUME NEW g \in Guilds, Record(g) PROVE Sane
  <2>1. made[g] \in Live /\ link' = [link EXCEPT ![posts[made[g]].entry] = made[g]]
    BY <1>3 DEF Record, Recordable, Recorded
  <2>2. made[g] \in Threads
    BY <2>1 DEF Live
  <2>3. link' \in [Entries -> Threads \cup {Missing}]
    BY <1>1, <2>1, <2>2
  <2>4. \A e \in Entries : link'[e] = link[e] \/ (e = posts[made[g]].entry /\ link'[e] = made[g])
    BY <1>1, <2>1
  <2> QED BY <1>3, <2>1, <2>3, <2>4
<1>4. ASSUME link' = link \/ \E e \in Entries : link' = [link EXCEPT ![e] = Missing] PROVE Sane
  BY <1>1, <1>4
<1>5. (\E e \in Entries : Change(e) \/ LoseLink(e)) => (link' = link \/ \E e \in Entries : link' = [link EXCEPT ![e] = Missing])
  BY DEF Change, LoseLink
<1>6. (\E e \in PoolIds : DeletePool(e)) => \E e \in Entries : link' = [link EXCEPT ![e] = Missing]
  BY DEF DeletePool, Entries
<1> QED BY <1>2, <1>3, <1>4, <1>5, <1>6, Frames

\* The edits, and what is remembered.
LEMMA EditSteps ==
  ASSUME ForumsTypeOK, ForumsInv, ForumsNext
  PROVE  /\ edit' \in [Workers -> EditRecords] /\ remembered' \in [Threads -> Nat \cup {Missing}] /\ backoff' \subseteq Threads
         /\ \A w \in Workers :
              \/ edit'[w] = edit[w] \/ edit'[w] = NoEdit
              \/ /\ posts[edit'[w].post] # Missing /\ edit'[w].post \in Threads
                 /\ edit'[w].post \in Live => posts[edit'[w].post].entry = edit'[w].entry
         /\ \A t \in Threads :
              \/ remembered'[t] = remembered[t] \/ remembered'[t] = Missing
              \/ posts[t] # Missing /\ (t \in Live => posts[t].entry \in MapIds)
              \/ \E w \in Workers : /\ Apply(w) /\ t = edit[w].post /\ edit[w].entry \in PoolIds
                                    /\ remembered'[t] = edit[w].version /\ t \in Live
<1>1. /\ edit \in [Workers -> EditRecords] /\ remembered \in [Threads -> Nat \cup {Missing}] /\ backoff \subseteq Threads
  BY DEF ForumsTypeOK, EditRecords
<1> DEFINE EditFine == /\ edit' \in [Workers -> EditRecords]
                       /\ \A w \in Workers :
                            \/ edit'[w] = edit[w] \/ edit'[w] = NoEdit
                            \/ /\ posts[edit'[w].post] # Missing /\ edit'[w].post \in Threads
                               /\ edit'[w].post \in Live => posts[edit'[w].post].entry = edit'[w].entry
           Kept == /\ remembered' \in [Threads -> Nat \cup {Missing}]
                   /\ \A t \in Threads :
                        \/ remembered'[t] = remembered[t] \/ remembered'[t] = Missing
                        \/ posts[t] # Missing /\ (t \in Live => posts[t].entry \in MapIds)
                        \/ \E w \in Workers : /\ Apply(w) /\ t = edit[w].post /\ edit[w].entry \in PoolIds
                                              /\ remembered'[t] = edit[w].version /\ t \in Live
<1>2. ASSUME NEW w \in Workers, Begins(w) PROVE EditFine /\ Kept
  <2>1. PICK t \in Threads, e \in Entries, v \in Nat :
          Editing(w, t, e, v) /\ posts[t] # Missing /\ (t \in Live => posts[t].entry = e)
    BY <1>2 DEF Begins
  <2>2. /\ edit' \in [Workers -> EditRecords] /\ remembered' \in [Threads -> Nat \cup {Missing}]
        /\ \A u \in Workers : edit'[u] = edit[u] \/ (edit'[u].post = t /\ edit'[u].entry = e)
        /\ \A s \in Threads : remembered'[s] = remembered[s] \/ (s = t /\ e \in MapIds)
    BY <2>1, EditBegins
  <2> QED BY <2>1, <2>2
<1>3. ASSUME NEW w \in Workers, Apply(w) PROVE Kept
  <2>1. edit[w].post \in Threads /\ edit[w].version \in Nat /\ edit[w].post \in Live
    BY <1>3, ApplyPosts
  <2>2. remembered' = remembered \/ (edit[w].entry \in PoolIds /\ remembered' = [remembered EXCEPT ![edit[w].post] = edit[w].version])
    BY <1>3 DEF Apply, After
  <2> QED BY <1>1, <1>3, <2>1, <2>2
<1>4. (ForgetRenders \/ BotRestarts) => Kept
  BY DEF ForgetRenders, BotRestarts
<1>5. Kept
  <2>1. UNCHANGED remembered => Kept
    BY <1>1
  <2>2. Guilds \subseteq Workers /\ Tasks \subseteq Workers
    BY DEF Workers
  <2> HIDE DEF Kept
  <2> QED BY <1>2, <1>3, <1>4, <2>1, <2>2, BeginSteps, Frames
<1>6. EditFine
  <2>1. UNCHANGED edit => EditFine
    BY <1>1
  <2>2. ASSUME NEW w \in Workers, edit' = [edit EXCEPT ![w] = NoEdit] PROVE EditFine
    BY <1>1, <2>2, NothingRecords
  <2>3. BotRestarts => EditFine
    BY NothingRecords DEF BotRestarts
  <2>4. Guilds \subseteq Workers /\ Tasks \subseteq Workers
    BY DEF Workers
  <2>5. \A w \in Workers : Apply(w) \/ EditFails(w) => edit' = [edit EXCEPT ![w] = NoEdit]
    BY DEF Apply, EditFails
  <2> HIDE DEF EditFine
  <2> QED BY <1>2, <2>1, <2>2, <2>3, <2>4, <2>5, BeginSteps, Frames
<1>7. backoff' \subseteq Threads
  <2>1. ASSUME NEW w \in Workers, EditFails(w) PROVE backoff' \subseteq Threads
    <3>1. edit[w] \in EditRecords /\ edit[w] # NoEdit
      BY <1>1, <2>1 DEF EditFails
    <3>2. edit[w].post \in Threads
      BY <3>1 DEF EditRecords, ForumsInv, PostsHeld
    <3> QED BY <1>1, <2>1, <3>2 DEF EditFails
  <2> QED BY <1>1, <2>1, Frames DEF BackoffEnds, BotRestarts
<1> QED BY <1>5, <1>6, <1>7

\* What a step does with the pass of a guild: it goes on with what it holds or
\* less, creates a post, is over, or begins.
GoesOn(h) ==
  /\ pass'[h] = pass[h] /\ pending'[h] \subseteq pending[h] /\ made'[h] \in {made[h], Missing}
  /\ seen'[h].text = seen[h].text /\ seen'[h].link = seen[h].link /\ seen'[h].posts \subseteq seen[h].posts
Over(h) == pass'[h] = "idle" /\ pending'[h] = {} /\ seen'[h] = NoPass /\ made'[h] = Missing
Starts(h) == \E kind \in {"maps", "pools", "factions"} : Start(h, kind)

PassKinds == {"idle", "maps", "pools", "factions"}
PassTypes ==
  /\ pass \in [Guilds -> PassKinds] /\ pending \in [Guilds -> SUBSET Entries]
  /\ seen \in [Guilds -> PassRecords] /\ made \in [Guilds -> Threads \cup {Missing}]
LEMMA PassTyped == ForumsTypeOK => PassTypes
BY DEF ForumsTypeOK, PassTypes, PassKinds, PassRecords

\* What a pass reads when it begins.
LEMMA StartReads ==
  ASSUME ForumsTypeOK, NEW g \in Guilds, NEW kind \in {"maps", "pools", "factions"}, Start(g, kind)
  PROVE  /\ PassTypes' /\ \A h \in Guilds \ {g} : GoesOn(h)
         /\ pass'[g] = kind /\ pending'[g] = {e \in Forum(kind) : text[e] # Missing} /\ made'[g] = made[g]
         /\ seen'[g].text = text /\ seen'[g].link = link
         /\ seen'[g].posts = {t \in Visible(g) : posts[t].entry \in Forum(kind)}
         /\ kind = "pools" /\ g \in apart' => seen'[g].twins = {}
         /\ \A h \in Guilds \ {g} : h \in apart' <=> h \in apart
         /\ kind # "pools" => UNCHANGED apart
         /\ pass[g] = "idle" /\ UNCHANGED posts
<1>0. PICK K \in Twins(kind, Listed(g, kind)) :
        /\ seen' = [seen EXCEPT ![g] = [text |-> text, link |-> link, posts |-> Listed(g, kind), twins |-> K]]
        /\ apart' = IF kind # "pools" THEN apart ELSE IF K = {} THEN apart \cup {g} ELSE apart \ {g}
  BY DEF Start
<1> DEFINE L == {t \in Visible(g) : posts[t].entry \in Forum(kind)}
           r == [text |-> text, link |-> link, posts |-> L, twins |-> K]
           p == {e \in Forum(kind) : text[e] # Missing}
<1>1. PassTypes
  BY PassTyped
<1>2. r \in PassRecords /\ r.text = text /\ r.link = link /\ r.posts = L /\ r.twins = K
  <2>1. L \subseteq Threads
    BY DEF Visible, Live
  <2>2. K \subseteq L
    BY <1>0 DEF Twins, Listed
  <2>3. text \in [Entries -> Nat \cup {Missing}] /\ link \in [Entries -> Threads \cup {Missing}]
    BY DEF ForumsTypeOK
  <2> HIDE DEF L
  <2> QED BY <2>1, <2>2, <2>3 DEF PassRecords
<1>3. p \subseteq Entries
  BY DEF Forum, Entries
<1>4. seen' = [seen EXCEPT ![g] = r] /\ pending' = [pending EXCEPT ![g] = p] /\ pass' = [pass EXCEPT ![g] = kind]
      /\ UNCHANGED <<made, posts>> /\ pass[g] = "idle"
  BY <1>0 DEF Start, Wanted, Listed
<1>5. \A h \in Guilds \ {g} : GoesOn(h)
  <2> HIDE DEF r, p
  <2> QED BY <1>1, <1>4 DEF GoesOn, PassTypes
<1>6. PassTypes'
  <2> HIDE DEF r, p
  <2> QED BY <1>1, <1>2, <1>3, <1>4 DEF PassTypes, PassKinds
<1>7. seen'[g] = r /\ pending'[g] = p /\ pass'[g] = kind
  <2> HIDE DEF r, p
  <2> QED BY <1>1, <1>4 DEF PassTypes
<1> QED BY <1>0, <1>2, <1>4, <1>5, <1>6, <1>7

LEMMA PassSteps ==
  ASSUME ForumsTypeOK, ForumsInv, ForumsNext
  PROVE  /\ PassTypes'
         /\ \A h \in Guilds : GoesOn(h) \/ CreatePost(h) \/ Over(h) \/ Starts(h)
<1> DEFINE Sane == PassTypes' /\ \A h \in Guilds : GoesOn(h) \/ CreatePost(h) \/ Over(h) \/ Starts(h)
<1>1. PassTypes
  BY PassTyped
<1>2. ASSUME UNCHANGED <<pass, pending, seen, made>> PROVE Sane
  BY <1>1, <1>2 DEF PassTypes, GoesOn
<1>3. ASSUME NEW g \in Guilds, NEW kind \in {"maps", "pools", "factions"}, Start(g, kind) PROVE Sane
  <2>1. Starts(g)
    BY <1>3 DEF Starts
  <2> QED BY <1>3, <2>1, StartReads
<1>4. ASSUME NEW g \in Guilds, Visit(g) PROVE Sane
  <2>1. PICK e \in pending[g] : pending' = [pending EXCEPT ![g] = pending[g] \ {e}]
    BY <1>4 DEF Visit
  <2>2. UNCHANGED <<pass, seen, made>>
    BY <1>4 DEF Visit
  <2> QED BY <1>1, <2>1, <2>2 DEF PassTypes, GoesOn
<1>5. ASSUME NEW g \in Guilds, CreatePost(g) PROVE Sane
  <2>1. PICK e \in pending[g], t \in Threads : /\ pending' = [pending EXCEPT ![g] = pending[g] \ {e}]
                                               /\ made' = [made EXCEPT ![g] = IF e \in FactionIds THEN Missing ELSE t]
    BY <1>5, CreatePosts
  <2>2. UNCHANGED <<pass, seen>>
    BY <1>5 DEF CreatePost
  <2>3. PassTypes'
    BY <1>1, <2>1, <2>2 DEF PassTypes
  <2>4. \A h \in Guilds \ {g} : GoesOn(h)
    BY <1>1, <2>1, <2>2 DEF PassTypes, GoesOn
  <2> QED BY <1>5, <2>3, <2>4
<1>6. ASSUME NEW g \in Guilds, made' = [made EXCEPT ![g] = Missing], UNCHANGED <<pass, pending, seen>> PROVE Sane
  BY <1>1, <1>6 DEF PassTypes, GoesOn
<1>7. ASSUME NEW g \in Guilds, Ended(g) PROVE Sane
  <2>1. /\ pass' = [pass EXCEPT ![g] = "idle"] /\ pending' = [pending EXCEPT ![g] = {}]
        /\ seen' = [seen EXCEPT ![g] = NoPass] /\ made' = [made EXCEPT ![g] = Missing]
    BY <1>7 DEF Ended
  <2>2. PassTypes'
    BY <1>1, <2>1, NothingRecords DEF PassTypes, PassKinds
  <2>3. Over(g) /\ \A h \in Guilds \ {g} : GoesOn(h)
    BY <1>1, <2>1 DEF PassTypes, GoesOn, Over
  <2> QED BY <2>2, <2>3
<1>8. ASSUME NEW g \in Guilds, Sweep(g) PROVE Sane
  <2>1. PICK s \in Orphans(g) : seen' = [seen EXCEPT ![g].posts = @ \ {s}]
    BY <1>8 DEF Sweep
  <2> DEFINE r == [seen[g] EXCEPT !.posts = seen[g].posts \ {s}]
  <2>2. seen[g] \in PassRecords
    BY <1>1 DEF PassTypes
  <2>3. r \in PassRecords /\ r.text = seen[g].text /\ r.link = seen[g].link /\ r.posts = seen[g].posts \ {s}
    BY <2>2 DEF PassRecords
  <2>4. seen' = [seen EXCEPT ![g] = r]
    BY <1>1, <2>1 DEF PassTypes
  <2>5. UNCHANGED <<pass, pending, made>>
    BY <1>8 DEF Sweep
  <2> HIDE DEF r
  <2>6. PassTypes'
    BY <1>1, <2>3, <2>4, <2>5 DEF PassTypes
  <2>7. \A h \in Guilds : GoesOn(h)
    BY <1>1, <2>3, <2>4, <2>5 DEF PassTypes, GoesOn
  <2> QED BY <2>6, <2>7
<1>9. BotRestarts => Sane
  BY NothingRecords DEF BotRestarts, PassTypes, PassKinds, Over
<1>10. ASSUME NEW g \in Guilds, Record(g) PROVE Sane
  BY <1>6, <1>10 DEF Record
<1>11. ASSUME NEW g \in Guilds, Unrecorded(g) PROVE Sane
  BY <1>6, <1>7, <1>11 DEF Unrecorded
<1>12. ASSUME NEW g \in Guilds, Abort(g) \/ Finish(g) PROVE Sane
  BY <1>7, <1>12 DEF Abort, Finish
<1> HIDE DEF Sane
<1>13. Sane
  BY <1>2, <1>3, <1>4, <1>5, <1>8, <1>9, <1>10, <1>11, <1>12, Frames
<1> QED BY <1>13 DEF Sane

LEMMA TypeStep ==
  ASSUME ForumsTypeOK, ForumsInv, ForumsNext
  PROVE  ForumsTypeOK'
<1>1. calm' \subseteq Guilds /\ strayed' \in BOOLEAN /\ apart' \subseteq Guilds
  <2>1. calm \subseteq Guilds /\ strayed \in BOOLEAN
    BY DEF ForumsTypeOK
  <2>2. calm' \subseteq Guilds
    <3>1. \A g \in Guilds : Unrecorded(g) \/ Abort(g) \/ Sweep(g) => calm' \subseteq calm
      BY DEF Unrecorded, Abort, Sweep
    <3>2. (\E e \in Entries : Change(e) \/ LoseLink(e)) \/ (\E e \in PoolIds : DeletePool(e)) \/ (\E t \in Threads : Disappear(t))
          \/ BotRestarts => calm' \subseteq calm
      BY DEF Change, LoseLink, DeletePool, Disappear, BotRestarts
    <3>3. \A g \in Guilds, kind \in {"maps", "pools", "factions"} : Start(g, kind) => calm' \subseteq calm \cup {g}
      BY DEF Start
    <3> QED BY <2>1, <3>1, <3>2, <3>3, Frames
  <2>3. strayed' \in BOOLEAN
    <3>1. strayed' = strayed \/ strayed' = TRUE \/ (\E b \in BOOLEAN : strayed' = (strayed \/ b))
      BY Frames, Zenon DEF Unrecorded, LoseLink, BotRestarts
    <3> QED BY <2>1, <3>1, Zenon
  <2>4. apart' \subseteq Guilds
    <3>1. apart \subseteq Guilds
      BY DEF ForumsTypeOK
    <3>2. \A g \in Guilds, kind \in {"maps", "pools", "factions"} : Start(g, kind) => apart' \subseteq apart \cup {g}
      BY DEF Start
    <3> QED BY <3>1, <3>2, Frames
  <2> QED BY <2>2, <2>3, <2>4
<1>2. {passes', revisions', failures'} \subseteq Nat
  <2>1. passes \in Nat /\ revisions \in Nat /\ failures \in Nat
    BY DEF ForumsTypeOK
  <2>2. (passes' = passes \/ passes' = passes + 1) /\ (failures' = failures \/ failures' = failures + 1)
    BY DEF ForumsNext, Failing, bot, forumCounts, Start, Visit, CreatePost, Record, Unrecorded, Abort, Sweep, Finish,
       RefreshMap, RefreshPool, Apply, EditFails, BackoffEnds, Disappear, Change, LoseLink, DeletePool, ForgetRenders, BotRestarts
  <2> QED BY <2>1, <2>2, TextSteps
<1> QED BY <1>1, <1>2, TextSteps, PostSteps, LinkSteps, EditSteps, PassSteps
    DEF ForumsTypeOK, PassTypes, PassKinds, PassRecords, EditRecords

-----------------------------------------------------------------------------
\* What is held stays of its entry.
HoldsNext(t, e) == t # Missing => posts'[t] # Missing /\ (t \in Live' => posts'[t].entry = e)
LEMMA HeldStep ==
  ASSUME ForumsTypeOK, ForumsInv, ForumsNext
  PROVE  PostsHeld'
<1>0. PostsHeld /\ Evolve /\ Missing \notin Threads
  BY PostSteps, ForumsAssumption DEF ForumsInv
<1>1. ASSUME NEW t \in Threads \cup {Missing}, NEW e, HoldsPost(t, e) PROVE HoldsNext(t, e)
  BY <1>0, <1>1 DEF HoldsPost, HoldsNext, Evolve
<1>2. /\ link \in [Entries -> Threads \cup {Missing}] /\ \A g \in Guilds : seen[g] \in PassRecords
      /\ edit \in [Workers -> EditRecords]
  BY DEF ForumsTypeOK, PassRecords, EditRecords
<1>3. \A e \in Entries : HoldsNext(link[e], e) /\ HoldsNext(Missing, e)
  BY <1>0, <1>1, <1>2 DEF PostsHeld, HoldsNext
<1>4. \A e \in Entries : HoldsNext(link'[e], e)
  <2>1. ASSUME NEW e \in Entries, NEW g \in Guilds, Record(g), e = posts[made[g]].entry, link'[e] = made[g], made[g] \in Live
        PROVE  HoldsNext(link'[e], e)
    <3>1. posts[made[g]] # Missing
      BY <2>1 DEF Live
    <3> QED BY <2>1, <3>1 DEF Record, HoldsNext, Live
  <2> QED BY <1>3, <2>1, LinkSteps
<1>5. \A g \in Guilds, e \in Entries : HoldsNext(seen'[g].link[e], e)
  <2> TAKE g \in Guilds, e \in Entries
  <2>1. ASSUME seen'[g].link = seen[g].link PROVE HoldsNext(seen'[g].link[e], e)
    BY <1>0, <1>1, <1>2, <2>1 DEF PostsHeld, PassRecords
  <2>2. CASE GoesOn(g)
    BY <2>1, <2>2 DEF GoesOn
  <2>3. CASE CreatePost(g)
    BY <2>1, <2>3 DEF CreatePost
  <2>4. CASE Over(g)
    BY <1>3, <2>4, NothingRecords DEF Over
  <2>5. CASE Starts(g)
    BY <1>3, <2>5, StartReads DEF Starts
  <2> QED BY <2>2, <2>3, <2>4, <2>5, PassSteps
<1>6. \A w \in Workers : HoldsNext(edit'[w].post, edit'[w].entry) /\ (edit'[w] # NoEdit => edit'[w].post # Missing)
  <2> TAKE w \in Workers
  <2>1. CASE edit'[w] = edit[w]
    BY <1>0, <1>1, <1>2, <2>1 DEF PostsHeld, EditRecords
  <2>2. CASE edit'[w] = NoEdit
    BY <2>2, NothingRecords DEF HoldsNext
  <2>3. CASE /\ posts[edit'[w].post] # Missing /\ edit'[w].post \in Threads
             /\ edit'[w].post \in Live => posts[edit'[w].post].entry = edit'[w].entry
    BY <1>0, <1>1, <2>3 DEF HoldsPost
  <2> QED BY <2>1, <2>2, <2>3, EditSteps
<1>7. \A t \in Threads : posts'[t] = Missing => remembered'[t] = Missing /\ t \notin hidden'
  <2> SUFFICES ASSUME NEW t \in Threads, posts'[t] = Missing PROVE remembered'[t] = Missing /\ t \notin hidden'
    OBVIOUS
  <2>1. posts[t] = Missing /\ t \notin Live
    BY <1>0 DEF Evolve, Live
  <2>2. remembered[t] = Missing /\ t \notin hidden
    BY <1>0, <2>1 DEF PostsHeld
  <2> QED BY <2>1, <2>2, EditSteps, PostSteps
<1> QED BY <1>4, <1>5, <1>6, <1>7, TextSteps DEF PostsHeld, HoldsPost, HoldsNext

LEMMA RememberingStep ==
  ASSUME ForumsTypeOK, ForumsInv, ForumsNext
  PROVE  Remembering'
<1> SUFFICES ASSUME NEW t \in Live', posts'[t].entry \in PoolIds, remembered'[t] # Missing
             PROVE  remembered'[t] = posts'[t].version
  BY DEF Remembering
<1>1. t \in Threads /\ posts'[t] # Missing /\ posts'[t] # Gone
  BY DEF Live
<1>2. posts[t] # Missing
  <2>1. ASSUME posts[t] = Missing PROVE remembered'[t] = Missing
    BY <1>1, <2>1, EditSteps DEF ForumsInv, PostsHeld, Live
  <2> QED BY <2>1
<1>3. t \in Live /\ posts'[t].entry = posts[t].entry
  BY <1>1, <1>2, PostSteps DEF Evolve
<1>4. posts[t].entry \in PoolIds /\ posts[t].entry \notin MapIds
  BY <1>3, ForumsAssumption
<1>5. CASE \E w \in Workers : Apply(w) /\ t = edit[w].post
  <2>1. PICK w \in Workers : Apply(w) /\ t = edit[w].post
    BY <1>5
  <2>2. edit[w].entry \in PoolIds
    BY <1>1, <1>3, <1>4, <2>1, ForumsAssumption DEF ForumsInv, PostsHeld, HoldsPost
  <2>3. remembered \in [Threads -> Nat \cup {Missing}]
    BY DEF ForumsTypeOK
  <2>4. remembered' = [remembered EXCEPT ![t] = edit[w].version]
    BY <2>1, <2>2 DEF Apply, After
  <2> QED BY <1>1, <2>1, <2>3, <2>4, ApplyPosts
<1>6. CASE ~\E w \in Workers : Apply(w) /\ t = edit[w].post
  <2>1. posts'[t] = posts[t]
    BY <1>1, <1>2, <1>6, PostSteps
  <2>2. remembered'[t] = remembered[t]
    BY <1>1, <1>3, <1>4, <1>6, EditSteps
  <2> QED BY <1>3, <1>4, <2>1, <2>2 DEF ForumsInv, Remembering
<1> QED BY <1>5, <1>6

\* What a pass holds stays of its forum and of its guild.
LEMMA PassingStep ==
  ASSUME ForumsTypeOK, ForumsInv, ForumsNext
  PROVE  Passing'
<1>1. Passing /\ Evolve /\ PassTypes
  BY PostSteps, PassTyped DEF ForumsInv
<1> SUFFICES ASSUME NEW g \in Guilds
    PROVE  /\ pending'[g] \subseteq {e \in EntriesOf(pass'[g]) : seen'[g].text[e] # Missing}
           /\ \A t \in seen'[g].posts :
                posts'[t] # Missing /\ (t \in Live' => posts'[t].guild = g /\ posts'[t].entry \in EntriesOf(pass'[g]))
           /\ made'[g] # Missing =>
                /\ pass'[g] \in {"maps", "pools"} /\ posts'[made'[g]] # Missing
                /\ made'[g] \in Live' => /\ posts'[made'[g]].guild = g
                                         /\ posts'[made'[g]].entry \in EntriesOf(pass'[g]) \ pending'[g]
  BY DEF Passing, EntriesOf, Forum
<1> DEFINE Fit(t) == posts'[t] # Missing /\ (t \in Live' => posts'[t].guild = g /\ posts'[t].entry \in EntriesOf(pass'[g]))
<1>2. seen[g].posts \subseteq Threads /\ made[g] \in Threads \cup {Missing}
  BY <1>1 DEF PassTypes, PassRecords
<1>3. ASSUME pass'[g] = pass[g] 
      PROVE  /\ \A t \in seen[g].posts : Fit(t)
             /\ made[g] # Missing => Fit(made[g]) /\ (made[g] \in Live' => posts'[made[g]].entry \notin pending[g])
  BY <1>1, <1>2, <1>3 DEF Passing, Evolve
<1>4. CASE GoesOn(g)
  BY <1>1, <1>3, <1>4 DEF GoesOn, Passing
<1>5. CASE CreatePost(g)
  <2>1. pass'[g] = pass[g] /\ seen' = seen /\ pass[g] # "idle"
    BY <1>5 DEF CreatePost, Ready
  <2>2. PICK e \in pending[g], t \in Threads :
          /\ e \in Forum(pass[g]) /\ posts'[t] \in Posts /\ posts'[t].guild = g /\ posts'[t].entry = e
          /\ pending' = [pending EXCEPT ![g] = pending[g] \ {e}]
          /\ made' = [made EXCEPT ![g] = IF e \in FactionIds THEN Missing ELSE t]
    BY <1>5, CreatePosts
  <2>3. pending'[g] = pending[g] \ {e} /\ made'[g] = IF e \in FactionIds THEN Missing ELSE t
    BY <1>1, <2>2 DEF PassTypes
  <2>4. pass[g] = "factions" => e \in FactionIds
    BY <2>2 DEF Forum
  <2>5. pass[g] \in PassKinds /\ EntriesOf(pass[g]) = Forum(pass[g])
    BY <1>1, <2>1 DEF PassTypes, EntriesOf
  <2>6. posts'[t] # Missing
    BY <2>2, ForumsAssumption
  <2> QED BY <1>1, <1>3, <2>1, <2>2, <2>3, <2>4, <2>5, <2>6 DEF Passing, PassKinds
<1>6. CASE Over(g)
  BY <1>6, NothingRecords DEF Over
<1>7. CASE Starts(g)
  <2>1. PICK kind \in {"maps", "pools", "factions"} : Start(g, kind)
    BY <1>7 DEF Starts
  <2>2. EntriesOf(kind) = Forum(kind) /\ made[g] = Missing
    BY <1>1, <2>1 DEF EntriesOf, Start, Passing
  <2>3. \A t \in Visible(g) : t \in Live /\ posts[t] # Missing /\ posts[t].guild = g
    BY DEF Visible, Live
  <2>4. UNCHANGED <<posts, Live>>
    BY <2>1 DEF Start, Live
  <2>5. /\ pass'[g] = kind /\ pending'[g] = {e \in Forum(kind) : text[e] # Missing} /\ made'[g] = made[g]
        /\ seen'[g].text = text
        /\ seen'[g].posts = {t \in Visible(g) : posts[t].entry \in Forum(kind)}
    BY <2>1, StartReads
  <2> QED BY <2>2, <2>3, <2>4, <2>5
<1> QED BY <1>4, <1>5, <1>6, <1>7, PassSteps

-----------------------------------------------------------------------------
\* The posts of an entry in a guild, after a step that leaves them alone.
Rest(s) == \A t \in Threads \ {s} : /\ t \in Live' <=> t \in Live
                                    /\ t \in Live => posts'[t].guild = posts[t].guild /\ posts'[t].entry = posts[t].entry
LEMMA PostsOfRest ==
  ASSUME UNCHANGED hidden, NEW s, Rest(s), NEW g, NEW e
  PROVE  PostsOf(g, e)' \ {s} = PostsOf(g, e) \ {s}
BY DEF Rest, PostsOf, Visible, Live

SamePosts(g) == \A e \in PoolIds : PostsOf(g, e)' = PostsOf(g, e)
LEMMA SamePostsSteps ==
  ASSUME ForumsTypeOK, ForumsInv, NEW g \in Guilds
  PROVE  /\ UNCHANGED <<posts, hidden>> => SamePosts(g)
         /\ \A w \in Workers : Apply(w) => SamePosts(g)
         /\ \A h \in Guilds : CreatePost(h) /\ ~(h = g /\ pass[g] = "pools") => SamePosts(g)
         /\ \A h \in Guilds : Sweep(h) /\ ~(h = g /\ pass[g] = "pools") => SamePosts(g)
<1>1. UNCHANGED <<posts, hidden>> => SamePosts(g)
  BY DEF SamePosts, PostsOf, Visible, Live
<1>2. ASSUME NEW w \in Workers, Apply(w) PROVE SamePosts(g)
  <2>1. Live' = Live /\ \A t \in Live : posts'[t].guild = posts[t].guild /\ posts'[t].entry = posts[t].entry
    BY <1>2, ApplyPosts
  <2>2. UNCHANGED hidden
    BY <1>2 DEF Apply
  <2> QED BY <2>1, <2>2 DEF SamePosts, PostsOf, Visible
<1>3. ASSUME NEW h \in Guilds, CreatePost(h), ~(h = g /\ pass[g] = "pools") PROVE SamePosts(g)
  <2>1. PICK e \in pending[h], t \in Threads :
          /\ e \in Forum(pass[h]) /\ posts'[t].guild = h /\ posts'[t].entry = e /\ t \notin Live
          /\ \A s \in Threads \ {t} : posts'[s] = posts[s] /\ (s \in Live' <=> s \in Live)
    BY <1>3, CreatePosts
  <2>2. UNCHANGED hidden /\ pass[h] \in {"maps", "pools", "factions"}
    BY <1>3 DEF CreatePost, Ready, ForumsTypeOK
  <2>3. Rest(t)
    BY <2>1 DEF Rest
  <2>4. h # g \/ e \notin PoolIds
    BY <1>3, <2>1, <2>2, ForumsAssumption DEF Forum
  <2> SUFFICES ASSUME NEW p \in PoolIds PROVE PostsOf(g, p)' = PostsOf(g, p)
    BY DEF SamePosts
  <2>5. t \notin PostsOf(g, p)' /\ t \notin PostsOf(g, p)
    BY <2>1, <2>4 DEF PostsOf, Visible
  <2> QED BY <2>2, <2>3, <2>5, PostsOfRest
<1>4. ASSUME NEW h \in Guilds, Sweep(h), ~(h = g /\ pass[g] = "pools") PROVE SamePosts(g)
  <2>1. PICK s \in Orphans(h) : Vanishes(s) /\ (\A t \in Threads \ {s} : posts'[t] = posts[t])
    BY <1>4, GoneSteps
  <2>2. UNCHANGED hidden /\ pass[h] \in {"maps", "pools", "factions"}
    BY <1>4 DEF Sweep, Ready, ForumsTypeOK
  <2>3. s \in seen[h].posts
    BY <2>1 DEF Orphans, PoolOrphans, FactionOrphans, Titled
  <2>4. s \in Live => posts[s].guild = h /\ posts[s].entry \in Forum(pass[h])
    BY <2>2, <2>3 DEF ForumsInv, Passing, EntriesOf
  <2>5. s \in Live /\ h = g => posts[s].entry \notin PoolIds
    BY <1>4, <2>2, <2>4, ForumsAssumption DEF Forum
  <2>6. Rest(s)
    BY <2>1 DEF Rest, Live
  <2>7. \A t \in Live' : t \in Live /\ posts'[t] = posts[t]
    BY <2>1, EvolveGoes
  <2> SUFFICES ASSUME NEW p \in PoolIds PROVE PostsOf(g, p)' = PostsOf(g, p)
    BY DEF SamePosts
  <2>8. s \notin PostsOf(g, p)
    BY <2>4, <2>5 DEF PostsOf, Visible
  <2>9. s \notin PostsOf(g, p)'
    BY <2>2, <2>7, <2>8 DEF PostsOf, Visible
  <2> QED BY <2>2, <2>6, <2>8, <2>9, PostsOfRest
<1> QED BY <1>1, <1>2, <1>3, <1>4

\* Whether an entry is there.
SameStock == \A e \in PoolIds : (text'[e] = Missing) <=> (text[e] = Missing)

LEMMA CalmFrame ==
  ASSUME NEW g, CalmAt(g), SamePosts(g), SameStock, pass'[g] = pass[g], seen'[g] = seen[g], pending'[g] = pending[g],
         g \in apart' <=> g \in apart
  PROVE  CalmAt(g)'
<1>1. CASE pass[g] = "pools"
  <2>1. PassCalm(g)
    BY <1>1 DEF CalmAt
  <2>2. PassCalm(g)'
    BY <2>1 DEF PassCalm, SamePosts, SameStock, Unmet, PoolPost
  <2> QED BY <1>1, <2>2 DEF CalmAt
<1>2. CASE pass[g] # "pools"
  <2>1. OnePost(g)
    BY <1>2 DEF CalmAt
  <2>2. OnePost(g)'
    BY <2>1 DEF OnePost, SamePosts, SameStock
  <2> QED BY <1>2, <2>2 DEF CalmAt
<1> QED BY <1>1, <1>2

LEMMA OneFrame ==
  ASSUME NEW g, CalmAt(g), SamePosts(g), SameStock, pass[g] # "pools", pass'[g] # "pools", g \in apart' <=> g \in apart
  PROVE  CalmAt(g)'
<1>1. OnePost(g)
  BY DEF CalmAt
<1>2. OnePost(g)'
  BY <1>1 DEF OnePost, SamePosts, SameStock
<1> QED BY <1>2 DEF CalmAt

\* A pass over the pools begins.
LEMMA CalmStart ==
  ASSUME ForumsTypeOK, ForumsInv, NEW g \in Guilds, Start(g, "pools")
  PROVE  CalmAt(g)'
<1>1. /\ pass'[g] = "pools" /\ pending'[g] = {e \in PoolIds : text[e] # Missing}
      /\ seen'[g].text = text /\ seen'[g].posts = {t \in Visible(g) : posts[t].entry \in PoolIds}
  BY StartReads DEF Forum
<1>7. g \in apart' => seen'[g].twins = {}
  BY StartReads
<1>2. UNCHANGED <<text, posts, hidden>>
  BY DEF Start
<1>3. \A e : PostsOf(g, e)' = PostsOf(g, e)
  BY <1>2 DEF PostsOf, Visible, Live
<1>4. \A t \in seen'[g].posts : \E e \in PoolIds : t \in PostsOf(g, e)'
  BY <1>1, <1>3 DEF PostsOf
<1>5. \A e \in PoolIds : Unmet(g, e)' = {}
  <2>1. \A e \in PoolIds : PostsOf(g, e) \subseteq seen'[g].posts
    BY <1>1 DEF PostsOf
  <2> QED BY <1>3, <2>1 DEF Unmet
<1>6. PassCalm(g)'
  BY <1>1, <1>2, <1>4, <1>5, <1>7 DEF PassCalm
<1> QED BY <1>1, <1>6 DEF CalmAt

\* It finds the post of a pool, or creates one.
LEMMA CalmVisit ==
  ASSUME ForumsTypeOK, ForumsInv, NEW g \in Guilds, Visit(g), CalmAt(g), pass[g] = "pools"
  PROVE  CalmAt(g)'
<1>1. PassCalm(g) /\ PassTypes
  BY PassTyped DEF CalmAt
<1>2. UNCHANGED <<text, posts, hidden, pass, seen, apart>>
  BY DEF Visit
<1>3. PICK e \in pending[g] : pending' = [pending EXCEPT ![g] = pending[g] \ {e}] /\ Found(g, e) # {}
  BY DEF Visit
<1>4. e \in PoolIds /\ e \notin MapIds
  BY <1>3, FoundFacts, ForumsAssumption DEF Forum
<1>5. PoolPost(g, e) # {}
  BY <1>3, <1>4 DEF Found
<1>6. SamePosts(g) /\ pending'[g] = pending[g] \ {e}
  BY <1>1, <1>2, <1>3, SamePostsSteps DEF PassTypes
<1>7. PassCalm(g)'
  BY <1>1, <1>2, <1>5, <1>6 DEF PassCalm, SamePosts, Unmet, PoolPost
<1> QED BY <1>2, <1>7 DEF CalmAt

LEMMA CalmCreate ==
  ASSUME ForumsTypeOK, ForumsInv, NEW g \in Guilds, CreatePost(g), CalmAt(g), pass[g] = "pools"
  PROVE  CalmAt(g)'
<1>1. PassCalm(g) /\ PassTypes
  BY PassTyped DEF CalmAt
<1>2. UNCHANGED <<text, hidden, pass, seen, apart>>
  BY DEF CreatePost
<1>3. PICK e \in pending[g], t \in Threads :
        /\ e \in Forum(pass[g]) /\ Found(g, e) = {} /\ posts[t] = Missing
        /\ posts'[t] \in Posts /\ posts'[t].guild = g /\ posts'[t].entry = e /\ t \in Live' /\ t \notin Live
        /\ \A s \in Threads \ {t} : posts'[s] = posts[s] /\ (s \in Live' <=> s \in Live)
        /\ pending' = [pending EXCEPT ![g] = pending[g] \ {e}]
  BY CreatePosts
<1>4. e \in PoolIds /\ e \notin MapIds
  BY <1>3, ForumsAssumption DEF Forum
<1>5. PoolPost(g, e) = {} /\ text[e] # Missing
  BY <1>1, <1>3, <1>4 DEF Found, ForumsInv, Passing, PassCalm
<1>6. Rest(t) /\ t \notin hidden /\ pending'[g] = pending[g] \ {e}
  BY <1>1, <1>3 DEF Rest, PassTypes, ForumsInv, PostsHeld
<1>7. \A p \in PoolIds : PostsOf(g, p)' = IF p = e THEN PostsOf(g, p) \cup {t} ELSE PostsOf(g, p)
  <2> TAKE p \in PoolIds
  <2>1. PostsOf(g, p)' \ {t} = PostsOf(g, p) \ {t}
    BY <1>2, <1>6, PostsOfRest
  <2>2. t \notin PostsOf(g, p) /\ (t \in PostsOf(g, p)' <=> p = e)
    BY <1>2, <1>3, <1>6 DEF PostsOf, Visible
  <2> QED BY <2>1, <2>2
<1>8. t \notin seen[g].posts
  BY <1>1, <1>3 DEF PassCalm, PostsOf, Visible
<1>9. \A p \in PoolIds : Unmet(g, p)' = IF p = e THEN Unmet(g, p) \cup {t} ELSE Unmet(g, p)
  BY <1>2, <1>7, <1>8 DEF Unmet
<1>10. Unmet(g, e) = {}
  BY <1>1, <1>3, <1>4 DEF PassCalm
<1>11. \A p \in PoolIds : PoolPost(g, p)' = PoolPost(g, p)
  BY <1>2 DEF PoolPost
<1>12. \A s \in seen'[g].posts : \E p \in PoolIds : s \in PostsOf(g, p)'
  BY <1>1, <1>2, <1>7 DEF PassCalm
<1>13. ASSUME NEW p \in PoolIds
       PROVE  IF p \in pending'[g] \/ text'[p] = Missing \/ PoolPost(g, p)' # {} THEN Unmet(g, p)' = {}
              ELSE \E s \in Threads : Unmet(g, p)' = {s}
  <2>1. CASE p = e
    BY <1>2, <1>5, <1>6, <1>9, <1>10, <1>11, <2>1
  <2>2. CASE p # e
    BY <1>1, <1>2, <1>6, <1>9, <1>11, <2>2 DEF PassCalm
  <2> QED BY <2>1, <2>2
<1>14. PassCalm(g)'
  BY <1>1, <1>2, <1>12, <1>13 DEF PassCalm
<1> QED BY <1>2, <1>14 DEF CalmAt

\* It deletes the posts it saw that belong to no pool it saw.
LEMMA CalmSweep ==
  ASSUME ForumsTypeOK, ForumsInv, NEW g \in Guilds, Sweep(g), CalmAt(g), pass[g] = "pools", g \in calm'
  PROVE  CalmAt(g)'
<1>1. PassCalm(g) /\ PassTypes
  BY PassTyped DEF CalmAt
<1>2. UNCHANGED <<text, hidden, pass, pending, apart>>
  BY DEF Sweep
<1>3. PICK t \in Orphans(g) : /\ seen' = [seen EXCEPT ![g].posts = @ \ {t}]
                              /\ posts' = [posts EXCEPT ![t] = Gone]
  BY DEF Sweep
<1>4. t \in seen[g].posts /\ t \notin Linked(g)
  BY <1>3 DEF Orphans, PoolOrphans, Titled
<1> DEFINE r == [seen[g] EXCEPT !.posts = seen[g].posts \ {t}]
<1>5. r.text = seen[g].text /\ r.link = seen[g].link /\ r.posts = seen[g].posts \ {t} /\ r.twins = seen[g].twins
  <2>1. seen[g] \in PassRecords
    BY <1>1 DEF PassTypes
  <2> QED BY <2>1 DEF PassRecords
<1>6. seen'[g] = r
  BY <1>1, <1>3 DEF PassTypes
<1> HIDE DEF r
<1>7. posts \in [Threads -> Posts \cup {Missing, Gone}] /\ t \in Threads
  BY <1>1, <1>4 DEF ForumsTypeOK, PassTypes, PassRecords
<1>8. Rest(t) /\ t \notin Live'
  BY <1>3, <1>7 DEF Rest, Live
<1>9. \A p \in PoolIds : PostsOf(g, p)' = PostsOf(g, p) \ {t}
  <2> TAKE p \in PoolIds
  <2>1. PostsOf(g, p)' \ {t} = PostsOf(g, p) \ {t}
    BY <1>2, <1>8, PostsOfRest
  <2>2. t \notin PostsOf(g, p)'
    BY <1>8 DEF PostsOf, Visible
  <2> QED BY <2>1, <2>2
<1>10. \A p \in PoolIds : Unmet(g, p)' = Unmet(g, p)
  BY <1>4, <1>5, <1>6, <1>9 DEF Unmet
<1>11. \A p \in PoolIds : text[p] # Missing => PoolPost(g, p)' = PoolPost(g, p)
  <2> SUFFICES ASSUME NEW p \in PoolIds, text[p] # Missing PROVE PoolPost(g, p)' = PoolPost(g, p)
    OBVIOUS
  <2>1. seen[g].text[p] # Missing
    BY <1>1 DEF PassCalm
  <2>2. t # seen[g].link[p]
    BY <1>4, <2>1 DEF Linked
  <2> QED BY <1>5, <1>6, <2>2 DEF PoolPost
<1>12. \A s \in seen'[g].posts : \E p \in PoolIds : s \in PostsOf(g, p)'
  BY <1>1, <1>5, <1>6, <1>9 DEF PassCalm
<1>13. PassCalm(g)'
  BY <1>1, <1>2, <1>5, <1>6, <1>10, <1>11, <1>12 DEF PassCalm
<1> QED BY <1>2, <1>13 DEF CalmAt

\* What is left when it ends.
LEMMA CalmFinish ==
  ASSUME ForumsTypeOK, ForumsInv, NEW g \in Guilds, Finish(g), CalmAt(g), pass[g] = "pools"
  PROVE  CalmAt(g)'
<1>1. PassCalm(g) /\ PassTypes
  BY PassTyped DEF CalmAt
<1>2. pass'[g] # "pools" /\ UNCHANGED <<text, posts, hidden, apart>> /\ pending[g] = {} /\ Orphans(g) = {}
  BY <1>1 DEF Finish, Ended, PassTypes
<1>3. g \in apart => \A t \in seen[g].posts : t \in Linked(g)
  BY <1>1, <1>2 DEF Orphans, PoolOrphans, Titled, PassCalm
<1>4. \A t \in seen[g].posts : \E p \in PoolIds : t \in PostsOf(g, p)
  BY <1>1 DEF PassCalm
<1>5. ASSUME NEW e \in PoolIds, NEW t \in PostsOf(g, e), t \in seen[g].posts, g \in apart PROVE t = seen[g].link[e] /\ seen[g].text[e] # Missing
  <2>1. PICK p \in PoolIds : t = seen[g].link[p] /\ seen[g].text[p] # Missing
    BY <1>3, <1>5 DEF Linked
  <2>2. t \in Live /\ posts[t].entry = e /\ t # Missing
    BY <1>5, LiveFacts, ForumsAssumption DEF PostsOf, Visible
  <2>3. HoldsPost(seen[g].link[p], p)
    BY DEF ForumsInv, PostsHeld, Entries
  <2> QED BY <2>1, <2>2, <2>3 DEF HoldsPost
<1>6. ASSUME NEW e \in PoolIds
      PROVE  /\ text[e] # Missing => PostsOf(g, e) # {}
             /\ g \in apart => IF text[e] = Missing THEN PostsOf(g, e) = {} ELSE \E t \in Threads : PostsOf(g, e) = {t}
  <2>1. (seen[g].text[e] = Missing) <=> (text[e] = Missing)
    BY <1>1 DEF PassCalm
  <2>2. Unmet(g, e) \subseteq PostsOf(g, e) /\ PostsOf(g, e) \ Unmet(g, e) \subseteq seen[g].posts /\ PostsOf(g, e) \subseteq Threads
    BY DEF Unmet, PostsOf, Visible, Live
  <2>3. CASE text[e] = Missing
    <3>1. Unmet(g, e) = {}
      BY <1>1, <2>3 DEF PassCalm
    <3> QED BY <1>5, <2>1, <2>2, <2>3, <3>1
  <2>4. CASE text[e] # Missing /\ PoolPost(g, e) = {}
    <3>1. PICK t \in Threads : Unmet(g, e) = {t}
      BY <1>1, <1>2, <2>4 DEF PassCalm
    <3>2. g \in apart => \A s \in PostsOf(g, e) : s \notin seen[g].posts
      BY <1>5, <2>4 DEF PoolPost
    <3> QED BY <2>2, <2>4, <3>1, <3>2
  <2>5. CASE text[e] # Missing /\ PoolPost(g, e) # {}
    <3>1. Unmet(g, e) = {}
      BY <1>1, <2>5 DEF PassCalm
    <3> DEFINE t == seen[g].link[e]
    <3>2. t \in seen[g].posts
      BY <2>5 DEF PoolPost
    <3>3. PICK p \in PoolIds : t \in PostsOf(g, p)
      BY <1>4, <3>2
    <3>4. t \in Live /\ posts[t].entry = p /\ t # Missing
      BY <3>3, LiveFacts, ForumsAssumption DEF PostsOf, Visible
    <3>5. HoldsPost(t, e)
      BY DEF ForumsInv, PostsHeld, Entries
    <3>6. t \in PostsOf(g, e)
      BY <3>3, <3>4, <3>5 DEF HoldsPost
    <3>7. g \in apart => PostsOf(g, e) = {t}
      BY <1>5, <2>2, <3>1, <3>6
    <3> QED BY <2>2, <2>5, <3>6, <3>7
  <2> QED BY <2>3, <2>4, <2>5
<1>7. SamePosts(g)
  BY <1>2, SamePostsSteps
<1>8. OnePost(g)'
  BY <1>2, <1>6, <1>7 DEF OnePost, SamePosts
<1> QED BY <1>2, <1>8 DEF CalmAt

LEMMA CalmStep ==
  ASSUME ForumsTypeOK, ForumsInv, ForumsNext
  PROVE  Calm'
<1> SUFFICES ASSUME NEW g \in calm' PROVE CalmAt(g)'
  BY DEF Calm
<1>0. g \in Guilds /\ PassTypes /\ pass[g] \in PassKinds
  BY TypeStep, PassTyped DEF ForumsTypeOK, PassTypes
<1>1. ASSUME g \in calm PROVE CalmAt(g)
  BY <1>1 DEF ForumsInv, Calm
<1>2. ASSUME NEW h \in Guilds, NEW kind \in {"maps", "pools", "factions"}, Start(h, kind) PROVE CalmAt(g)'
  <2>1. UNCHANGED text /\ pass[h] = "idle" /\ SamePosts(g)
    BY <1>0, <1>2, SamePostsSteps DEF Start
  <2>2. CASE h = g /\ kind = "pools"
    BY <1>0, <1>2, <2>2, CalmStart
  <2>3. CASE h = g /\ kind # "pools"
    <3>1. g \in calm /\ pass'[g] # "pools" /\ UNCHANGED apart
      BY <1>0, <1>2, <2>3 DEF Start, PassTypes
    <3> QED BY <1>1, <2>1, <2>3, <3>1, OneFrame DEF SameStock
  <2>4. CASE h # g
    <3>1. g \in calm /\ pass'[g] = pass[g] /\ seen'[g] = seen[g] /\ pending'[g] = pending[g]
      BY <1>0, <1>2, <2>4 DEF Start, PassTypes
    <3>2. g \in apart' <=> g \in apart
      BY <1>0, <1>2, <2>4, StartReads
    <3> QED BY <1>1, <2>1, <3>1, <3>2, CalmFrame DEF SameStock
  <2> QED BY <2>2, <2>3, <2>4
<1>3. ASSUME NEW h \in Guilds, Visit(h) \/ CreatePost(h) \/ Sweep(h) \/ Finish(h) PROVE CalmAt(g)'
  <2>1. UNCHANGED <<text, apart>> /\ g \in calm
    BY <1>3 DEF Visit, CreatePost, Sweep, Finish
  <2>2. CASE h = g /\ pass[g] = "pools"
    BY <1>0, <1>1, <1>3, <2>1, <2>2, CalmVisit, CalmCreate, CalmSweep, CalmFinish
  <2>3. CASE ~(h = g /\ pass[g] = "pools")
    <3>1. SamePosts(g)
      BY <1>0, <1>3, <2>3, SamePostsSteps DEF Visit, Finish
    <3>2. CASE h = g
      <4>1. pass'[g] # "pools"
        BY <1>0, <1>3, <2>3, <3>2 DEF Visit, CreatePost, Sweep, Finish, Ended, PassTypes
      <4> QED BY <1>1, <2>1, <2>3, <3>1, <3>2, <4>1, OneFrame DEF SameStock
    <3>3. CASE h # g
      <4>1. pass'[g] = pass[g] /\ seen'[g] = seen[g] /\ pending'[g] = pending[g]
        <5>1. CASE Visit(h)
          BY <1>0, <3>3, <5>1 DEF Visit, PassTypes
        <5>2. CASE CreatePost(h)
          BY <1>0, <3>3, <5>2 DEF CreatePost, PassTypes
        <5>3. CASE Sweep(h)
          BY <1>0, <3>3, <5>3 DEF Sweep, PassTypes
        <5>4. CASE Finish(h)
          BY <1>0, <3>3, <5>4 DEF Finish, Ended, PassTypes
        <5> QED BY <1>3, <5>1, <5>2, <5>3, <5>4
      <4> QED BY <1>1, <2>1, <3>1, <4>1, CalmFrame DEF SameStock
    <3> QED BY <3>2, <3>3
  <2> QED BY <2>2, <2>3
<1>4. ASSUME UNCHANGED <<text, posts, hidden, pass, seen, pending, calm, apart>> PROVE CalmAt(g)'
  <2>1. SamePosts(g)
    BY <1>0, <1>4, SamePostsSteps
  <2> QED BY <1>1, <1>4, <2>1, CalmFrame DEF SameStock
<1>5. ASSUME NEW h \in Guilds, Unrecorded(h) \/ Abort(h) PROVE CalmAt(g)'
  <2>1. g \in calm /\ g # h /\ UNCHANGED <<text, posts, hidden, apart>>
    BY <1>5 DEF Unrecorded, Abort
  <2>2. pass'[g] = pass[g] /\ seen'[g] = seen[g] /\ pending'[g] = pending[g]
    BY <1>0, <1>5, <2>1 DEF Unrecorded, Abort, Ended, PassTypes
  <2>3. SamePosts(g)
    BY <1>0, <2>1, SamePostsSteps
  <2> QED BY <1>1, <2>1, <2>2, <2>3, CalmFrame DEF SameStock
<1>6. ASSUME NEW w \in Workers, Apply(w) PROVE CalmAt(g)'
  <2>1. SamePosts(g) /\ UNCHANGED <<text, pass, seen, pending, calm, apart>>
    BY <1>0, <1>6, SamePostsSteps DEF Apply
  <2> QED BY <1>1, <2>1, CalmFrame DEF SameStock
<1>7. ASSUME NEW e \in Entries, Change(e) PROVE CalmAt(g)'
  <2>1. text[e] # Missing /\ text' = [text EXCEPT ![e] = @ + 1] /\ UNCHANGED calm
    BY <1>7 DEF Change
  <2>2. text \in [Entries -> Nat \cup {Missing}]
    BY DEF ForumsTypeOK
  <2>3. text[e] + 1 \in Nat /\ text[e] + 1 # Missing
    BY <2>1, <2>2, ForumsAssumption
  <2>4. SameStock
    BY <2>1, <2>2, <2>3 DEF SameStock, Entries
  <2>5. UNCHANGED <<posts, hidden, pass, seen, pending, apart>>
    BY <1>7 DEF Change, bot
  <2>6. SamePosts(g)
    BY <1>0, <2>5, SamePostsSteps
  <2> QED BY <1>1, <2>1, <2>4, <2>5, <2>6, CalmFrame
<1>8. /\ \A h \in Guilds : Record(h) => UNCHANGED <<text, posts, hidden, pass, seen, pending, calm, apart>>
      /\ \A w \in Tasks : (\A e \in MapIds : RefreshMap(w, e) => UNCHANGED <<text, posts, hidden, pass, seen, pending, calm, apart>>)
                          /\ \A e \in PoolIds : RefreshPool(w, e) => UNCHANGED <<text, posts, hidden, pass, seen, pending, calm, apart>>
      /\ \A w \in Workers : EditFails(w) => UNCHANGED <<text, posts, hidden, pass, seen, pending, calm, apart>>
      /\ \A t \in Threads : BackoffEnds(t) => UNCHANGED <<text, posts, hidden, pass, seen, pending, calm, apart>>
      /\ ForgetRenders => UNCHANGED <<text, posts, hidden, pass, seen, pending, calm, apart>>
  BY DEF Record, RefreshMap, RefreshPool, EditFails, BackoffEnds, ForgetRenders
<1>9. /\ \A t \in Threads : ~Disappear(t)
      /\ \A e \in Entries : ~LoseLink(e)
      /\ \A e \in PoolIds : ~DeletePool(e)
      /\ ~BotRestarts
  BY DEF Disappear, LoseLink, DeletePool, BotRestarts
<1> QED BY <1>2, <1>3, <1>4, <1>5, <1>6, <1>7, <1>8, <1>9 DEF ForumsNext

-----------------------------------------------------------------------------
\* The posts of a map in the only guild.
LEMMA FewerSteps ==
  ASSUME ForumsTypeOK, ForumsInv, ForumsNext, \A h \in Guilds : ~CreatePost(h), NEW g, NEW e
  PROVE  PostsOf(g, e)' \subseteq PostsOf(g, e)
<1>1. \A t \in Live' : posts[t] # Missing
  <2>1. ASSUME NEW s, Vanishes(s) PROVE Live' \subseteq Live
    BY <2>1, EvolveGoes
  <2>2. \A w \in Workers : Apply(w) => Live' \subseteq Live
    BY ApplyPosts
  <2>3. UNCHANGED posts => Live' \subseteq Live
    BY DEF Live
  <2>4. Live' \subseteq Live
    BY <2>1, <2>2, <2>3, GoneSteps, Frames
  <2> QED BY <2>4 DEF Live
<1>2. \A t \in Live' : t \in Live /\ posts'[t].guild = posts[t].guild /\ posts'[t].entry = posts[t].entry
  BY <1>1, PostSteps DEF Evolve, Live
<1>3. hidden \subseteq hidden'
  BY Frames DEF Disappear
<1> QED BY <1>2, <1>3 DEF PostsOf, Visible

LEMMA SingleFrame ==
  ASSUME ForumsTypeOK, ForumsInv, ForumsNext, \A h \in Guilds : ~CreatePost(h), NEW g \in Guilds, NEW e \in MapIds,
         MapAlone(g, e), link'[e] = link[e],
         \/ made'[g] = made[g]
         \/ made'[g] = Missing /\ ~(made[g] \in Live /\ posts[made[g]].entry = e),
         pass'[g] = "maps" /\ e \in pending'[g] => pass[g] = "maps" /\ e \in pending[g] /\ seen'[g].link = seen[g].link
  PROVE  MapAlone(g, e)'
<1>1. PostsOf(g, e)' \subseteq PostsOf(g, e)
  BY FewerSteps
<1>2. pass'[g] = "maps" /\ e \in pending'[g] => seen'[g].link[e] = link'[e]
  BY DEF MapAlone
<1>3. Missing \notin Live /\ Missing \notin Live' /\ PostsOf(g, e)' \subseteq Live'
  BY ForumsAssumption DEF Live, PostsOf, Visible
<1>4. made[g] \in Live' => made[g] \in Live /\ posts'[made[g]].entry = posts[made[g]].entry
  <2>1. made[g] # Missing => made[g] \in Threads /\ posts[made[g]] # Missing
    BY DEF ForumsTypeOK, ForumsInv, Passing
  <2> QED BY <1>3, <2>1, PostSteps DEF Evolve
<1>5. CASE made[g] \in Live /\ posts[made[g]].entry = e
  <2>1. made'[g] = made[g] /\ PostsOf(g, e)' \subseteq {made[g]}
    BY <1>1, <1>5 DEF MapAlone
  <2>2. CASE made[g] \in Live'
    BY <1>2, <1>4, <1>5, <2>1, <2>2 DEF MapAlone
  <2>3. CASE made[g] \notin Live'
    BY <1>2, <1>3, <2>1, <2>3 DEF MapAlone
  <2> QED BY <2>2, <2>3
<1>6. CASE ~(made[g] \in Live /\ posts[made[g]].entry = e)
  <2>1. PostsOf(g, e)' \subseteq {link'[e]}
    BY <1>1, <1>6 DEF MapAlone
  <2>2. ~(made'[g] \in Live' /\ posts'[made'[g]].entry = e)
    BY <1>3, <1>4, <1>6
  <2> QED BY <1>2, <2>1, <2>2 DEF MapAlone
<1> QED BY <1>5, <1>6

LEMMA SingleCreate ==
  ASSUME ForumsTypeOK, ForumsInv, NEW g \in Guilds, CreatePost(g), NEW e \in MapIds, MapAlone(g, e)
  PROVE  MapAlone(g, e)'
<1>1. PassTypes /\ pass[g] \in PassKinds
  BY PassTyped DEF PassTypes
<1>2. UNCHANGED <<text, link, hidden, pass, seen>> /\ made[g] = Missing
  BY DEF CreatePost, Ready
<1>3. PICK p \in pending[g], t \in Threads :
        /\ p \in Forum(pass[g]) /\ Found(g, p) = {} /\ posts[t] = Missing
        /\ posts'[t] \in Posts /\ posts'[t].guild = g /\ posts'[t].entry = p /\ t \in Live' /\ t \notin Live
        /\ \A s \in Threads \ {t} : posts'[s] = posts[s] /\ (s \in Live' <=> s \in Live)
        /\ pending' = [pending EXCEPT ![g] = pending[g] \ {p}]
        /\ made' = [made EXCEPT ![g] = IF p \in FactionIds THEN Missing ELSE t]
  BY CreatePosts
<1>4. Rest(t) /\ t \notin hidden /\ pending'[g] = pending[g] \ {p} /\ made'[g] = IF p \in FactionIds THEN Missing ELSE t
  BY <1>1, <1>3 DEF Rest, PassTypes, ForumsInv, PostsHeld
<1>5. PostsOf(g, e)' \ {t} = PostsOf(g, e) /\ (t \in PostsOf(g, e)' <=> p = e)
  <2>1. PostsOf(g, e)' \ {t} = PostsOf(g, e) \ {t}
    BY <1>2, <1>4, PostsOfRest
  <2> QED BY <1>2, <1>3, <1>4, <2>1 DEF PostsOf, Visible
<1>6. pass'[g] = "maps" /\ e \in pending'[g] => seen'[g].link[e] = link'[e]
  BY <1>2, <1>4 DEF MapAlone
<1>7. Missing \notin Live /\ Missing \notin Live' /\ PostsOf(g, e) \subseteq {link[e]}
  BY <1>2, ForumsAssumption DEF Live, MapAlone
<1>8. CASE p = e
  <2>1. pass[g] = "maps" /\ e \notin FactionIds
    BY <1>1, <1>3, <1>8, ForumsAssumption DEF PassKinds, Forum, CreatePost, Ready
  <2>2. seen[g].link[e] = link[e] /\ MapPost(g, e) = {}
    BY <1>3, <1>8, <2>1, ForumsAssumption DEF MapAlone, Found
  <2>3. PostsOf(g, e) = {}
    BY <1>7, <2>2 DEF MapPost, PostsOf
  <2>4. PostsOf(g, e)' \subseteq {t} /\ made'[g] = t
    BY <1>4, <1>5, <1>8, <2>1, <2>3
  <2> QED BY <1>3, <1>6, <1>8, <2>4 DEF MapAlone
<1>9. CASE p # e
  <2>1. PostsOf(g, e)' \subseteq {link'[e]}
    BY <1>2, <1>5, <1>7, <1>9
  <2>2. ~(made'[g] \in Live' /\ posts'[made'[g]].entry = e)
    BY <1>3, <1>4, <1>7, <1>9
  <2> QED BY <1>6, <2>1, <2>2 DEF MapAlone
<1> QED BY <1>8, <1>9

LEMMA SingleStep ==
  ASSUME ForumsTypeOK, ForumsInv, ForumsNext
  PROVE  Single'
<1> SUFFICES ASSUME OneGuild', NEW g \in Guilds, NEW e \in MapIds PROVE MapAlone(g, e)'
  BY DEF Single, MapAlone
<1>0. PassTypes /\ link \in [Entries -> Threads \cup {Missing}] /\ e \in Entries
  BY PassTyped DEF ForumsTypeOK, Entries
<1>1. ~strayed' /\ \A h \in Guilds : h = g
  BY DEF OneGuild
<1>2. ~strayed
  BY <1>1, Frames DEF Unrecorded, LoseLink, BotRestarts
<1>3. MapAlone(g, e)
  BY <1>1, <1>2 DEF ForumsInv, Single, OneGuild
<1>4. CASE \E h \in Guilds : CreatePost(h)
  BY <1>1, <1>3, <1>4, SingleCreate
<1>5. CASE \A h \in Guilds : ~CreatePost(h)
  <2> DEFINE Same == link'[e] = link[e]
             Kept == \/ made'[g] = made[g]
                     \/ made'[g] = Missing /\ ~(made[g] \in Live /\ posts[made[g]].entry = e)
             Less == pass'[g] = "maps" /\ e \in pending'[g] => pass[g] = "maps" /\ e \in pending[g] /\ seen'[g].link = seen[g].link
  <2>1. ASSUME Same, Kept, Less PROVE MapAlone(g, e)'
    BY <1>3, <1>5, <2>1, SingleFrame
  <2>2. made[g] # Missing /\ pass[g] = "pools" => ~(made[g] \in Live /\ posts[made[g]].entry = e)
    BY ForumsAssumption DEF ForumsInv, Passing, EntriesOf, Forum
  <2>3. CASE Start(g, "maps")
    <3>1. seen'[g].link = link /\ made'[g] = made[g] /\ UNCHANGED <<link, posts, hidden>>
      BY <2>3, StartReads DEF Start
    <3>2. PostsOf(g, e)' = PostsOf(g, e) /\ Live' = Live
      BY <3>1 DEF PostsOf, Visible, Live
    <3> QED BY <1>3, <3>1, <3>2 DEF MapAlone
  <2>4. CASE Record(g)
    <3>1. /\ made[g] \in Live /\ made[g] # Missing /\ UNCHANGED <<posts, hidden, pass, pending, seen>>
          /\ link' = [link EXCEPT ![posts[made[g]].entry] = made[g]] /\ made'[g] = Missing
      BY <1>0, <2>4, ForumsAssumption DEF Record, Recordable, Recorded, PassTypes, Live
    <3>2. posts[made[g]].entry \notin pending[g]
      BY <3>1 DEF ForumsInv, Passing
    <3>3. CASE posts[made[g]].entry = e
      <4>1. link'[e] = made[g] /\ PostsOf(g, e) \subseteq {made[g]}
        BY <1>0, <1>3, <3>1, <3>3 DEF MapAlone
      <4>2. PostsOf(g, e)' = PostsOf(g, e) /\ Missing \notin Live'
        BY <3>1, ForumsAssumption DEF PostsOf, Visible, Live
      <4> QED BY <3>1, <3>2, <3>3, <4>1, <4>2 DEF MapAlone
    <3>4. CASE posts[made[g]].entry # e
      BY <1>0, <2>1, <3>1, <3>4
    <3> QED BY <3>3, <3>4
  <2>5. CASE ~Start(g, "maps") /\ ~Record(g)
    <3>1. Same
      <4>1. \A p \in Entries : Change(p) => link'[e] = link[e]
        BY <1>0, ForumsAssumption DEF Change
      <4>2. \A p \in PoolIds : DeletePool(p) => link'[e] = link[e]
        BY <1>0, ForumsAssumption DEF DeletePool
      <4>3. \A p \in Entries : LoseLink(p) => link'[e] = link[e]
        BY <1>0, <1>1 DEF LoseLink
      <4> QED BY <1>1, <2>5, <4>1, <4>2, <4>3, Frames
    <3>2. Kept
      <4>1. Unrecorded(g) => Kept
        BY <1>0, <1>1, <2>2 DEF Unrecorded, PassTypes
      <4>2. Abort(g) \/ Finish(g) => Kept
        BY <1>0 DEF Abort, Finish, Ready, Ended, PassTypes
      <4>3. BotRestarts => Kept
        <5>1. made[g] # Missing => pass[g] \in {"maps", "pools"}
          BY DEF ForumsInv, Passing
        <5> QED BY <1>0, <1>1, <2>2, <5>1 DEF BotRestarts, PassTypes
      <4>4. UNCHANGED made => Kept
        OBVIOUS
      <4> HIDE DEF Kept
      <4> QED BY <1>1, <1>5, <2>5, <4>1, <4>2, <4>3, <4>4, Frames
    <3>3. Less
      <4>1. GoesOn(g) => Less
        BY DEF GoesOn
      <4>2. Over(g) => Less
        BY DEF Over
      <4>3. Starts(g) => Less
        <5>1. \A kind \in {"maps", "pools", "factions"} : Start(g, kind) => pass'[g] = kind
          BY StartReads
        <5> QED BY <2>5, <5>1 DEF Starts
      <4> QED BY <1>5, <4>1, <4>2, <4>3, PassSteps
    <3> QED BY <2>1, <3>1, <3>2, <3>3
  <2> QED BY <2>3, <2>4, <2>5
<1> QED BY <1>4, <1>5

-----------------------------------------------------------------------------
LEMMA ForumsStart ==
  ASSUME ForumsInit
  PROVE  ForumsTypeOK /\ ForumsInv
<1>1. Live = {} /\ Guilds \subseteq Workers
  BY DEF ForumsInit, Live, Workers
<1>2. ForumsTypeOK
  <2>1. edit \in [Workers -> EditRecords]
    BY NothingRecords DEF ForumsInit
  <2>2. seen \in [Guilds -> PassRecords]
    BY NothingRecords DEF ForumsInit
  <2>3. pass \in [Guilds -> PassKinds]
    BY DEF ForumsInit, PassKinds
  <2>4. posts \in [Threads -> Posts \cup {Missing, Gone}] /\ remembered \in [Threads -> Nat \cup {Missing}]
        /\ text \in [Entries -> Nat \cup {Missing}] /\ link \in [Entries -> Threads \cup {Missing}]
    BY DEF ForumsInit
  <2>5. pending \in [Guilds -> SUBSET Entries] /\ made \in [Guilds -> Threads \cup {Missing}]
    BY DEF ForumsInit
  <2>6. hidden \subseteq Threads /\ backoff \subseteq Threads /\ calm \subseteq Guilds /\ apart \subseteq Guilds
    BY DEF ForumsInit
  <2>7. strayed \in BOOLEAN
    BY DEF ForumsInit
  <2>8. passes = 0 /\ revisions = 0 /\ failures = 0
    BY DEF ForumsInit
  <2>9. {passes, revisions, failures} \subseteq Nat
    BY <2>8
  <2> QED BY ONLY <2>1, <2>2, <2>3, <2>4, <2>5, <2>6, <2>7, <2>9 DEF ForumsTypeOK, EditRecords, PassRecords, PassKinds
<1>3. PostsHeld
  BY NothingRecords, ForumsAssumption DEF ForumsInit, PostsHeld, HoldsPost, Entries
<1>4. Passing
  BY <1>1, NothingRecords DEF ForumsInit, Passing
<1>5. \A g, e : PostsOf(g, e) = {}
  BY <1>1 DEF PostsOf, Visible
<1>6. Single
  BY <1>1, <1>5 DEF ForumsInit, Single, MapAlone
<1> QED BY <1>1, <1>2, <1>3, <1>4, <1>6 DEF ForumsInv, ForumsInit, Remembering, Calm

LEMMA ForumsStep ==
  ASSUME ForumsTypeOK, ForumsInv, [ForumsNext]_forumsVars
  PROVE  ForumsTypeOK' /\ ForumsInv'
<1>1. CASE ForumsNext
  BY <1>1, TypeStep, HeldStep, PassingStep, RememberingStep, CalmStep, SingleStep DEF ForumsInv
<1>2. CASE UNCHANGED forumsVars
  <2>1. UNCHANGED <<text, link, posts, hidden, remembered, backoff, pass, pending, seen, made, edit, calm, apart, strayed,
                    passes, revisions, failures>>
    BY <1>2 DEF forumsVars, bot
  <2>2. ForumsTypeOK'
    BY <2>1 DEF ForumsTypeOK
  <2>3. Live' = Live /\ (\A g : Visible(g)' = Visible(g)) /\ (\A g, e : PostsOf(g, e)' = PostsOf(g, e))
    BY <2>1 DEF Live, Visible, PostsOf
  <2>4. (\A g, e : Unmet(g, e)' = Unmet(g, e)) /\ (\A g, e : PoolPost(g, e)' = PoolPost(g, e))
    BY <2>1, <2>3 DEF Unmet, PoolPost
  <2>5. PostsHeld' /\ Passing' /\ Remembering'
    BY <2>1, <2>3 DEF ForumsInv, PostsHeld, HoldsPost, Passing, Remembering
  <2>6. Calm'
    BY <2>1, <2>3, <2>4 DEF ForumsInv, Calm, CalmAt, PassCalm, OnePost
  <2>7. Single'
    BY <2>1, <2>3 DEF ForumsInv, Single, OneGuild, MapAlone
  <2> QED BY <2>2, <2>5, <2>6, <2>7 DEF ForumsInv
<1> QED BY <1>1, <1>2

\* What a pass, an edit and an administrator hold of the forums is always what
\* ForumsInv says.
THEOREM ForumsTypeCorrect == ForumsSpec => [](ForumsTypeOK /\ ForumsInv)
<1>1. ForumsInit => ForumsTypeOK /\ ForumsInv
  BY ForumsStart
<1>2. ForumsTypeOK /\ ForumsInv /\ [ForumsNext]_forumsVars => (ForumsTypeOK /\ ForumsInv)'
  BY ForumsStep
<1> QED BY <1>1, <1>2, PTL DEF ForumsSpec

LEMMA Mirrored ==
  ASSUME ForumsTypeOK, ForumsInv
  PROVE  PoolsMirrored
<1>1. ASSUME NEW g \in calm, pass[g] # "pools", NEW e \in PoolIds
      PROVE  /\ text[e] # Missing => PostsOf(g, e) # {}
             /\ g \in apart => Cardinality(PostsOf(g, e)) = IF text[e] = Missing THEN 0 ELSE 1
  <2>1. /\ text[e] # Missing => PostsOf(g, e) # {}
        /\ g \in apart => IF text[e] = Missing THEN PostsOf(g, e) = {} ELSE \E t \in Threads : PostsOf(g, e) = {t}
    BY <1>1 DEF ForumsInv, Calm, CalmAt, OnePost
  <2> QED BY <2>1, FS_EmptySet, FS_Singleton
<1>2. ASSUME \A g, h \in Guilds : g = h, ~strayed, NEW g \in Guilds, NEW e \in MapIds
      PROVE  Cardinality(PostsOf(g, e)) <= 1
  <2>1. \E t : PostsOf(g, e) \subseteq {t}
    BY <1>2 DEF ForumsInv, Single, OneGuild, MapAlone
  <2>2. PostsOf(g, e) = {} \/ \E t : PostsOf(g, e) = {t}
    BY <2>1
  <2>3. Cardinality({}) = 0 /\ \A t : Cardinality({t}) = 1
    BY FS_EmptySet, FS_Singleton
  <2>4. Cardinality(PostsOf(g, e)) \in {0, 1}
    BY <2>2, <2>3
  <2> QED BY <2>4
<1> QED BY <1>1, <1>2 DEF PoolsMirrored, ForumsInv, Remembering

\* However passes, refreshes, changes of the catalogue and failures interleave,
\* an undisturbed pass over the pools of a guild leaves every pool a post, and
\* exactly one, with none of a pool that is gone, if it found no two of one title.
THEOREM PoolsAlwaysMirrored == ForumsSpec => []PoolsMirrored
<1>1. ForumsTypeOK /\ ForumsInv => PoolsMirrored
  BY Mirrored
<1> QED BY <1>1, ForumsTypeCorrect, PTL
=============================================================================
