--------------------------- MODULE ContentRefresh ---------------------------
(***************************************************************************)
(* The refresh of the Age of Empires II catalogue: at each boot for each   *)
(* guild, and on a click of an operator, with nothing to exclude two of    *)
(* them.  It first gives the entities of older versions their new          *)
(* identifiers, document by document and reference by reference, then      *)
(* creates the factions the data set knows and stores their texts.  Every  *)
(* step is one awaited call to MongoDB; there is no transaction.  A name   *)
(* ending in _bug is a mutated form.                                       *)
(***************************************************************************)
EXTENDS Naturals

CONSTANTS
  Factions, LegacyMaps, NoDraft,
  Refreshers,                              \* the refreshes that may be under way
  MaxRefreshes, MaxFaults, MaxChanges  \* bounds: refreshes, faults, edits of the pool

Entities == Factions \cup LegacyMaps

\* An entity has the identifier of an older version, or the current one.
Old(S) == {<<e, "old">> : e \in S}
New(S) == {<<e, "new">> : e \in S}
Ids == Old(Entities) \cup New(Entities)

ASSUME ContentRefreshAssumption ==
  Factions \cap LegacyMaps = {} /\ {MaxRefreshes, MaxFaults, MaxChanges} \subseteq Nat

VARIABLES
  present,  \* the documents, by identifier
  refs,     \* the maps a pool references
  texts,    \* the entities with a text, by identifier
  draft,    \* what an administrator is about to save of that pool
  stage,    \* per refresh: its step,
  renames,  \* the entities it found to rename,
  waiting,  \* those it has still to treat,
  read,     \* the one it treats, or the references it read
  settled,  \* history: nothing disturbed the last refresh
  spoilt,   \* history: refreshes or edits overlapped, failed or were cut off
  refreshes, faults, changes

content == <<present, refs, texts>>
locals == <<stage, renames, waiting, read>>
history == <<settled, spoilt>>
counts == <<refreshes, faults, changes>>
refreshVars == <<content, draft, locals, history, counts>>

MapDocs == present \cap (Old(LegacyMaps) \cup New(LegacyMaps))
RefreshInit ==
  /\ present \in SUBSET Ids /\ refs \in SUBSET MapDocs
  /\ texts = present /\ draft = NoDraft
  /\ stage = [c \in Refreshers |-> "idle"] /\ renames = [c \in Refreshers |-> {}]
  /\ waiting = [c \in Refreshers |-> {}] /\ read = [c \in Refreshers |-> {}]
  /\ settled = FALSE /\ spoilt = FALSE
  /\ refreshes = 0 /\ faults = 0 /\ changes = 0

Busy == {c \in Refreshers : stage[c] # "idle"}
Has(e, id) == <<e, id>> \in present

Fault == faults < MaxFaults /\ faults' = faults + 1 /\ settled' = FALSE /\ spoilt' = TRUE
Fine == UNCHANGED <<faults, settled, spoilt>>
Goes(c, step, S) == stage' = [stage EXCEPT ![c] = step] /\ waiting' = [waiting EXCEPT ![c] = S]
Ends(c) ==
  /\ Goes(c, "idle", {})
  /\ renames' = [renames EXCEPT ![c] = {}] /\ read' = [read EXCEPT ![c] = {}]

-----------------------------------------------------------------------------
(* The identifiers.                                                         *)

BeginRefresh(c) ==
  /\ stage[c] = "idle" /\ refreshes < MaxRefreshes /\ refreshes' = refreshes + 1
  /\ settled' = (Busy = {}) /\ spoilt' = (spoilt \/ Busy # {} \/ draft # NoDraft)
  /\ Goes(c, "scan", {})
  /\ UNCHANGED <<content, draft, renames, read, faults, changes>>

\* Whatever still bears an old identifier, unless the new one is taken.  A scan
\* that fails keeps what it found; one that finds nothing ends the migration.
Legacy == {e \in Entities : Has(e, "old") /\ ~Has(e, "new")}
Scan(c) ==
  /\ stage[c] = "scan"
  /\ \E S \in SUBSET Legacy :
       /\ IF S = Legacy THEN Fine ELSE Fault
       /\ renames' = [renames EXCEPT ![c] = S]
       /\ IF S = {} THEN Goes(c, "factions", Factions) ELSE Goes(c, "rename", S)
  /\ UNCHANGED <<content, draft, read, refreshes, changes>>

\* The document is written under its new identifier, then deleted under the old.
\* Pools are scanned too, but their collection is not among those renamed.
Renamed_bug == LegacyMaps
Renamed == Entities
Put_bug(e) == IF Has(e, "new") THEN present \cup New({e}) ELSE present
Put(e) == present \cup New({e})
RenameDoc(c) ==
  /\ stage[c] = "rename"
  /\ \E e \in waiting[c] :
       IF Has(e, "old") /\ e \in Renamed
       THEN \/ present' = Put(e) /\ Goes(c, "drop", waiting[c]) /\ Fine
               /\ read' = [read EXCEPT ![c] = {e}]
            \/ UNCHANGED <<present, read>> /\ Goes(c, "rename", waiting[c] \ {e}) /\ Fault
       ELSE UNCHANGED <<present, read>> /\ Goes(c, "rename", waiting[c] \ {e}) /\ Fine
  /\ UNCHANGED <<refs, texts, draft, renames, refreshes, changes>>

Drop(c) ==
  /\ stage[c] = "drop" /\ Goes(c, "rename", waiting[c] \ read[c]) /\ read' = [read EXCEPT ![c] = {}]
  /\ \/ present' = present \ Old(read[c]) /\ Fine
     \/ UNCHANGED present /\ Fault
  /\ UNCHANGED <<refs, texts, draft, renames, refreshes, changes>>

\* The pool is read, then its references are written; renamed or not, what the
\* scan had found is rewritten.
ReadRefs(c) ==
  /\ stage[c] = "rename" /\ waiting[c] = {}
  /\ \/ Goes(c, "refs", {}) /\ read' = [read EXCEPT ![c] = refs] /\ Fine
     \/ Goes(c, "factions", Factions) /\ UNCHANGED read /\ Fault
  /\ UNCHANGED <<content, draft, renames, refreshes, changes>>

\* The texts keep their identifiers: MongoDB refuses a replacement that changes
\* the _id of a document, and the migration of the texts ends there.
Rewritten_bug(S, R) == S
Rewritten(S, R) == (S \ Old(R)) \cup New({e \in R : <<e, "old">> \in S})
WriteRefs(c) ==
  /\ stage[c] = "refs" /\ Goes(c, "factions", Factions) /\ read' = [read EXCEPT ![c] = {}]
  /\ IF read[c] \cap Old(renames[c]) = {} THEN UNCHANGED refs /\ Fine
     ELSE \/ refs' = Rewritten(read[c], renames[c]) /\ Fine
          \/ UNCHANGED refs /\ Fault
  /\ UNCHANGED <<present, texts, draft, renames, refreshes, changes>>

-----------------------------------------------------------------------------
(* The factions.                                                            *)

NextFaction(c) ==
  /\ stage[c] = "factions"
  /\ IF waiting[c] = {} THEN Ends(c)
     ELSE /\ \E f \in waiting[c] : /\ read' = [read EXCEPT ![c] = {f}]
               /\ Goes(c, IF Has(f, "new") THEN "text" ELSE "create", waiting[c])
          /\ UNCHANGED renames
  /\ Fine /\ UNCHANGED <<content, draft, refreshes, changes>>

\* Names are unique: a faction whose name another document bears is refused, and
\* the refusal ends the refresh.
CreateFaction(c) ==
  /\ stage[c] = "create"
  /\ \E f \in read[c] :
       IF Has(f, "old") \/ Has(f, "new")
       THEN Ends(c) /\ UNCHANGED present
       ELSE /\ present' = present \cup New({f}) /\ Goes(c, "text", waiting[c])
            /\ UNCHANGED <<renames, read>>
  /\ Fine /\ UNCHANGED <<refs, texts, draft, refreshes, changes>>

Text(c) ==
  /\ stage[c] = "text" /\ texts' = texts \cup New(read[c])
  /\ Goes(c, "factions", waiting[c] \ read[c]) /\ read' = [read EXCEPT ![c] = {}]
  /\ Fine /\ UNCHANGED <<present, refs, draft, renames, refreshes, changes>>

\* A call that fails here ends the refresh, as does a restart of the process.
Fails(c) ==
  /\ stage[c] \in {"factions", "create", "text"} /\ Ends(c) /\ Fault
  /\ UNCHANGED <<content, draft, refreshes, changes>>

Restart ==
  /\ Busy # {} /\ Fault
  /\ stage' = [c \in Refreshers |-> "idle"] /\ renames' = [c \in Refreshers |-> {}]
  /\ waiting' = [c \in Refreshers |-> {}] /\ read' = [c \in Refreshers |-> {}] /\ draft' = NoDraft
  /\ UNCHANGED <<content, refreshes, changes>>

-----------------------------------------------------------------------------
(* An administrator edits the pool: the document is read whole, then written *)
(* whole (GameData).                                                         *)

Edit ==
  /\ draft = NoDraft /\ changes < MaxChanges /\ changes' = changes + 1
  /\ \E m \in MapDocs : draft' \in {refs \cup {m}, refs \ {m}}
  /\ spoilt' = (spoilt \/ Busy # {})
  /\ UNCHANGED <<content, locals, settled, refreshes, faults>>

Save ==
  /\ draft # NoDraft /\ refs' = draft /\ draft' = NoDraft
  /\ spoilt' = (spoilt \/ Busy # {})
  /\ UNCHANGED <<present, texts, locals, settled, counts>>

RefreshNext ==
  \/ \E c \in Refreshers :
       \/ BeginRefresh(c) \/ Scan(c) \/ RenameDoc(c) \/ Drop(c) \/ ReadRefs(c) \/ WriteRefs(c)
       \/ NextFaction(c) \/ CreateFaction(c) \/ Text(c) \/ Fails(c)
  \/ Restart \/ Edit \/ Save

RefreshSpec == RefreshInit /\ [][RefreshNext]_refreshVars

-----------------------------------------------------------------------------
RefreshTypeOK ==
  /\ {present, refs, texts} \subseteq SUBSET Ids /\ (draft = NoDraft \/ draft \subseteq Ids)
  /\ stage \in [Refreshers -> {"idle", "scan", "rename", "drop", "refs", "factions",
                             "create", "text"}]
  /\ renames \in [Refreshers -> SUBSET Entities] /\ waiting \in [Refreshers -> SUBSET Entities]
  /\ read \in [Refreshers -> SUBSET (Entities \cup Ids)]
  /\ {settled, spoilt} \subseteq BOOLEAN /\ {refreshes, faults, changes} \subseteq Nat

\* No entity is ever without a document, under one identifier or the other,
\* although a rename is a write and then a delete, which a restart may part and
\* another refresh may cross.
NothingLost ==
  [][\A e \in Entities :
       Has(e, "old") \/ Has(e, "new") => Has(e, "old")' \/ Has(e, "new")']_refreshVars

\* A refresh that ran undisturbed leaves every faction of the data set with its
\* document and its text under the current identifier, whatever an earlier one
\* left half done; and while nothing failed or overlapped, a pool references no
\* map that is gone.
Refreshed ==
  Busy = {} =>
    /\ settled => New(Factions) \subseteq present \cap texts
    /\ ~spoilt => refs \subseteq present
=============================================================================
