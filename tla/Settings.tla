------------------------------ MODULE Settings ------------------------------
(***************************************************************************)
(* The settings documents of a guild and of a user: a language, the        *)
(* languages the members were last seen using, the read-only switches of   *)
(* the pinned channels, a preferred profile site.  Every operation of      *)
(* LogService, home.py and pinned_views.py that changes one reads the      *)
(* whole document, changes its own field and replaces the whole document,  *)
(* in two calls of the database.                                           *)
(***************************************************************************)
EXTENDS Naturals, Sequences

CONSTANTS
  Handlers,  \* the tasks of the bot that may run an operation
  Ops,       \* the operations they may ask for
  None,      \* an absent field, an idle caller
  Bound,     \* how many members' languages a guild keeps
  MaxCalls   \* bound on the operations

\* An operation changes one field of one document; "observe" is the kind of
\* the two that are not asked for by anyone.
IsOp(op) ==
  /\ DOMAIN op = {"doc", "field", "kind", "value"}
  /\ op.kind \in {"pick", "observe"}
  /\ <<op.doc, op.field>> \in {<<"guild", "locale">>, <<"guild", "members">>, <<"guild", "readonly">>,
                               <<"user", "locale">>, <<"user", "site">>}

ASSUME SettingsAssumption == Bound \in Nat \ {0} /\ MaxCalls \in Nat /\ \A op \in Ops : IsOp(op)

VARIABLES
  store,   \* the two documents
  call,    \* per caller None, or its operation and the document it read
  hurt,    \* history: the documents that were read while an operation on them
           \* was under way, or whose read failed
  chosen,  \* history: the language last picked for the guild
  latest,  \* history: the member last recorded
  calls    \* how many operations have begun

settingsVars == <<store, call, hurt, chosen, latest, calls>>

Blank(d) ==
  IF d = "guild" THEN [locale |-> None, members |-> <<>>, readonly |-> None]
                 ELSE [locale |-> None, site |-> None]

SettingsInit ==
  /\ store = [d \in {"guild", "user"} |-> Blank(d)]
  /\ call = [c \in Handlers |-> None]
  /\ hurt = {} /\ chosen = None /\ latest = None /\ calls = 0

Names(entries) == {entries[i][1] : i \in DOMAIN entries}

\* An update of a dict keeps the place of a key it has, and the last Bound
\* entries of the dict are kept.  A name ending in _bug is a mutated form.
Recorded(entries, entry) ==
  LET longer == IF entry[1] \in Names(entries)
                THEN [i \in DOMAIN entries |-> IF entries[i][1] = entry[1] THEN entry ELSE entries[i]]
                ELSE Append(entries, entry)
  IN  SubSeq(longer, IF Len(longer) > Bound THEN Len(longer) - Bound + 1 ELSE 1, Len(longer))

\* The document an operation writes, from the one it read.
Changed_bug(op, read) ==
  [Blank(op.doc) EXCEPT ![op.field] = IF op.field = "members" THEN Recorded(@, op.value) ELSE op.value]
Changed(op, read) ==
  [read EXCEPT ![op.field] = IF op.field = "members" THEN Recorded(@, op.value) ELSE op.value]

Busy(d) == \E c \in Handlers : call[c] # None /\ call[c].op.doc = d

\* A read that fails is taken for an empty document.
ReadSetting(c, op) ==
  /\ call[c] = None /\ calls < MaxCalls /\ calls' = calls + 1
  /\ \/ /\ call' = [call EXCEPT ![c] = [op |-> op, read |-> store[op.doc]]]
        /\ hurt' = IF Busy(op.doc) THEN hurt \cup {op.doc} ELSE hurt
     \/ /\ call' = [call EXCEPT ![c] = [op |-> op, read |-> Blank(op.doc)]]
        /\ hurt' = hurt \cup {op.doc}
  /\ UNCHANGED <<store, chosen, latest>>

\* observe_user_locale writes nothing when the language is the one it read.
Same(op, read) == op.doc = "user" /\ op.kind = "observe" /\ read.locale = op.value

Note(op) ==
  /\ chosen' = IF op.doc = "guild" /\ op.field = "locale" THEN op.value ELSE chosen
  /\ latest' = IF op.field = "members" THEN op.value[1] ELSE latest

WriteSetting(c) ==
  /\ call[c] # None
  /\ call' = [call EXCEPT ![c] = None]
  /\ LET op == call[c].op  read == call[c].read IN
       IF Same(op, read) THEN UNCHANGED <<store, chosen, latest>>
       ELSE store' = [store EXCEPT ![op.doc] = Changed(op, read)] /\ Note(op)
  /\ UNCHANGED <<hurt, calls>>

\* The write fails, or the process stops before it.
Fail(c) ==
  /\ call[c] # None
  /\ call' = [call EXCEPT ![c] = None]
  /\ UNCHANGED <<store, hurt, chosen, latest, calls>>

SettingsNext == \E c \in Handlers : WriteSetting(c) \/ Fail(c) \/ \E op \in Ops : ReadSetting(c, op)

SettingsSpec == SettingsInit /\ [][SettingsNext]_settingsVars

-----------------------------------------------------------------------------
Entries == Seq(UNION {{op.value} : op \in {o \in Ops : o.field = "members"}})
Values(d, f) == {None} \cup {op.value : op \in {o \in Ops : o.doc = d /\ o.field = f}}
IsDoc(d, doc) ==
  /\ DOMAIN doc = DOMAIN Blank(d)
  /\ \A f \in DOMAIN doc : IF f = "members" THEN doc[f] \in Entries ELSE doc[f] \in Values(d, f)

\* Every variable keeps its type.
SettingsTypeOK ==
  /\ \A d \in {"guild", "user"} : IsDoc(d, store[d])
  /\ \A c \in Handlers : call[c] # None => call[c].op \in Ops /\ IsDoc(call[c].op.doc, call[c].read)
  /\ hurt \subseteq {"guild", "user"} /\ calls \in 0..MaxCalls

\* The guild's language is the one that was last picked, whatever is observed
\* or switched around it: "the stored guild choice always wins".
GuildChoiceKept == "guild" \notin hurt => store["guild"].locale = chosen

\* A write leaves the fields alone that its operation does not name.
OnlyOwnField ==
  [][\A d \in DOMAIN store \ hurt : \A f \in DOMAIN store[d] :
       store'[d][f] # store[d][f] =>
         \E c \in Handlers : /\ call[c] # None /\ call'[c] = None
                            /\ call[c].op.doc = d /\ call[c].op.field = f]_settingsVars

\* The guild keeps at most Bound members' languages, one each, however the
\* operations overlap; the member seen last is among them unless they did.
MembersBounded ==
  LET kept == store["guild"].members IN
  /\ Len(kept) <= Bound
  /\ \A i, j \in DOMAIN kept : kept[i][1] = kept[j][1] => i = j
  /\ latest # None /\ "guild" \notin hurt => latest \in Names(kept)
=============================================================================
