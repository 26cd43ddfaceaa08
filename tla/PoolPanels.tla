----------------------------- MODULE PoolPanels -----------------------------
(***************************************************************************)
(* The panels through which the operators edit the catalogue of a game in  *)
(* one guild: the forms they have open, what a submit reads, saves, and    *)
(* renders again.  A form shows the catalogue as it was when it opened; a  *)
(* submit reads it again, saves its changes one pool after the other, then *)
(* refreshes the posts it believes it touched.  The operations of the      *)
(* service are steps of their own here (their inside is GameData's), and   *)
(* so is a refresh of posts (its inside is GameForums's).                  *)
(* A name ending in _bug is a mutated form.                                *)
(***************************************************************************)
EXTENDS FiniteSets, Naturals

CONSTANTS
  Pools, Maps,
  OwnMaps,     \* the maps the guild owns; the others are public
  Admins,      \* the operators: one interaction of each at a time
  Nil,
  MaxPoolMaps, \* MAX_POOL_MAPS
  MaxOptions,  \* the pools a form can list (25)
  MaxSubmits, MaxRefusals  \* bounds: forms submitted and buttons clicked, failed calls

States == {"draft", "published", "closed"}
Documents == [state : States, maps : SUBSET Maps, editable : BOOLEAN]
Cards == [state : States, maps : SUBSET Maps]

ASSUME PoolPanelsAssumption ==
  /\ OwnMaps \subseteq Maps /\ Pools \cap Maps = {}
  /\ Nil \notin Pools \cup Maps \cup Documents \cup Cards
  /\ {MaxPoolMaps, MaxOptions, MaxSubmits, MaxRefusals} \subseteq Nat

VARIABLES
  pools,    \* the stored pools, or Nil
  maps,     \* the stored maps: "none", "live" or "archived"
  board,    \* per pool what its post shows, or Nil
  links,    \* per map the pools its post links, or Nil
  form,     \* per operator the form open, or Nil
  work,     \* per operator what is left of a submit
  stale,    \* history: the operators since whose form opened another one saved
  behind,   \* history: entries changed by a flow that leaves their post as it was
  submits, refusals

operatorVars == <<pools, maps, board, links, form, work, stale, behind, submits, refusals>>
store == <<pools, maps>>
posts == <<board, links>>

\* What is to save (pairs of a pool and its maps), what the operator asked to
\* take out, the pools the submit changes though its form did not list them,
\* and the posts to refresh: pools, all of the pools, maps.
NoWork == [at |-> "idle", saves |-> {}, asked |-> {}, hidden |-> {},
           pools |-> {}, all |-> FALSE, maps |-> {}]
Saving(saves, asked, all, ms) ==
  [NoWork EXCEPT !.at = "save", !.saves = saves, !.asked = asked, !.all = all, !.maps = ms]
Refreshing(ps, all, ms) == [NoWork EXCEPT !.at = "pools", !.pools = ps, !.all = all, !.maps = ms]

Stored == {p \in Pools : pools[p] # Nil}
Drafts == {p \in Stored : pools[p].state = "draft"}
Active == {p \in Stored : pools[p].state # "closed"}
Live == {m \in Maps : maps[m] = "live"}
Known == {m \in Maps : maps[m] # "none"}
Linking(m) == {p \in Stored : m \in pools[p].maps}

Fresh(ms) == [state |-> "draft", maps |-> ms, editable |-> TRUE]
Card(p) == [state |-> pools[p].state, maps |-> pools[p].maps \cap Live]

OperatorInit ==
  /\ pools \in [Pools -> {Nil} \cup {Fresh(ms) : ms \in SUBSET Maps}]
  /\ maps = [m \in Maps |-> "live"] /\ links = [m \in Maps |-> Linking(m)]
  /\ board = [p \in Pools |-> IF p \in Stored THEN Card(p) ELSE Nil]
  /\ form = [a \in Admins |-> Nil] /\ work = [a \in Admins |-> NoWork]
  /\ stale = {} /\ behind = {} /\ submits = 0 /\ refusals = 0

Free(a) == form[a] = Nil /\ work[a] = NoWork
Open(a, f) ==
  /\ Free(a) /\ form' = [form EXCEPT ![a] = f] /\ stale' = stale \ {a}
  /\ UNCHANGED <<store, posts, work, behind, submits, refusals>>
Submitted(a) == submits < MaxSubmits /\ submits' = submits + 1 /\ form' = [form EXCEPT ![a] = Nil]
Then(a, w) == work' = [work EXCEPT ![a] = w]
Others(a) == stale' = stale \cup (Admins \ {a})
Shut(a) ==
  /\ form[a] # Nil /\ form' = [form EXCEPT ![a] = Nil]
  /\ UNCHANGED <<store, posts, work, stale, behind, submits, refusals>>

-----------------------------------------------------------------------------
(* The composition of pools: the association editor of a map, the form of a *)
(* pool, the maps added by their id or picked from a list.                  *)

\* The editor lists the first drafts only.  (The pools of another guild would be
\* read too, were they public: nothing in the code makes a pool public.)
AllListed == Cardinality(Drafts) <= MaxOptions
Listable(ps) == ps \subseteq Drafts /\ IF AllListed THEN ps = Drafts ELSE Cardinality(ps) = MaxOptions
OpenEditor(a, m) ==
  \E listed \in SUBSET Drafts :
    Listable(listed) /\ Open(a, [kind |-> "editor", on |-> m, listed |-> listed,
                                 ticked |-> listed \cap Linking(m)])

\* The pools in which the map is to change, as they were read by the submit.
Differing_bug(m, chosen) == {p \in Active : (p \in Linking(m)) # (p \in chosen)}
Differing(m, chosen) == {p \in Drafts : (p \in Linking(m)) # (p \in chosen)}
Toggled(p, m) == IF p \in Linking(m) THEN pools[p].maps \ {m} ELSE pools[p].maps \cup {m}
SubmitEditor(a) ==
  /\ form[a] # Nil /\ form[a].kind = "editor" /\ Submitted(a)
  /\ LET m == form[a].on IN
       IF maps[m] = "none" THEN Then(a, NoWork)
       ELSE \E chosen \in SUBSET form[a].listed :
              Then(a, [Saving({<<p, Toggled(p, m)>> : p \in Differing(m, chosen)},
                              (form[a].ticked \ chosen) \X {m}, FALSE, {m})
                         EXCEPT !.hidden = Drafts \ form[a].listed])
  /\ UNCHANGED <<store, posts, stale, behind, refusals>>

OpenCompose(a, p) ==
  /\ p \in Stored
  /\ LET available == Live \ pools[p].maps
         members == pools[p].maps \cap Live IN
       /\ available \cup members # {}
       /\ Open(a, [kind |-> "compose", on |-> p, available |-> available, members |-> members])

\* Dead maps drop out of the composition with those selected for removal.
Composed(p, add, remove) == ((pools[p].maps \cup add) \cap Live) \ remove
Addable(p, add) == (add \cap Live) \ pools[p].maps
Touched_bug(p, add, remove) == Addable(p, add)
Touched(p, add, remove) == Addable(p, add) \cup (remove \cap pools[p].maps)
Fits(ms) == Cardinality(ms) <= MaxPoolMaps
SubmitCompose(a) ==
  /\ form[a] # Nil /\ form[a].kind = "compose" /\ Submitted(a)
  /\ LET p == form[a].on IN
       \E add \in SUBSET form[a].available, remove \in SUBSET form[a].members :
         IF p \in Stored /\ add \cup remove # {} /\ Fits(Composed(p, add, remove))
           THEN Then(a, Saving({<<p, Composed(p, add, remove)>>}, {p} \X remove, TRUE,
                               Touched(p, add, remove)))
           ELSE Then(a, NoWork)
  /\ UNCHANGED <<store, posts, stale, behind, refusals>>

\* The form by id asks nothing of the pool; the picker wants a draft.
AddById(a, p, m) ==
  /\ Free(a) /\ Submitted(a) /\ p \in Stored /\ m \in Known \ pools[p].maps
  /\ Then(a, Saving({<<p, pools[p].maps \cup {m}>>}, {}, TRUE, {}))
  /\ stale' = stale \ {a} /\ UNCHANGED <<store, posts, behind, refusals>>
Pick(a, p, m) == p \in Drafts /\ AddById(a, p, m)

\* The service accepts the maps of an editable pool that all exist.  The first
\* refusal ends the submit, whatever it has already saved.
Accepted(p, ms) == p \in Stored /\ pools[p].editable /\ ms \subseteq Known /\ Fits(ms)
Save(a) ==
  /\ work[a].at = "save"
  /\ IF work[a].saves = {}
       THEN Then(a, [work[a] EXCEPT !.at = "pools"]) /\ UNCHANGED <<pools, stale, behind>>
       ELSE \E s \in work[a].saves :
              IF Accepted(s[1], s[2])
                THEN /\ pools' = [pools EXCEPT ![s[1]].maps = s[2]]
                     /\ Then(a, [work[a] EXCEPT !.saves = @ \ {s}, !.pools = @ \cup {s[1]}])
                     /\ behind' = IF a \in stale \/ work[a].maps = {}
                          THEN behind \cup (s[2] \ pools[s[1]].maps) \cup (pools[s[1]].maps \ s[2])
                          ELSE behind
                     /\ Others(a)
                ELSE /\ Then(a, NoWork) /\ UNCHANGED <<pools, stale>>
                     /\ behind' = behind \cup work[a].pools
                          \cup (IF work[a].pools = {} THEN {} ELSE work[a].maps)
  /\ UNCHANGED <<maps, posts, form, submits, refusals>>

-----------------------------------------------------------------------------
(* The life of a pool.                                                      *)

\* Every one of them syncs the forum of the pools, but the button "duplicate".
Created(a, p, ms, w) ==
  /\ Free(a) /\ Submitted(a) /\ p \notin Stored
  /\ pools' = [pools EXCEPT ![p] = Fresh(ms)] /\ Then(a, w) /\ Others(a)
  /\ behind' = behind \cup ms \cup (IF w = NoWork THEN {p} ELSE {})
  /\ UNCHANGED <<maps, posts, refusals>>
Copied(q) == q \in Stored /\ pools[q].maps \subseteq Known
CreatePool(a, p) == Created(a, p, {}, Refreshing({}, TRUE, {}))
NewPool(a, p, m) == m \in Known /\ Created(a, p, {m}, Refreshing({}, TRUE, {}))
CopyPool(a, p, q) == Copied(q) /\ Created(a, p, pools[q].maps, Refreshing({}, TRUE, {}))
DuplicatePool(a, p, q) == Copied(q) /\ Created(a, p, pools[q].maps, NoWork)

Moves(s) == CASE s = "draft" -> {"published"} [] s = "published" -> {"draft"}
              [] s = "closed" -> {"draft", "published"}
Moved(d, s) == [d EXCEPT !.state = s, !.editable = IF s = "published" THEN @ ELSE s = "draft"]
Transition(a, p, s) ==
  /\ Free(a) /\ Submitted(a) /\ p \in Stored /\ s \in Moves(pools[p].state)
  /\ s = "published" => pools[p].maps # {}
  /\ pools' = [pools EXCEPT ![p] = Moved(@, s)]
  /\ Then(a, Refreshing({p}, FALSE, pools[p].maps)) /\ Others(a)
  /\ UNCHANGED <<maps, posts, behind, refusals>>

\* The button refreshes the post; the delete of a post, a form in which the
\* operator types the name that the pool had, syncs the forum.
Archived(a, p, w) ==
  /\ Submitted(a) /\ p \in Active
  /\ pools' = [pools EXCEPT ![p] = [@ EXCEPT !.state = "closed", !.editable = FALSE]]
  /\ Then(a, w) /\ Others(a) /\ UNCHANGED <<maps, posts, behind, refusals>>
InVain(a) == Submitted(a) /\ UNCHANGED <<store, posts, work, stale, behind, refusals>>
Archive(a, p) == Free(a) /\ p \in Stored /\ Archived(a, p, Refreshing({p}, FALSE, pools[p].maps))
OpenDelete(a, p) == p \in Stored /\ Open(a, [kind |-> "delete", on |-> p])
DeletePool(a) ==
  /\ form[a] # Nil /\ form[a].kind = "delete"
  /\ IF form[a].on \in Active THEN Archived(a, form[a].on, Refreshing({}, TRUE, {})) ELSE InVain(a)

\* The definitive delete holds the pool as it was when the form opened; it
\* deletes the post and refreshes the maps the pool had then.
OpenHardDelete(a, p) == p \in Stored /\ Open(a, [kind |-> "erase", on |-> p, maps |-> pools[p].maps])
Erasable(p) == p \in Stored /\ pools[p].state = "closed"
HardDelete(a) ==
  /\ form[a] # Nil /\ form[a].kind = "erase" /\ Submitted(a)
  /\ LET p == form[a].on IN
       IF Erasable(p)
         THEN /\ pools' = [pools EXCEPT ![p] = Nil] /\ board' = [board EXCEPT ![p] = Nil]
              /\ Then(a, Refreshing({}, FALSE, form[a].maps))
              /\ behind' = (behind \ {p}) \cup (pools[p].maps \ form[a].maps)
              /\ Others(a)
         ELSE Then(a, NoWork) /\ UNCHANGED <<pools, board, behind, stale>>
  /\ UNCHANGED <<maps, links, refusals>>

-----------------------------------------------------------------------------
(* The life of a map.                                                       *)

\* A public map is archived, a map of the guild is deleted unless a pool that
\* is not archived names it; its post goes, those of its pools stay as they are.
Deletable(m) == IF m \in OwnMaps THEN m \in Known /\ ~\E p \in Active : m \in pools[p].maps ELSE m \in Live
Dropped(a, m) ==
  /\ Submitted(a) /\ Deletable(m)
  /\ maps' = [maps EXCEPT ![m] = IF m \in OwnMaps THEN "none" ELSE "archived"]
  /\ links' = [links EXCEPT ![m] = Nil] /\ behind' = behind \cup Linking(m)
  /\ Others(a) /\ UNCHANGED <<pools, board, work, refusals>>
OpenMapDelete(a, m) == m \in Known /\ Open(a, [kind |-> "drop", on |-> m])
DeleteMap(a) ==
  /\ form[a] # Nil /\ form[a].kind = "drop"
  /\ IF Deletable(form[a].on) THEN Dropped(a, form[a].on) ELSE InVain(a)

\* A created map waits for a sync; an import syncs the forum of the maps, and
\* takes the map back when that fails.
CreateMap(a, m) ==
  /\ Free(a) /\ Submitted(a) /\ m \notin Live
  /\ maps' = [maps EXCEPT ![m] = "live"] /\ behind' = behind \cup Linking(m)
  /\ Others(a) /\ UNCHANGED <<pools, posts, work, refusals>>
ImportMap(a, m) ==
  /\ Free(a) /\ Submitted(a) /\ m \notin Live \cup OwnMaps
  /\ maps' = [maps EXCEPT ![m] = "live"] /\ behind' = behind \cup Linking(m)
  /\ Then(a, [NoWork EXCEPT !.at = "import", !.maps = {m}])
  /\ Others(a) /\ UNCHANGED <<pools, posts, refusals>>

\* An import of several takes one after the other, those the source has; what is
\* there stays.  The forum of the maps is synced when one was created.
ImportList(a, ms) ==
  /\ Free(a) /\ Submitted(a) /\ Then(a, [NoWork EXCEPT !.at = "lines", !.maps = ms])
  /\ UNCHANGED <<store, posts, stale, behind, refusals>>
ImportLine(a) ==
  /\ work[a].at \in {"lines", "created"}
  /\ \E m \in work[a].maps :
       \/ /\ m \notin Live /\ maps' = [maps EXCEPT ![m] = "live"] /\ behind' = behind \cup Linking(m)
          /\ Then(a, [work[a] EXCEPT !.at = "created", !.maps = @ \ {m}]) /\ Others(a)
       \/ Then(a, [work[a] EXCEPT !.maps = @ \ {m}]) /\ UNCHANGED <<maps, behind, stale>>
  /\ UNCHANGED <<pools, posts, form, submits, refusals>>
ListEnds(a) ==
  /\ work[a].at \in {"lines", "created"} /\ work[a].maps = {}
  /\ Then(a, [NoWork EXCEPT !.at = IF work[a].at = "created" THEN "sync" ELSE "idle"])
  /\ UNCHANGED <<store, posts, form, stale, behind, submits, refusals>>

Shown == [m \in Maps |-> IF m \in Live THEN Linking(m) ELSE links[m]]
SyncMaps(a) ==
  /\ work[a].at \in {"import", "sync"} \/ (Free(a) /\ submits < MaxSubmits)
  /\ submits' = IF Free(a) THEN submits + 1 ELSE submits
  /\ links' = Shown /\ behind' = behind \ Live /\ Then(a, NoWork)
  /\ UNCHANGED <<store, board, form, stale, refusals>>
\* The document of a map deleted holds the link to its post.
Droppable(a) == {m \in work[a].maps : Linking(m) \cap Active = {}}
ImportFails(a) ==
  /\ work[a].at = "import" /\ refusals < MaxRefusals /\ refusals' = refusals + 1
  /\ maps' = [m \in Maps |-> IF m \in Droppable(a) THEN "none" ELSE maps[m]]
  /\ links' = [m \in Maps |-> IF m \in Droppable(a) THEN Nil ELSE links[m]]
  /\ behind' = behind \cup UNION {Linking(m) : m \in work[a].maps}
  /\ Then(a, NoWork) /\ UNCHANGED <<pools, board, form, stale, submits>>
SyncFails(a) ==
  /\ work[a].at = "sync" /\ refusals < MaxRefusals /\ refusals' = refusals + 1
  /\ Then(a, NoWork) /\ UNCHANGED <<store, posts, form, stale, behind, submits>>

-----------------------------------------------------------------------------
(* The posts.                                                               *)

\* A sync gives every pool its post; only when it created one does it refresh
\* the maps, and only when some pool had a post before it.
PoolPosts(a) ==
  /\ work[a].at = "pools"
  /\ LET touched == IF work[a].all THEN Stored ELSE {p \in work[a].pools \cap Stored : board[p] # Nil}
         created == {p \in touched : board[p] = Nil}
         ms == IF created # {} /\ (\E p \in Stored : board[p] # Nil)
                 THEN UNION {pools[p].maps : p \in Stored} ELSE {} IN
       /\ board' = [p \in Pools |-> IF p \in touched THEN Card(p) ELSE board[p]]
       /\ behind' = behind \ touched
       /\ Then(a, [work[a] EXCEPT !.at = "maps", !.maps = @ \cup ms])
  /\ UNCHANGED <<store, links, form, stale, submits, refusals>>

Refreshed(ms) == {m \in ms \cap Known : links[m] # Nil}
MapPosts(a) ==
  /\ work[a].at = "maps"
  /\ links' = [m \in Maps |-> IF m \in Refreshed(work[a].maps) THEN Linking(m) ELSE links[m]]
  /\ behind' = behind \ Refreshed(work[a].maps) /\ Then(a, NoWork)
  /\ UNCHANGED <<store, board, form, stale, submits, refusals>>

\* A failed refresh is logged: the posts stay as they are.
RefreshFails(a) ==
  /\ work[a].at \in {"pools", "maps"} /\ refusals < MaxRefusals /\ refusals' = refusals + 1
  /\ behind' = behind \cup work[a].maps \cup (IF work[a].at = "maps" THEN {}
                                              ELSE IF work[a].all THEN Stored ELSE work[a].pools)
  /\ Then(a, NoWork) /\ UNCHANGED <<store, posts, form, stale, submits>>

OperatorNext ==
  \E a \in Admins :
    \/ \E m \in Maps : OpenEditor(a, m) \/ OpenMapDelete(a, m) \/ CreateMap(a, m) \/ ImportMap(a, m)
    \/ \E p \in Pools :
         \/ OpenCompose(a, p) \/ OpenHardDelete(a, p) \/ OpenDelete(a, p)
         \/ \E m \in Maps : AddById(a, p, m) \/ Pick(a, p, m) \/ NewPool(a, p, m)
         \/ CreatePool(a, p) \/ \E q \in Pools : CopyPool(a, p, q) \/ DuplicatePool(a, p, q)
         \/ \E s \in {"draft", "published"} : Transition(a, p, s)
         \/ Archive(a, p)
    \/ SubmitEditor(a) \/ SubmitCompose(a) \/ HardDelete(a) \/ DeletePool(a) \/ DeleteMap(a) \/ Shut(a)
    \/ Save(a) \/ PoolPosts(a) \/ MapPosts(a) \/ RefreshFails(a)
    \/ \E ms \in SUBSET (Maps \ OwnMaps) : ms # {} /\ ImportList(a, ms)
    \/ ImportLine(a) \/ ListEnds(a) \/ SyncMaps(a) \/ ImportFails(a) \/ SyncFails(a)

OperatorSpec == OperatorInit /\ [][OperatorNext]_operatorVars

-----------------------------------------------------------------------------
\* Every variable keeps its type.
Forms ==
  [kind : {"editor"}, on : Maps, listed : SUBSET Pools, ticked : SUBSET Pools]
    \cup [kind : {"compose"}, on : Pools, available : SUBSET Maps, members : SUBSET Maps]
    \cup [kind : {"erase"}, on : Pools, maps : SUBSET Maps]
    \cup [kind : {"delete"}, on : Pools] \cup [kind : {"drop"}, on : Maps]
Works ==
  [at : {"idle", "save", "lines", "created", "import", "sync", "pools", "maps"},
   saves : SUBSET (Pools \X SUBSET Maps), asked : SUBSET (Pools \X Maps), hidden : SUBSET Pools,
   pools : SUBSET Pools, all : BOOLEAN, maps : SUBSET Maps]
OperatorTypeOK ==
  /\ pools \in [Pools -> Documents \cup {Nil}] /\ maps \in [Maps -> {"none", "live", "archived"}]
  /\ board \in [Pools -> Cards \cup {Nil}] /\ links \in [Maps -> {Nil} \cup SUBSET Pools]
  /\ form \in [Admins -> Forms \cup {Nil}] /\ work \in [Admins -> Works]
  /\ stale \subseteq Admins /\ behind \subseteq Pools \cup Maps /\ {submits, refusals} \subseteq Nat

\* While nobody is at work, the post of a pool shows its state and its maps and
\* the post of a map links its pools, unless the last flow that touched the
\* entry leaves its post to the next sync (maps_pool_flow, admin_panel_games).
PostsFollow ==
  (\A a \in Admins : work[a] = NoWork) =>
    /\ \A p \in Stored \ behind : board[p] = Card(p)
    /\ \A m \in Live \ behind : links[m] # Nil => links[m] = Linking(m)

\* A submit takes no live map out of a pool that the operator did not ask to
\* take out, when nobody else saved anything since the form was opened, but for
\* the editor of a map while there are more drafts than its form can list: it
\* shows the first of them and its submit reconciles them all, so that the map
\* leaves drafts the operator never saw ("Every DRAFT pool of the guild lists",
\* MapAddToPoolModal).
AskedOnly ==
  [][\A a \in Admins \ stale, p \in Pools :
       work[a].at = "save" /\ work'[a] # work[a] /\ pools[p] # Nil /\ pools'[p] # Nil =>
         \A m \in (pools[p].maps \ pools'[p].maps) \cap Live :
           <<p, m>> \in work[a].asked \/ (p \in work[a].hidden /\ ~AllListed)]_operatorVars
=============================================================================
