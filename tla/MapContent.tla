----------------------------- MODULE MapContent -----------------------------
(***************************************************************************)
(* The texts of the maps: a document per map, read by the post of the map, *)
(* replaced by an import, by the synchronisation of the maps and by a post *)
(* that finds it of an older layout; where the pages they come from are    *)
(* read, in process or by the provider process with its own copies; and    *)
(* the cache in front of the documents, which the bot builds the service   *)
(* without.  Each call of a cache or of a store is awaited.  A name ending *)
(* in _bug is a mutated form.                                              *)
(***************************************************************************)
EXTENDS Naturals

CONSTANTS
  Pages,   \* the maps, each with a page
  Cased,   \* those the catalogue names as their page is titled
  Keys,    \* the cached lists, one for each guild and locale
  TextTasks, \* the tasks of the bot
  NoText,
  MaxWork, MaxEdits, MaxBreaks  \* bounds: tasks begun, edits of a page, calls that fail

ASSUME MapContentAssumption ==
  Cased \subseteq Pages /\ {MaxWork, MaxEdits, MaxBreaks} \subseteq Nat

VARIABLES
  page,      \* the revision of each page
  rich,      \* the pages with an icon and a line about walls
  access,    \* how pages are read: by the "provider", "direct", or not at all
  memory,    \* the revisions the provider process keeps in memory, 0 for none
  kept,      \* those of the descriptors it stored
  docs,      \* the stored texts
  caching,   \* the service was given a cache
  entry,     \* the cached texts
  lists,     \* the cached lists, by key: a text for each map
  tracked,   \* per map: the keys of the lists it is known to be in
  work,      \* per task: its job and step; the map it treats, those left; the text it
             \* read, those found; its list, and the keys or the maps it holds
  given,     \* history: the tags last stored by other than a post
  overtaken, \* history: maps whose texts met a race or a failure of the cache
  works, breaks

upstream == <<page, rich, access, memory, kept>>
caches == <<entry, lists, tracked>>
contentVars == <<upstream, docs, caching, caches, work, given, overtaken, works, breaks>>

Unread == [m \in Pages |-> NoText]
Rest == [job |-> "none", at |-> "rest", map |-> NoText, todo |-> {}, base |-> NoText,
         found |-> Unread, key |-> NoText, held |-> {}]
ContentInit ==
  /\ page \in [Pages -> 1 .. MaxEdits + 1] /\ rich \in SUBSET Pages
  /\ access \in {"provider", "direct", "none"}
  /\ memory = [m \in Pages |-> 0] /\ kept = memory
  /\ docs = Unread /\ caching \in BOOLEAN /\ entry = Unread
  /\ lists = [k \in Keys |-> NoText] /\ tracked = [m \in Pages |-> {}]
  /\ work = [c \in TextTasks |-> Rest]
  /\ given = [m \in Pages |-> 0] /\ overtaken = {} /\ works = 0 /\ breaks = 0

Does(c, w) == work' = [work EXCEPT ![c] = w]
At(c, job, step) == work[c].job = job /\ work[c].at = step
Break == breaks < MaxBreaks /\ breaks' = breaks + 1
Marks(S) == overtaken' = overtaken \cup S
Well == UNCHANGED <<overtaken, breaks>>

-----------------------------------------------------------------------------
(* What a page gives.                                                       *)

\* Read in process, a page gives its traits and tags; through the provider it does
\* not, the contract having no field for them.  A refused licence gives no text.
Seed(m, r) == [text |-> r, image |-> TRUE, icon |-> m \in rich,
               traits |-> IF m \in rich THEN "given" ELSE "empty", tags |-> r]
Relayed(m, r) == [Seed(m, r) EXCEPT !.traits = "empty", !.tags = 0]
Refused == [text |-> 0, image |-> FALSE, icon |-> FALSE, traits |-> "empty", tags |-> 0]

\* The stored descriptor answers to the name it was stored under; else the page in
\* memory, or the wiki, answers and is kept: in memory, and stored, at best.
Hit(m) == m \in Cased /\ kept[m] # 0
Told(m) == IF Hit(m) THEN kept[m] ELSE IF memory[m] # 0 THEN memory[m] ELSE page[m]
Keeps(m, s) ==
  IF access = "provider" /\ s # NoText /\ ~Hit(m)
  THEN /\ memory' = [memory EXCEPT ![m] = Told(m)]
       /\ kept' \in {kept, [kept EXCEPT ![m] = Told(m)]}
  ELSE UNCHANGED <<memory, kept>>

\* No answer: no page, no contact configured, a call that failed or was refused.
Answers(m) ==
  {NoText} \cup CASE access = "provider" -> {Relayed(m, Told(m))}
                  [] access = "direct" -> {Seed(m, page[m]), Refused}
                  [] access = "none" -> {}

\* The wiki is edited; the provider's descriptors age out; its process restarts.
Upstream ==
  /\ \/ \E m \in Pages : page[m] <= MaxEdits /\ page' = [page EXCEPT ![m] = @ + 1]
                         /\ UNCHANGED <<memory, kept>>
     \/ \E m \in Pages : kept[m] # 0 /\ kept' = [kept EXCEPT ![m] = 0] /\ UNCHANGED <<page, memory>>
     \/ /\ access = "provider" /\ memory' = [m \in Pages |-> 0] /\ memory' # memory
        /\ UNCHANGED <<page, kept>>
  /\ UNCHANGED <<rich, access, docs, caching, caches, work, given, overtaken, works, breaks>>

-----------------------------------------------------------------------------
(* Texts.                                                                   *)

\* An import stores all the page gave; the form that creates a map stores no icon
\* and no traits, so its text is of the older layout from the start.
Imported(s) == [text |-> s.text, icon |-> s.icon, traits |-> s.traits, tags |-> s.tags, split |-> FALSE]
Typed(s) == [text |-> s.text, icon |-> FALSE, traits |-> "unset", tags |-> 0, split |-> FALSE]

Current(t) == t.split \/ (t.icon /\ t.traits # "unset")
Complete(t) == t.icon /\ t.traits = "given"
Migrated_bug(t, s) == [Imported(s) EXCEPT !.split = TRUE]
Migrated(t, s) == [t EXCEPT !.text = s.text, !.icon = s.icon, !.traits = s.traits, !.split = TRUE]

\* A task begins: it reads texts ("post", "list", "sync") or asks for a page at once.
Starts(c, job, S, k) ==
  /\ work[c] = Rest /\ works < MaxWork /\ works' = works + 1
  /\ Does(c, [Rest EXCEPT !.job = job, !.todo = S, !.key = k,
                          !.at = IF job \in {"import", "create"} THEN "fetch" ELSE "look"])
  /\ UNCHANGED <<upstream, docs, caching, caches, given, overtaken, breaks>>
Post(c, m) == Starts(c, "post", {m}, NoText)
ImportText(c, m) == Starts(c, "import", {m}, NoText)
CreateText(c, m) == Starts(c, "create", {m}, NoText)
SyncTexts(c) == access # "none" /\ Starts(c, "sync", Pages, NoText)
ListTexts(c, k) == caching /\ lists[k] = NoText /\ Starts(c, "list", Pages, k)

\* What a task does with the text t it read of its map, without an await: a post is
\* done with a text of the current layout, and a synchronisation with a complete one.
Got(w, t) ==
  LET f == [w.found EXCEPT ![w.map] = t]
      left == w.todo \ {w.map}
      next == IF left # {} THEN "look" ELSE IF w.job = "list" THEN "cache" ELSE "fetch"
  IN CASE w.job = "post" -> IF t = NoText \/ Current(t) THEN Rest
                            ELSE [w EXCEPT !.at = "fetch", !.base = t]
       [] w.job = "list" -> [w EXCEPT !.at = next, !.todo = IF left = {} THEN Pages ELSE left, !.found = f]
       [] w.job = "sync" ->
            LET asked == w.held \cup (IF t = NoText \/ ~Complete(t) THEN {w.map} ELSE {})
            IN [w EXCEPT !.at = next, !.held = IF left = {} THEN {} ELSE asked,
                         !.todo = IF left = {} THEN asked ELSE left]

\* The cached entry, unless there is none or the cache fails; else the document.
ReadEntry(c) ==
  /\ work[c].at = "look"
  /\ \E m \in work[c].todo :
       LET w == [work[c] EXCEPT !.map = m] IN
       \/ caching /\ entry[m] # NoText /\ Does(c, Got(w, entry[m])) /\ Well
       \/ (~caching \/ entry[m] = NoText) /\ Does(c, [w EXCEPT !.at = "find"]) /\ Well
       \/ caching /\ entry[m] # NoText /\ Does(c, [w EXCEPT !.at = "find"]) /\ Break /\ UNCHANGED overtaken
  /\ UNCHANGED <<upstream, docs, caching, caches, given, works>>

Find(c) ==
  /\ work[c].at = "find"
  /\ LET t == docs[work[c].map] IN
       Does(c, IF caching /\ t # NoText THEN [work[c] EXCEPT !.at = "fill", !.base = t]
               ELSE Got(work[c], t))
  /\ UNCHANGED <<upstream, docs, caching, caches, given, overtaken, works, breaks>>

Fill(c) ==
  /\ work[c].at = "fill"
  /\ LET m == work[c].map IN
       \/ /\ entry' = [entry EXCEPT ![m] = work[c].base]
          /\ Marks(IF work[c].base = docs[m] THEN {} ELSE {m}) /\ UNCHANGED breaks
       \/ UNCHANGED <<entry, overtaken>> /\ Break
  /\ Does(c, Got([work[c] EXCEPT !.base = NoText], work[c].base))
  /\ UNCHANGED <<upstream, docs, caching, lists, tracked, given, works>>

\* The pages are read, at length.  Without an answer the text stays as it is; the
\* form that creates a map stores none without an image.
Fetch(c) ==
  /\ work[c].at = "fetch" /\ work[c].job # "sync"
  /\ \E m \in work[c].todo : \E s \in Answers(m) :
       /\ Keeps(m, s)
       /\ Does(c, IF s = NoText \/ (work[c].job = "create" /\ ~s.image) THEN Rest
                  ELSE [work[c] EXCEPT !.at = "store", !.found[m] =
                          CASE work[c].job = "post" -> Migrated(work[c].base, s)
                            [] work[c].job = "import" -> Imported(s)
                            [] work[c].job = "create" -> Typed(s)])
  /\ UNCHANGED <<page, rich, access, docs, caching, caches, given, overtaken, works, breaks>>

\* A synchronisation reads in process all the pages it lacks, and stores those with
\* an image one by one.
FetchAll(c) ==
  /\ At(c, "sync", "fetch")
  /\ \E S \in SUBSET work[c].todo :
       Does(c, IF S = {} THEN Rest
               ELSE [work[c] EXCEPT !.at = "store", !.todo = S,
                       !.found = [m \in Pages |-> IF m \in S THEN Imported(Seed(m, page[m])) ELSE NoText]])
  /\ UNCHANGED <<upstream, docs, caching, caches, given, overtaken, works, breaks>>

TextDone(w) == IF w.todo = {w.map} THEN Rest
           ELSE [w EXCEPT !.at = "store", !.todo = @ \ {w.map}, !.found[w.map] = NoText, !.held = {}]

\* The document is replaced whole; a failure ends the task.
Store(c) ==
  /\ work[c].at = "store"
  /\ \/ \E m \in work[c].todo :
          LET w == [work[c] EXCEPT !.map = m] t == w.found[m] IN
            /\ docs' = [docs EXCEPT ![m] = t]
            /\ given' = IF w.job = "post" THEN given ELSE [given EXCEPT ![m] = t.tags]
            /\ Marks(IF w.job = "post" /\ docs[m] # w.base THEN {m} ELSE {})
            /\ Does(c, IF caching THEN [w EXCEPT !.at = "drop", !.base = NoText] ELSE TextDone(w))
            /\ UNCHANGED breaks
     \/ Does(c, Rest) /\ Break /\ UNCHANGED <<docs, given, overtaken>>
  /\ UNCHANGED <<upstream, caching, caches, works>>

-----------------------------------------------------------------------------
(* The cache follows a store.                                               *)

DropEntry(c) ==
  /\ work[c].at = "drop" /\ Does(c, [work[c] EXCEPT !.at = "keys"])
  /\ \/ entry' = [entry EXCEPT ![work[c].map] = NoText] /\ Well
     \/ UNCHANGED entry /\ Break /\ Marks({work[c].map})
  /\ UNCHANGED <<upstream, docs, caching, lists, tracked, given, works>>

\* The lists the map is known to be in; one being cached may not be among them yet.
Tracking(m) ==
  \E c \in TextTasks :
    /\ work[c].job = "list" /\ work[c].at \in {"track", "tracking"} /\ m \in work[c].todo
ReadKeys(c) ==
  /\ work[c].at = "keys"
  /\ LET m == work[c].map IN
       \/ /\ Does(c, [work[c] EXCEPT !.at = "lists", !.held = tracked[m]])
          /\ Marks(IF Tracking(m) THEN {m} ELSE {}) /\ UNCHANGED breaks
       \/ Does(c, TextDone(work[c])) /\ Break /\ Marks({m})
  /\ UNCHANGED <<upstream, docs, caching, caches, given, works>>

DropList(c) ==
  /\ work[c].at = "lists"
  /\ \/ \E k \in work[c].held :
          /\ lists' = [lists EXCEPT ![k] = NoText]
          /\ Does(c, [work[c] EXCEPT !.held = @ \ {k}]) /\ Well
     \/ work[c].held # {} /\ Does(c, TextDone(work[c])) /\ Break /\ Marks({work[c].map}) /\ UNCHANGED lists
  /\ UNCHANGED <<upstream, docs, caching, entry, tracked, given, works>>

\* A key noted since they were read goes with the rest.
Untrack(c) ==
  /\ work[c].at = "lists" /\ work[c].held = {} /\ Does(c, TextDone(work[c]))
  /\ LET m == work[c].map IN
       \/ /\ tracked' = [tracked EXCEPT ![m] = {}]
          /\ Marks(IF \E k \in tracked[m] : lists[k] # NoText THEN {m} ELSE {}) /\ UNCHANGED breaks
       \/ UNCHANGED <<tracked, overtaken>> /\ Break
  /\ UNCHANGED <<upstream, docs, caching, entry, lists, given, works>>

-----------------------------------------------------------------------------
(* The cached lists.                                                        *)

CacheList(c) ==
  /\ At(c, "list", "cache")
  /\ \/ /\ lists' = [lists EXCEPT ![work[c].key] = work[c].found]
        /\ Marks({m \in Pages : work[c].found[m] # docs[m]})
        /\ Does(c, [work[c] EXCEPT !.at = "track", !.found = Unread]) /\ UNCHANGED breaks
     \/ Does(c, Rest) /\ Break /\ UNCHANGED <<lists, overtaken>>
  /\ UNCHANGED <<upstream, docs, caching, entry, tracked, given, works>>

\* Map after map the keys are read, then written with this one.
ReadTracked(c) ==
  /\ At(c, "list", "track")
  /\ \/ \E m \in work[c].todo :
          Does(c, [work[c] EXCEPT !.at = "tracking", !.map = m, !.held = tracked[m]]) /\ Well
     \/ Does(c, Rest) /\ Break /\ Marks(work[c].todo)
  /\ UNCHANGED <<upstream, docs, caching, caches, given, works>>

Track(c) ==
  /\ At(c, "list", "tracking")
  /\ LET w == work[c] left == w.todo \ {w.map} IN
       \/ /\ tracked' = [tracked EXCEPT ![w.map] = w.held \cup {w.key}]
          /\ Marks(IF tracked[w.map] = w.held THEN {} ELSE {w.map}) /\ UNCHANGED breaks
          /\ Does(c, IF left = {} THEN Rest ELSE [w EXCEPT !.at = "track", !.todo = left, !.held = {}])
       \/ Does(c, Rest) /\ Break /\ Marks(w.todo) /\ UNCHANGED tracked
  /\ UNCHANGED <<upstream, docs, caching, entry, lists, given, works>>

\* What is cached expires; the keys of a map are written after its lists, so they
\* outlive them.
Expire ==
  /\ \/ \E m \in Pages : entry[m] # NoText /\ entry' = [entry EXCEPT ![m] = NoText]
                         /\ UNCHANGED <<lists, tracked>>
     \/ \E k \in Keys : lists[k] # NoText /\ lists' = [lists EXCEPT ![k] = NoText]
                        /\ UNCHANGED <<entry, tracked>>
     \/ \E m \in Pages : /\ tracked[m] # {} /\ \A k \in tracked[m] : lists[k] = NoText
                         /\ tracked' = [tracked EXCEPT ![m] = {}] /\ UNCHANGED <<entry, lists>>
  /\ UNCHANGED <<upstream, docs, caching, work, given, overtaken, works, breaks>>

Reads(c) == ReadEntry(c) \/ Find(c) \/ Fill(c) \/ Fetch(c) \/ FetchAll(c) \/ Store(c)
Follows(c) == DropEntry(c) \/ ReadKeys(c) \/ DropList(c) \/ Untrack(c)
Lists(c) == CacheList(c) \/ ReadTracked(c) \/ Track(c)
ContentNext ==
  \/ Upstream \/ Expire
  \/ \E c \in TextTasks, m \in Pages : Post(c, m) \/ ImportText(c, m) \/ CreateText(c, m)
  \/ \E c \in TextTasks : SyncTexts(c) \/ Reads(c) \/ Follows(c) \/ Lists(c)
  \/ \E c \in TextTasks, k \in Keys : ListTexts(c, k)
ContentSpec == ContentInit /\ [][ContentNext]_contentVars

-----------------------------------------------------------------------------
(* Properties.                                                              *)

Settling(m) == \E c \in TextTasks : work[c].map = m /\ work[c].at \in {"drop", "keys", "lists"}

\* A post that gives a text the present layout keeps the tags an import or a
\* synchronisation stored, and, once the store of a text has ended, neither its cached
\* copy nor a cached list holds another.  The maps left out are those for which one of
\* the races of the code was met, each marked where it bites: a text put in the cache,
\* in a list or back in the store after another was stored, a list being noted as one
\* is dropped, two notes of lists of one map; or for which a call of the cache failed
\* (FactionContentService.store, get and list_map_content, _migrate_stale_map_doc).
TextsFollow ==
  \A m \in Pages \ overtaken :
    /\ docs[m] # NoText => docs[m].tags = given[m]
    /\ Settling(m) \/ /\ entry[m] \in {NoText, docs[m]}
                      /\ \A k \in Keys : lists[k] = NoText \/ lists[k][m] = docs[m]

=============================================================================
