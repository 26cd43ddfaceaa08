----------------------------- MODULE GameForums -----------------------------
(***************************************************************************)
(* The forums that mirror a game's catalogue in the guilds: one post per   *)
(* map, per map pool and per faction.  A pass over a forum holds the lock  *)
(* of its guild; the refreshes that follow an administrator's change do    *)
(* not.  Every step is one awaited call, to MongoDB or to Discord, and any *)
(* call may fail.  The text of an entry is a version number, and so is the *)
(* fingerprint by which the bot remembers what a post shows: it hashes the *)
(* text, with a pool's name and state.  What the layout adds, its buttons, *)
(* is left out, and so are posts from before titles had an emoji.          *)
(***************************************************************************)
EXTENDS FiniteSets, Naturals

CONSTANTS
  Guilds, MapIds, PoolIds, FactionIds, Threads,
  Missing, Gone,  \* no value; a post that was deleted
  Tasks,       \* the refreshes that may run beside the passes
  MaxPasses, MaxRevisions, MaxFailures  \* bounds: passes, changes of an entry, faults

Entries == MapIds \cup PoolIds \cup FactionIds
Posts == [guild : Guilds, entry : Entries, version : Nat]

ASSUME ForumsAssumption ==
  /\ \A none \in {Missing, Gone} : none \notin Guilds \cup Entries \cup Threads \cup Nat \cup Posts
  /\ Missing # Gone
  /\ MapIds \cap PoolIds = {} /\ MapIds \cap FactionIds = {} /\ PoolIds \cap FactionIds = {}
  /\ {MaxPasses, MaxRevisions, MaxFailures} \subseteq Nat

Workers == Guilds \cup Tasks

VARIABLES
  text,        \* the version of each entry, Missing when it is deleted
  link,        \* the post recorded in the entry's document (one for all guilds)
  posts,       \* each post: its guild, its entry and the version it shows
  hidden,      \* the posts Discord archived: no longer in the bot's cache
  remembered,  \* the version the bot believes a post shows
  backoff,     \* the posts Discord refuses to edit for a while
  pass, pending, \* per guild: the forum being passed over and the entries left
  seen,        \* per guild: the entries, links and posts read when it began, and
               \* the twins among these, posts hidden by another of their title
  made,        \* per guild: the post just created, and its entry
  edit,        \* per worker: the edit under way
  calm,        \* history: guilds with no disturbance since their last pass over the
               \* pools began
  apart,       \* history: guilds whose last pass over the pools found no twins
  strayed,     \* history: a post of a map was created and not recorded
  passes, revisions, failures

bot == <<remembered, backoff, pass, pending, seen, made, edit>>
forumsVars == <<text, link, posts, hidden, bot, calm, apart, strayed, passes, revisions, failures>>
forumCounts == <<passes, revisions, failures>>

NoEdit == [post |-> Missing, entry |-> Missing, version |-> 0]
NoPass == [text |-> [e \in Entries |-> Missing], link |-> [e \in Entries |-> Missing], posts |-> {}, twins |-> {}]

ForumsInit ==
  /\ text = [e \in Entries |-> 0] /\ link = [e \in Entries |-> Missing]
  /\ posts = [t \in Threads |-> Missing] /\ hidden = {}
  /\ remembered = [t \in Threads |-> Missing] /\ backoff = {}
  /\ pass = [g \in Guilds |-> "idle"] /\ pending = [g \in Guilds |-> {}]
  /\ seen = [g \in Guilds |-> NoPass] /\ made = [g \in Guilds |-> Missing]
  /\ edit = [w \in Workers |-> NoEdit]
  /\ calm = {} /\ apart = {} /\ strayed = FALSE /\ passes = 0 /\ revisions = 0 /\ failures = 0

Live == {t \in Threads : posts[t] \notin {Missing, Gone}}
Visible(g) == {t \in Live \ hidden : posts[t].guild = g}
PostsOf(g, e) == {t \in Visible(g) : posts[t].entry = e}
Forum(kind) == CASE kind = "maps" -> MapIds [] kind = "pools" -> PoolIds [] kind = "factions" -> FactionIds
Failing == failures < MaxFailures /\ failures' = failures + 1

-----------------------------------------------------------------------------
(* A pass.  A name ending in _bug is a mutated form.                        *)

\* A dict of the posts by title keeps one of those that share a title.  The title
\* of a faction is its name; a pool's is made of its name and its state and may
\* lag behind both, so which posts of pools share one is left open.
Twins(kind, S) ==
  {K \in SUBSET S :
     /\ \A t \in K : kind # "maps" /\ \E s \in S \ K : kind = "pools" \/ posts[s].entry = posts[t].entry
     /\ kind = "factions" => \A s, t \in S \ K : posts[s].entry = posts[t].entry => s = t}
Titled(g) == seen[g].posts \ seen[g].twins

Wanted(kind) == {e \in Forum(kind) : text[e] # Missing}
Listed(g, kind) == {t \in Visible(g) : posts[t].entry \in Forum(kind)}
Start(g, kind) ==
  /\ pass[g] = "idle" /\ passes < MaxPasses /\ passes' = passes + 1
  /\ pass' = [pass EXCEPT ![g] = kind] /\ pending' = [pending EXCEPT ![g] = Wanted(kind)]
  /\ \E K \in Twins(kind, Listed(g, kind)) :
       /\ seen' = [seen EXCEPT ![g] = [text |-> text, link |-> link, posts |-> Listed(g, kind), twins |-> K]]
       /\ apart' = IF kind # "pools" THEN apart ELSE IF K = {} THEN apart \cup {g} ELSE apart \ {g}
  /\ calm' = IF kind = "pools" THEN calm \cup {g} ELSE calm
  /\ UNCHANGED <<text, link, posts, hidden, remembered, backoff, made, edit, strayed, revisions, failures>>

\* The post of an entry: a map's is asked of the bot's cache now, a pool's is
\* among the posts listed at the start, a faction's goes by its name.
MapPost_bug(g, e) == {t \in Visible(g) : t = link[e] /\ posts[t].version = text[e]}
MapPost(g, e) == {t \in Visible(g) : t = seen[g].link[e]}
PoolPost(g, e) == {t \in seen[g].posts : t = seen[g].link[e]}
FactionPost(g, e) == {t \in Titled(g) \cap Live : posts[t].entry = e}
Found(g, e) ==
  CASE e \in MapIds -> MapPost(g, e) [] e \in PoolIds -> PoolPost(g, e) [] OTHER -> FactionPost(g, e)

\* What a post would show: of a map what is stored now, of another entry what
\* was read when the pass began.
Rendered(g, e) == IF e \in MapIds THEN text[e] ELSE seen[g].text[e]

\* An edit begins, unless the post is unchanged or backed off.  A map's post
\* is remembered before the edit, a pool's after it, a faction's never.
Before(e, t, v) == IF e \in MapIds THEN [remembered EXCEPT ![t] = v] ELSE remembered
After_bug(e, t, v) == IF e \in PoolIds THEN [remembered EXCEPT ![t] = text[e]] ELSE remembered
After(e, t, v) == IF e \in PoolIds THEN [remembered EXCEPT ![t] = v] ELSE remembered
Editing(w, t, e, v) ==
  IF remembered[t] = v \/ t \in backoff THEN UNCHANGED <<edit, remembered>>
  ELSE /\ edit' = [edit EXCEPT ![w] = [post |-> t, entry |-> e, version |-> v]]
       /\ remembered' = Before(e, t, v)

Ready(g) == pass[g] # "idle" /\ edit[g] = NoEdit /\ made[g] = Missing
Visit(g) ==
  /\ Ready(g)
  /\ \E e \in pending[g] : \E t \in Found(g, e) :
       /\ pending' = [pending EXCEPT ![g] = @ \ {e}]
       /\ Editing(g, t, e, Rendered(g, e))
  /\ UNCHANGED <<text, link, posts, hidden, backoff, pass, seen, made, calm, apart, strayed, forumCounts>>

CreatePost(g) ==
  /\ Ready(g)
  /\ \E e \in pending[g], t \in Threads :
       /\ Found(g, e) = {} /\ posts[t] = Missing
       /\ posts' = [posts EXCEPT ![t] = [guild |-> g, entry |-> e, version |-> Rendered(g, e)]]
       /\ pending' = [pending EXCEPT ![g] = @ \ {e}]
       /\ made' = [made EXCEPT ![g] = IF e \in FactionIds THEN Missing ELSE t]
  /\ UNCHANGED <<text, link, hidden, remembered, backoff, pass, seen, edit, calm, apart, strayed, forumCounts>>

\* The new post is recorded in the entry, if both are still there.
Recorded(e, t) == [link EXCEPT ![e] = t]
Recordable(g) == made[g] \in Live /\ text[posts[made[g]].entry] # Missing
Record(g) ==
  /\ Recordable(g)
  /\ link' = Recorded(posts[made[g]].entry, made[g]) /\ made' = [made EXCEPT ![g] = Missing]
  /\ UNCHANGED <<text, posts, hidden, remembered, backoff, pass, pending, seen, edit, calm, apart, strayed, forumCounts>>

Ended(g) ==
  /\ pass' = [pass EXCEPT ![g] = "idle"] /\ pending' = [pending EXCEPT ![g] = {}]
  /\ seen' = [seen EXCEPT ![g] = NoPass] /\ made' = [made EXCEPT ![g] = Missing]

\* A record that fails is only logged for a pool; it ends a pass over maps.
Unrecorded(g) ==
  /\ made[g] # Missing /\ IF Recordable(g) THEN Failing ELSE UNCHANGED failures
  /\ \/ pass[g] = "pools" /\ made' = [made EXCEPT ![g] = Missing] /\ UNCHANGED <<pass, pending, seen, strayed>>
     \/ pass[g] = "maps" /\ Ended(g) /\ strayed' = TRUE
  /\ calm' = calm \ {g}
  /\ UNCHANGED <<text, link, posts, hidden, remembered, backoff, edit, apart, passes, revisions>>

\* Another call that fails ends the pass.
Abort(g) ==
  /\ Ready(g) /\ Failing /\ Ended(g) /\ calm' = calm \ {g}
  /\ UNCHANGED <<text, link, posts, hidden, remembered, backoff, edit, apart, strayed, passes, revisions>>

\* Posts listed at the start, but for twins, that belong to no entry listed then.
Linked(g) == {seen[g].link[e] : e \in {e \in PoolIds : seen[g].text[e] # Missing}}
PoolOrphans_bug(g) == {t \in Titled(g) : \A e \in PoolIds : t # link[e] /\ link[e] # Missing}
PoolOrphans(g) == Titled(g) \ Linked(g)
FactionOrphans(g) == {t \in Titled(g) \cap Live : seen[g].text[posts[t].entry] = Missing}
Orphans(g) ==
  CASE pass[g] = "pools" -> PoolOrphans(g) [] pass[g] = "factions" -> FactionOrphans(g) [] OTHER -> {}

\* A post that cannot be deleted is left to the next pass.
Sweep(g) ==
  /\ Ready(g) /\ pending[g] = {}
  /\ \E t \in Orphans(g) :
       /\ seen' = [seen EXCEPT ![g].posts = @ \ {t}]
       /\ \/ posts' = [posts EXCEPT ![t] = Gone] /\ UNCHANGED <<calm, failures>>
          \/ Failing /\ calm' = calm \ {g} /\ UNCHANGED posts
  /\ UNCHANGED <<text, link, hidden, remembered, backoff, pass, pending, made, edit, apart, strayed, passes, revisions>>

Finish(g) ==
  /\ Ready(g) /\ pending[g] = {} /\ Orphans(g) = {} /\ Ended(g)
  /\ UNCHANGED <<text, link, posts, hidden, remembered, backoff, edit, calm, apart, strayed, forumCounts>>

-----------------------------------------------------------------------------
(* Refreshes, and the edits of both.                                        *)

RefreshMap(w, e) ==
  /\ edit[w] = NoEdit
  /\ \E g \in Guilds : \E t \in PostsOf(g, e) \cap {link[e]} : Editing(w, t, e, text[e])
  /\ UNCHANGED <<text, link, posts, hidden, backoff, pass, pending, seen, made, calm, apart, strayed, forumCounts>>

RefreshPool(w, e) ==
  /\ edit[w] = NoEdit /\ text[e] # Missing
  /\ \E g \in Guilds : \E t \in Visible(g) \cap {link[e]} : Editing(w, t, e, text[e])
  /\ UNCHANGED <<text, link, posts, hidden, backoff, pass, pending, seen, made, calm, apart, strayed, forumCounts>>

Apply(w) ==
  /\ edit[w].post \in Live
  /\ posts' = [posts EXCEPT ![edit[w].post].version = edit[w].version]
  /\ remembered' = After(edit[w].entry, edit[w].post, edit[w].version)
  /\ edit' = [edit EXCEPT ![w] = NoEdit]
  /\ UNCHANGED <<text, link, hidden, backoff, pass, pending, seen, made, calm, apart, strayed, forumCounts>>

\* An edit that fails is dropped; refused as too old, it backs the post off.
EditFails(w) ==
  /\ edit[w] # NoEdit /\ IF edit[w].post \in Live THEN Failing ELSE UNCHANGED failures
  /\ edit' = [edit EXCEPT ![w] = NoEdit]
  /\ backoff' \in {backoff, backoff \cup {edit[w].post}}
  /\ UNCHANGED <<text, link, posts, hidden, remembered, pass, pending, seen, made, calm, apart, strayed, passes, revisions>>

BackoffEnds(t) ==
  /\ t \in backoff /\ backoff' = backoff \ {t}
  /\ UNCHANGED <<text, link, posts, hidden, remembered, pass, pending, seen, made, edit, calm, apart, strayed, forumCounts>>

-----------------------------------------------------------------------------
(* The surroundings: the catalogue changes, posts disappear, the bot stops. *)

Change(e) ==
  /\ revisions < MaxRevisions /\ revisions' = revisions + 1
  /\ \/ text[e] # Missing /\ text' = [text EXCEPT ![e] = @ + 1] /\ UNCHANGED <<link, calm>>
     \/ e \in PoolIds \cup FactionIds /\ calm' = {} /\ link' = [link EXCEPT ![e] = Missing]
        /\ text' = [text EXCEPT ![e] = IF @ = Missing THEN revisions ELSE Missing]
  /\ UNCHANGED <<posts, hidden, bot, apart, strayed, passes, failures>>

\* A pool deleted by an administrator takes its post with it, if that succeeds.
DeletePool(e) ==
  /\ revisions < MaxRevisions /\ revisions' = revisions + 1 /\ text[e] # Missing
  /\ text' = [text EXCEPT ![e] = Missing] /\ link' = [link EXCEPT ![e] = Missing] /\ calm' = {}
  /\ posts' = [t \in Threads |-> IF t = link[e] /\ t \in Live THEN Gone ELSE posts[t]]
  /\ UNCHANGED <<hidden, bot, apart, strayed, passes, failures>>

\* After a change of language every post is to be rendered again.
ForgetRenders ==
  /\ revisions < MaxRevisions /\ revisions' = revisions + 1
  /\ remembered' = [t \in Threads |-> Missing]
  /\ UNCHANGED <<text, link, posts, hidden, backoff, pass, pending, seen, made, edit, calm, apart, strayed, passes, failures>>

\* An overlapping write of the document takes the link back.
LoseLink(e) ==
  /\ Failing /\ link[e] # Missing /\ link' = [link EXCEPT ![e] = Missing] /\ calm' = {}
  /\ strayed' = (strayed \/ e \in MapIds)
  /\ UNCHANGED <<text, posts, hidden, bot, apart, passes, revisions>>

Disappear(t) ==
  /\ Failing /\ t \in Live \ hidden /\ calm' = {}
  /\ \/ posts' = [posts EXCEPT ![t] = Gone] /\ UNCHANGED hidden
     \/ hidden' = hidden \cup {t} /\ UNCHANGED posts
  /\ UNCHANGED <<text, link, bot, apart, strayed, passes, revisions>>

BotRestarts ==
  /\ Failing /\ calm' = {} /\ strayed' = (strayed \/ \E g \in Guilds : pass[g] = "maps" /\ made[g] # Missing)
  /\ remembered' = [t \in Threads |-> Missing] /\ backoff' = {}
  /\ pass' = [g \in Guilds |-> "idle"] /\ pending' = [g \in Guilds |-> {}]
  /\ seen' = [g \in Guilds |-> NoPass] /\ made' = [g \in Guilds |-> Missing]
  /\ edit' = [w \in Workers |-> NoEdit]
  /\ UNCHANGED <<text, link, posts, hidden, apart, passes, revisions>>

ForumsNext ==
  \/ \E g \in Guilds :
       \/ \E kind \in {"maps", "pools", "factions"} : Start(g, kind)
       \/ Visit(g) \/ CreatePost(g) \/ Record(g) \/ Unrecorded(g) \/ Abort(g) \/ Sweep(g) \/ Finish(g)
  \/ \E w \in Tasks : (\E e \in MapIds : RefreshMap(w, e)) \/ \E e \in PoolIds : RefreshPool(w, e)
  \/ \E w \in Workers : Apply(w) \/ EditFails(w)
  \/ \E t \in Threads : BackoffEnds(t) \/ Disappear(t)
  \/ \E e \in Entries : Change(e) \/ LoseLink(e)
  \/ \E e \in PoolIds : DeletePool(e)
  \/ ForgetRenders \/ BotRestarts

ForumsSpec == ForumsInit /\ [][ForumsNext]_forumsVars

-----------------------------------------------------------------------------
\* Every variable keeps its type.
ForumsTypeOK ==
  /\ text \in [Entries -> Nat \cup {Missing}] /\ link \in [Entries -> Threads \cup {Missing}]
  /\ posts \in [Threads -> Posts \cup {Missing, Gone}]
  /\ hidden \subseteq Threads /\ backoff \subseteq Threads
  /\ calm \subseteq Guilds /\ apart \subseteq Guilds /\ strayed \in BOOLEAN
  /\ remembered \in [Threads -> Nat \cup {Missing}]
  /\ pass \in [Guilds -> {"idle", "maps", "pools", "factions"}]
  /\ pending \in [Guilds -> SUBSET Entries] /\ made \in [Guilds -> Threads \cup {Missing}]
  /\ seen \in [Guilds -> [text : [Entries -> Nat \cup {Missing}], link : [Entries -> Threads \cup {Missing}],
                          posts : SUBSET Threads, twins : SUBSET Threads]]
  /\ edit \in [Workers -> [post : Threads \cup {Missing}, entry : Entries \cup {Missing}, version : Nat]]
  /\ {passes, revisions, failures} \subseteq Nat

\* A pass over the pools of a guild that nothing disturbs leaves a post for every
\* pool, whatever was there before; if no two posts it found shared a title, it
\* leaves one for every pool and none for a pool that is gone ("Ensure every
\* game's pools forum and one post per pool (idempotent)" holds of no other
\* pass: the sweep does not see a post whose title another one bears).  However
\* passes, refreshes and failures interleave, what is remembered of a pool's post
\* is what it shows, so no later change is taken for shown.  In a catalogue that
\* one guild mirrors, a map has at most one post, as long as every post created
\* was recorded.
PoolsMirrored ==
  /\ \A g \in calm : pass[g] # "pools" => \A e \in PoolIds :
       /\ text[e] # Missing => PostsOf(g, e) # {}
       /\ g \in apart => Cardinality(PostsOf(g, e)) = IF text[e] = Missing THEN 0 ELSE 1
  /\ \A t \in Live : posts[t].entry \in PoolIds /\ remembered[t] # Missing =>
       remembered[t] = posts[t].version
  /\ (\A g, h \in Guilds : g = h) /\ ~strayed =>
       \A g \in Guilds, e \in MapIds : Cardinality(PostsOf(g, e)) <= 1
=============================================================================
