---------------------------- MODULE PlayersPanel ----------------------------
(***************************************************************************)
(* What a players panel is drawn from: the roster of the guild, fetched    *)
(* once an hour and kept by the join and leave events, and the statistics  *)
(* of the profiles, in Redis in front of MongoDB in front of the provider. *)
(* A panel only reads the two caches; the job it leaves behind asks the    *)
(* provider.  Every bound user has one profile, which bears his name here. *)
(* A name ending in _bug is a mutated form.                                *)
(***************************************************************************)
EXTENDS Naturals, Sequences

CONSTANTS
  Viewed,     \* the users with a bound profile
  Panels,    \* the panels that may be open at once
  Nobody,    \* no user
  MaxMoves, MaxPlays, MaxMishaps  \* bounds: joins and leaves, matches played, mishaps

ASSUME PlayersPanelAssumption ==
  Nobody \notin Viewed /\ {MaxMoves, MaxPlays, MaxMishaps} \subseteq Nat

VARIABLES
  members,   \* Discord: who is in the guild
  gateway,   \* Discord: the events on their way to the bot
  roster,    \* the cached roster and its age
  fetch,     \* the fetch under way: of which panel, what Discord answered, what was cached
  panel,     \* per panel: its step, who is still to check, who is kept, the profiles
             \* still to read, the profile being read and what was read of it
  job,       \* per panel: the refresh it left behind, likewise
  redis,     \* per profile: the statistics Redis serves
  copy,      \* per profile: the statistics MongoDB holds, and whether they are old
  played,    \* the provider: how many matches each profile has played
  missed,   \* history: users with an event delivered during a fetch, or lost
  shared,    \* history: profiles that two readers worked on at once, or whose write failed
  moves, mishaps

memberVars == <<members, gateway, roster, fetch, missed, moves>>
statVars == <<redis, copy, played, shared>>
panelVars == <<memberVars, statVars, panel, job, mishaps>>

Missing == 0    \* no statistics; those after the n-th match are the number n
NoFetch == [by |-> Nobody, seen |-> {}, answered |-> FALSE, was |-> {}, cached |-> FALSE]
Closed == [at |-> "closed", unchecked |-> {}, kept |-> {}, todo |-> {}, x |-> Nobody, held |-> Missing]
NoJob == [at |-> "none", todo |-> {}, x |-> Nobody, held |-> Missing]

PanelsInit ==
  /\ members \in SUBSET Viewed /\ gateway = << >>
  /\ roster = [age |-> "none", who |-> {}] /\ fetch = NoFetch
  /\ panel = [p \in Panels |-> Closed] /\ job = [p \in Panels |-> NoJob]
  /\ redis = [x \in Viewed |-> Missing]
  /\ copy = [x \in Viewed |-> [stats |-> Missing, old |-> TRUE]]
  /\ played = [x \in Viewed |-> 1]
  /\ missed = {} /\ shared = {} /\ moves = 0 /\ mishaps = 0

Mishap == mishaps < MaxMishaps /\ mishaps' = mishaps + 1

-----------------------------------------------------------------------------
(* The guild: its members move, the bot hears of it, or not.                *)

Move(u) ==
  /\ moves < MaxMoves /\ moves' = moves + 1
  /\ members' = IF u \in members THEN members \ {u} ELSE members \cup {u}
  /\ gateway' = Append(gateway, [who |-> u, joins |-> u \notin members])
  /\ UNCHANGED <<roster, fetch, missed, statVars, panel, job, mishaps>>

Moved(who, event) == IF event.joins THEN who \cup {event.who} ELSE who \ {event.who}

\* An event changes the roster there is, whatever its age.
Deliver ==
  /\ gateway # << >> /\ gateway' = Tail(gateway)
  /\ roster' = IF roster.age = "none" THEN roster
               ELSE [roster EXCEPT !.who = Moved(@, Head(gateway))]
  /\ missed' = IF fetch.answered /\ Moved(fetch.seen, Head(gateway)) # fetch.seen
                THEN missed \cup {Head(gateway).who} ELSE missed
  /\ UNCHANGED <<members, fetch, moves, statVars, panel, job, mishaps>>

\* The gateway session is lost with the events that were under way.
Reidentify ==
  /\ Mishap /\ gateway # << >> /\ gateway' = << >>
  /\ missed' = missed \cup {gateway[i].who : i \in DOMAIN gateway}
  /\ UNCHANGED <<members, roster, fetch, moves, statVars, panel, job>>

RosterAges ==
  /\ roster.age = "fresh" /\ roster' = [roster EXCEPT !.age = "old"]
  /\ UNCHANGED <<members, gateway, fetch, missed, moves, statVars, panel, job, mishaps>>

-----------------------------------------------------------------------------
(* A panel checks the users one by one; with a fresh roster it does so at   *)
(* once, else it fetches one.  An empty roster turns nobody away.           *)

Admitted(us, who) == IF who = {} THEN us ELSE us \cap who

\* Where a panel goes on with its checks, given the roster and nobody fetching.
\* Having checked all it reads the statistics; having read them it is drawn.
Proceed(p, unchecked, kept, r) ==
  LET asks == panel[p].at \in {"drawn", "labels"} IN
  CASE asks /\ (r.age = "fresh" \/ panel[p].at = "labels") ->
         panel' = [panel EXCEPT ![p] = Closed] /\ fetch' = NoFetch
    [] ~asks /\ (unchecked = {} \/ r.age = "fresh") ->
         /\ LET all == kept \cup Admitted(unchecked, r.who) IN
            panel' = [panel EXCEPT ![p] = [Closed EXCEPT !.at = "stats", !.kept = all, !.todo = all]]
         /\ fetch' = NoFetch
    [] OTHER ->
         /\ panel' = [panel EXCEPT ![p].at = IF asks THEN "labels" ELSE "members",
                                   ![p].unchecked = unchecked, ![p].kept = kept]
         /\ fetch' = [NoFetch EXCEPT !.by = p, !.was = r.who, !.cached = r.age # "none"]

\* While another panel fetches, this one awaits the coroutine of that fetch, which is
\* already awaited: an error that ends it.
AskRoster(p, unchecked) ==
  IF roster.age = "fresh" \/ fetch.by = Nobody THEN Proceed(p, unchecked, {}, roster)
  ELSE panel' = [panel EXCEPT ![p] = Closed] /\ UNCHANGED fetch

Open(p) ==
  /\ panel[p].at = "closed" /\ job[p].at = "none"
  /\ AskRoster(p, Viewed)
  /\ UNCHANGED <<members, gateway, roster, missed, moves, statVars, job, mishaps>>

\* Discord answers with its members of that moment.
Answers ==
  /\ fetch.by # Nobody /\ ~fetch.answered
  /\ fetch' = [fetch EXCEPT !.seen = members, !.answered = TRUE]
  /\ UNCHANGED <<members, gateway, roster, missed, moves, statVars, panel, job, mishaps>>

\* The user the panel was at is admitted by what the fetch returned.
Resume(p, who, r) ==
  IF panel[p].at = "labels" THEN Proceed(p, {}, {}, r)
  ELSE \E u \in panel[p].unchecked :
         Proceed(p, panel[p].unchecked \ {u}, panel[p].kept \cup Admitted({u}, who), r)

\* An empty first answer is not believed; any other replaces the roster.
Fetched(p) ==
  /\ fetch.by = p /\ fetch.answered
  /\ roster' = IF fetch.seen = {} /\ ~fetch.cached THEN roster ELSE [age |-> "fresh", who |-> fetch.seen]
  /\ Resume(p, fetch.seen, roster')
  /\ UNCHANGED <<members, gateway, missed, moves, statVars, job, mishaps>>

\* The stale roster is stored again as if it had been fetched.
FetchFails_bug(p) ==
  /\ Mishap /\ fetch.by = p
  /\ roster' = IF fetch.cached THEN [age |-> "fresh", who |-> fetch.was] ELSE roster
  /\ Resume(p, fetch.was, roster')
  /\ UNCHANGED <<members, gateway, missed, moves, statVars, job>>

\* A failed fetch returns what was cached when it began, and stores nothing.
FetchFails(p) ==
  /\ Mishap /\ fetch.by = p
  /\ Resume(p, fetch.was, roster)
  /\ UNCHANGED <<members, gateway, roster, missed, moves, statVars, job>>

-----------------------------------------------------------------------------
(* The statistics.  A panel takes what Redis has, else what MongoDB has,    *)
(* however old, and puts that into Redis.                                   *)

\* Somebody else is between a read and a write of the profile.
Shared(x, me) == \E p \in Panels : (panel[p].x = x \/ job[p].x = x) /\ p # me
Lapping(x, p) == shared' = IF Shared(x, p) THEN shared \cup {x} ELSE shared

ReadRedis(p, x) ==
  /\ panel[p].at = "stats" /\ x \in panel[p].todo
  /\ IF redis[x] # Missing
     THEN panel' = [panel EXCEPT ![p].todo = @ \ {x}] /\ UNCHANGED shared
     ELSE panel' = [panel EXCEPT ![p].at = "copy", ![p].x = x] /\ Lapping(x, p)
  /\ UNCHANGED <<memberVars, redis, copy, played, job, mishaps>>

ReadOn(p) == [panel[p] EXCEPT !.at = "stats", !.todo = @ \ {panel[p].x}, !.x = Nobody, !.held = Missing]

ReadCopy(p) ==
  /\ panel[p].at = "copy"
  /\ LET stored == copy[panel[p].x].stats IN
     panel' = [panel EXCEPT ![p] = IF stored = Missing THEN ReadOn(p)
                                   ELSE [@ EXCEPT !.at = "warm", !.held = stored]]
  /\ UNCHANGED <<memberVars, statVars, job, mishaps>>

Warm(p) ==
  /\ panel[p].at = "warm"
  /\ \/ redis' = [redis EXCEPT ![panel[p].x] = panel[p].held] /\ UNCHANGED mishaps
     \/ Mishap /\ UNCHANGED redis
  /\ panel' = [panel EXCEPT ![p] = ReadOn(p)]
  /\ UNCHANGED <<memberVars, copy, played, shared, job>>

\* With all of them read, the refresh is scheduled and the panel reads the roster again.
Schedule(p) ==
  /\ panel[p].at = "stats" /\ panel[p].todo = {}
  /\ job' = [job EXCEPT ![p] = [NoJob EXCEPT !.at = "stats", !.todo = panel[p].kept]]
  /\ panel' = [panel EXCEPT ![p] = [Closed EXCEPT !.at = "drawn"]]
  /\ UNCHANGED <<memberVars, statVars, mishaps>>

Draw(p) ==
  /\ panel[p].at = "drawn" /\ AskRoster(p, {})
  /\ UNCHANGED <<members, gateway, roster, missed, moves, statVars, job, mishaps>>

-----------------------------------------------------------------------------
(* The refresh leaves alone what Redis still serves.                        *)

Skip(p) == [job[p] EXCEPT !.at = "stats", !.todo = @ \ {job[p].x}, !.x = Nobody, !.held = Missing]

JobLooks(p, x) ==
  /\ job[p].at = "stats" /\ x \in job[p].todo
  /\ IF redis[x] # Missing
     THEN job' = [job EXCEPT ![p].todo = @ \ {x}] /\ UNCHANGED shared
     ELSE job' = [job EXCEPT ![p].at = "copy", ![p].x = x] /\ Lapping(x, p)
  /\ UNCHANGED <<memberVars, redis, copy, played, panel, mishaps>>

\* A copy that is not old is served again, else the provider is asked.
JobReads(p) ==
  /\ job[p].at = "copy"
  /\ LET c == copy[job[p].x] IN
     job' = [job EXCEPT ![p].at = IF c.old THEN "provider" ELSE "warm", ![p].held = c.stats]
  /\ UNCHANGED <<memberVars, statVars, panel, mishaps>>

JobAsks(p) ==
  /\ job[p].at = "provider"
  /\ \/ /\ job' = [job EXCEPT ![p].at = "store", ![p].held = played[job[p].x]]
        /\ UNCHANGED mishaps
     \/ Mishap /\ job' = [job EXCEPT ![p] = Skip(p)]
  /\ UNCHANGED <<memberVars, statVars, panel>>

\* The copy is replaced, never inserted.
JobStores_bug(p) ==
  /\ job[p].at = "store" /\ job' = [job EXCEPT ![p].at = "warm"]
  /\ copy' = IF copy[job[p].x].stats = Missing THEN copy
             ELSE [copy EXCEPT ![job[p].x] = [stats |-> job[p].held, old |-> FALSE]]
  /\ UNCHANGED <<memberVars, redis, played, shared, panel, mishaps>>

\* The copy first; Redis is written even when the copy could not be.
JobStores(p) ==
  /\ job[p].at = "store" /\ job' = [job EXCEPT ![p].at = "warm"]
  /\ \/ /\ copy' = [copy EXCEPT ![job[p].x] = [stats |-> job[p].held, old |-> FALSE]]
        /\ UNCHANGED <<shared, mishaps>>
     \/ Mishap /\ shared' = shared \cup {job[p].x} /\ UNCHANGED copy
  /\ UNCHANGED <<memberVars, redis, played, panel>>

JobWarms(p) ==
  /\ job[p].at = "warm" /\ job' = [job EXCEPT ![p] = Skip(p)]
  /\ \/ redis' = [redis EXCEPT ![job[p].x] = job[p].held] /\ UNCHANGED mishaps
     \/ Mishap /\ UNCHANGED redis
  /\ UNCHANGED <<memberVars, copy, played, shared, panel>>

JobEnds(p) ==
  /\ job[p].at = "stats" /\ job[p].todo = {} /\ job' = [job EXCEPT ![p] = NoJob]
  /\ UNCHANGED <<memberVars, statVars, panel, mishaps>>

-----------------------------------------------------------------------------
(* Time, the players and the process.                                       *)

Expires(x) ==
  /\ redis[x] # Missing /\ redis' = [redis EXCEPT ![x] = Missing]
  /\ UNCHANGED <<memberVars, copy, played, shared, panel, job, mishaps>>

\* Ten minutes outlast a job.
CopyAges(x) ==
  /\ ~copy[x].old /\ \A p \in Panels : job[p].at = "none"
  /\ copy' = [copy EXCEPT ![x].old = TRUE]
  /\ UNCHANGED <<memberVars, redis, played, shared, panel, job, mishaps>>

Play(x) ==
  /\ played[x] <= MaxPlays /\ played' = [played EXCEPT ![x] = @ + 1]
  /\ UNCHANGED <<memberVars, redis, copy, shared, panel, job, mishaps>>

Restart ==
  /\ Mishap /\ roster' = [age |-> "none", who |-> {}] /\ fetch' = NoFetch
  /\ panel' = [p \in Panels |-> Closed] /\ job' = [p \in Panels |-> NoJob] /\ gateway' = << >>
  /\ UNCHANGED <<members, missed, moves, statVars>>

PanelStep(p) ==
  \/ Open(p) \/ Fetched(p) \/ FetchFails(p) \/ ReadCopy(p) \/ Warm(p) \/ Schedule(p) \/ Draw(p)
  \/ \E x \in Viewed : ReadRedis(p, x)
JobStep(p) ==
  \/ JobReads(p) \/ JobAsks(p) \/ JobStores(p) \/ JobWarms(p) \/ JobEnds(p)
  \/ \E x \in Viewed : JobLooks(p, x)

PanelsNext ==
  \/ Deliver \/ Reidentify \/ RosterAges \/ Answers \/ Restart
  \/ \E u \in Viewed : Move(u) \/ Expires(u) \/ CopyAges(u) \/ Play(u)
  \/ \E p \in Panels : PanelStep(p) \/ JobStep(p)

PanelsSpec == PanelsInit /\ [][PanelsNext]_panelVars

-----------------------------------------------------------------------------
(* Properties.                                                              *)

Events == [who : Viewed, joins : BOOLEAN]
Rosters == [age : {"none", "fresh", "old"}, who : SUBSET Viewed]

PanelsTypeOK ==
  /\ members \subseteq Viewed /\ gateway \in Seq(Events) /\ roster \in Rosters
  /\ fetch \in [by : Panels \cup {Nobody}, seen : SUBSET Viewed, answered : BOOLEAN,
                was : SUBSET Viewed, cached : BOOLEAN]
  /\ panel \in [Panels -> [at : {"closed", "members", "stats", "copy", "warm", "drawn", "labels"},
                           unchecked : SUBSET Viewed, kept : SUBSET Viewed,
                           todo : SUBSET Viewed, x : Viewed \cup {Nobody}, held : Nat]]
  /\ job \in [Panels -> [at : {"none", "stats", "copy", "provider", "store", "warm"},
                         todo : SUBSET Viewed, x : Viewed \cup {Nobody}, held : Nat]]
  /\ redis \in [Viewed -> Nat] /\ copy \in [Viewed -> [stats : Nat, old : BOOLEAN]]
  /\ played \in [Viewed -> Nat]
  /\ missed \subseteq Viewed /\ shared \subseteq Viewed /\ {moves, mishaps} \subseteq Nat

\* Whether the bot will count the user, once the events under way have arrived,
\* if it counts who is in that set now: the last event of his decides.
Pending(u) == \E i \in DOMAIN gateway : gateway[i].who = u
Joining(u) ==
  \E i \in DOMAIN gateway :
     /\ gateway[i] = [who |-> u, joins |-> TRUE]
     /\ \A j \in DOMAIN gateway : j > i => gateway[j].who # u
Heard(who, u) == IF Pending(u) THEN Joining(u) ELSE u \in who

\* The roster is the guild's once the events under way have arrived, save for the users
\* whose event arrived between the answer of a fetch and the end of it, or never: the
\* fetch, its failures and the events may come in any order.
RosterFollows ==
  roster.age # "none" => \A u \in Viewed \ missed : Heard(roster.who, u) <=> u \in members

\* What Redis serves of a profile is what MongoDB holds, unless two readers worked on the
\* profile at once or the write of the copy failed.
StatsAgree == \A x \in DOMAIN redis \ shared : redis[x] # Missing => redis[x] = copy[x].stats

\* Both: the cached roster follows the guild (member_cache.guild_members), and
\* the two stores agree (ProfileStatsService).
PanelsFollow == RosterFollows /\ StatsAgree
=============================================================================
