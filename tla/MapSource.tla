----------------------------- MODULE MapSource -----------------------------
(***************************************************************************)
(* The access to Liquipedia: the pace of the requests, the retries when it *)
(* answers "too many" (429) and the circuit that opens when they are       *)
(* exhausted.  The clocks belong to the process, the calls come from       *)
(* worker threads that nothing serializes: imports of one map, or of a     *)
(* list, and the enrichment of all of them by a button with a cooldown of  *)
(* its own.  The probe (ping), which nothing calls, is left out.  Times    *)
(* are in units of the shortest interval.  A name ending in _bug is a      *)
(* mutated form.                                                           *)
(***************************************************************************)
EXTENDS Naturals, Sequences

CONSTANTS
  Askers,
  Requests,    \* the requests of each job: a map is one parse, then its image and the
               \* licence of it, if it has one; the enrichment is queries only
  Interval,    \* the least time between two requests of a kind
  Backoff, MaxRetries,  \* the first wait after a 429 (it doubles), the retries
  Window, MaxWindow,    \* the first time the circuit stays open (it doubles), the cap
  Cooldown,    \* of the button
  FirstTime, MaxTime, MaxJobs, MaxErrors  \* bounds: the clock, jobs, answers that are no success

Kinds == {"parse", "query"}

ASSUME MapSourceAssumption ==
  /\ Requests \in [{"import", "sync"} -> Seq(Kinds) \ {<< >>}]
  /\ Interval \in [Kinds -> Nat \ {0}] /\ {Backoff, Window, MaxWindow, Cooldown} \subseteq Nat \ {0}
  /\ {MaxRetries, FirstTime, MaxTime, MaxJobs, MaxErrors} \subseteq Nat

VARIABLES
  now, marked,         \* the clock, the time of the last request of each kind
  openUntil, streak,   \* the circuit, the calls in a row that opened it
  doneAt,              \* when the button was last pressed, or last done
  step, plan, tries, due, attempt,  \* per caller: step, requests left, titles left to
                       \* try, end of its sleep, retries made
  job,                 \* per caller: what it was called for
  overlapped,          \* history: two jobs ran at once
  sent, tight,         \* history, until then: the last request of each kind, two came
                       \* too close
  refused, shutAt, broke,  \* history, until then: calls in a row refused to the end,
                       \* when the last was, a request left before its window lapsed
  after,               \* history: requests of each caller since the circuit opened
  jobs, errors

clocks == <<now, marked, openUntil, streak, doneAt>>
threads == <<step, plan, tries, due, attempt, job>>
pace == <<sent, tight, refused, shutAt, broke>>
sourceVars == <<clocks, threads, pace, after, overlapped, jobs, errors>>

SourceInit ==
  /\ now = FirstTime /\ marked = [k \in Kinds |-> 0] /\ openUntil = 0 /\ streak = 0 /\ doneAt = 0
  /\ step = [c \in Askers |-> "idle"] /\ plan = [c \in Askers |-> << >>]
  /\ tries = [c \in Askers |-> 0] /\ due = [c \in Askers |-> 0]
  /\ attempt = [c \in Askers |-> 0] /\ job = [c \in Askers |-> "none"]
  /\ sent = [k \in Kinds |-> 0] /\ tight = FALSE /\ refused = 0 /\ shutAt = 0 /\ broke = FALSE
  /\ after = [c \in Askers |-> 0] /\ overlapped = FALSE /\ jobs = 0 /\ errors = 0

Least(a, b) == IF a < b THEN a ELSE b
Most(a, b) == IF a < b THEN b ELSE a
AtWork == {c \in Askers : step[c] # "idle"}
Kind(c) == Head(plan[c])
Open == now < openUntil

-----------------------------------------------------------------------------
(* The jobs.                                                                *)

Job(c, what) ==
  /\ step[c] = "idle" /\ jobs < MaxJobs /\ jobs' = jobs + 1
  /\ step' = [step EXCEPT ![c] = "ask"] /\ plan' = [plan EXCEPT ![c] = Requests[what]]
  /\ job' = [job EXCEPT ![c] = what] /\ overlapped' = (overlapped \/ AtWork # {})
  /\ IF overlapped' THEN sent' = [k \in Kinds |-> 0] /\ refused' = 0 /\ shutAt' = 0
     ELSE UNCHANGED <<sent, refused, shutAt>>
  /\ UNCHANGED <<tight, broke>>

\* An import tries the title as given, then capitalized.
ImportMap(c) ==
  /\ Job(c, "import") /\ \E n \in 0..1 : tries' = [tries EXCEPT ![c] = n]
  /\ UNCHANGED <<clocks, due, attempt, after, errors>>

\* The button refuses a click too soon after the last one, or after its answer.
Sync(c) ==
  /\ now >= doneAt + Cooldown /\ doneAt' = now /\ Job(c, "sync")
  /\ UNCHANGED <<now, marked, openUntil, streak, tries, due, attempt, after, errors>>

\* A job ends on its answer, or on an error no one retries.
Leave(c) ==
  /\ step' = [step EXCEPT ![c] = "idle"] /\ plan' = [plan EXCEPT ![c] = << >>]
  /\ tries' = [tries EXCEPT ![c] = 0] /\ due' = [due EXCEPT ![c] = 0]
  /\ attempt' = [attempt EXCEPT ![c] = 0] /\ job' = [job EXCEPT ![c] = "none"]
  /\ doneAt' = IF job[c] = "sync" THEN now ELSE doneAt

\* A circuit found open and a page that does not exist are alike to an import:
\* it tries its next title.
NextTitle(c) ==
  IF tries[c] = 0 THEN Leave(c)
  ELSE /\ step' = [step EXCEPT ![c] = "ask"] /\ tries' = [tries EXCEPT ![c] = @ - 1]
       /\ plan' = [plan EXCEPT ![c] = Requests.import]
       /\ attempt' = [attempt EXCEPT ![c] = 0] /\ UNCHANGED <<due, job, doneAt>>

-----------------------------------------------------------------------------
(* One request.                                                             *)

\* The circuit is looked at once, when the call begins; the pace looks at the
\* requests of the same kind only.
FailFast_bug == FALSE
FailFast == Open
Ask(c) ==
  /\ step[c] = "ask"
  /\ IF FailFast THEN NextTitle(c)
     ELSE /\ step' = [step EXCEPT ![c] = "pace"]
          /\ due' = [due EXCEPT ![c] = Most(now, marked[Kind(c)] + Interval[Kind(c)])]
          /\ UNCHANGED <<plan, tries, attempt, job, doneAt>>
  /\ UNCHANGED <<now, marked, openUntil, streak, pace, after, overlapped, jobs, errors>>

\* The mark is set once the wait is over.
Mark_bug(c) == [marked EXCEPT ![Kind(c)] = due[c] - Interval[Kind(c)]]
Mark(c) == [marked EXCEPT ![Kind(c)] = now]
\* How long the circuit stays open after that many refusals in a row.
Stretch(n) == Least(Window * 2 ^ (n - 1), MaxWindow)

Send(c) ==
  /\ step[c] = "pace" /\ now >= due[c] /\ step' = [step EXCEPT ![c] = "sent"]
  /\ marked' = Mark(c) /\ sent' = IF overlapped THEN sent ELSE [sent EXCEPT ![Kind(c)] = now]
  /\ tight' = (tight \/ (sent[Kind(c)] # 0 /\ now < sent[Kind(c)] + Interval[Kind(c)]))
  /\ broke' = (broke \/ (refused # 0 /\ now < shutAt + Stretch(refused)))
  /\ after' = [after EXCEPT ![c] = IF Open THEN @ + 1 ELSE @]
  /\ UNCHANGED <<now, openUntil, streak, doneAt, plan, tries, due, attempt, job, refused, shutAt,
                 overlapped, jobs, errors>>

\* Any answer that is not a 429 ends the streak, a failure of the server too; no
\* answer at all leaves it.
Answered(c, kept) == streak' = (IF kept THEN streak ELSE 0) /\ refused' = (IF kept THEN refused ELSE 0)

Success(c) ==
  /\ step[c] = "sent" /\ Answered(c, FALSE)
  /\ IF Tail(plan[c]) = << >> THEN Leave(c)
     ELSE /\ step' = [step EXCEPT ![c] = "ask"] /\ plan' = [plan EXCEPT ![c] = Tail(@)]
          /\ attempt' = [attempt EXCEPT ![c] = 0] /\ UNCHANGED <<tries, due, job, doneAt>>
  /\ UNCHANGED <<now, marked, openUntil, sent, tight, shutAt, broke, after, overlapped, jobs, errors>>

\* An error of the API, such as a page that does not exist, or of the server.
Failure(c) ==
  /\ step[c] = "sent" /\ errors < MaxErrors /\ errors' = errors + 1 /\ Answered(c, FALSE)
  /\ NextTitle(c) \/ Leave(c)
  /\ UNCHANGED <<now, marked, openUntil, sent, tight, shutAt, broke, after, overlapped, jobs>>

\* A timeout, a lost connection.
Unanswered(c) ==
  /\ step[c] = "sent" /\ errors < MaxErrors /\ errors' = errors + 1 /\ Answered(c, TRUE)
  /\ Leave(c)
  /\ UNCHANGED <<now, marked, openUntil, sent, tight, shutAt, broke, after, overlapped, jobs>>

\* "Too many": wait, twice as long each time, and retry ...
Retry(c) ==
  /\ step[c] = "sent" /\ attempt[c] < MaxRetries /\ errors < MaxErrors /\ errors' = errors + 1
  /\ step' = [step EXCEPT ![c] = "wait"] /\ attempt' = [attempt EXCEPT ![c] = @ + 1]
  /\ due' = [due EXCEPT ![c] = now + Backoff * 2 ^ attempt[c]]
  /\ UNCHANGED <<clocks, plan, tries, job, pace, after, overlapped, jobs>>

Resume(c) ==
  /\ step[c] = "wait" /\ now >= due[c] /\ step' = [step EXCEPT ![c] = "pace"]
  /\ marked' = [marked EXCEPT ![Kind(c)] = now]
  /\ due' = [due EXCEPT ![c] = now + Interval[Kind(c)]]
  /\ UNCHANGED <<now, openUntil, streak, doneAt, plan, tries, attempt, job, pace, after,
                 overlapped, jobs, errors>>

\* ... until the circuit opens, for twice as long as the time before.
Exhausted(c) ==
  /\ step[c] = "sent" /\ attempt[c] = MaxRetries /\ errors < MaxErrors /\ errors' = errors + 1
  /\ streak' = streak + 1 /\ openUntil' = now + Stretch(streak + 1)
  /\ IF overlapped THEN UNCHANGED <<refused, shutAt>> ELSE refused' = refused + 1 /\ shutAt' = now
  /\ after' = IF Open THEN after ELSE [x \in Askers |-> 0]
  /\ Leave(c)
  /\ UNCHANGED <<now, marked, sent, tight, broke, overlapped, jobs>>

\* Time passes while callers wait and requests are under way.
Tick ==
  /\ now < MaxTime /\ now' = now + 1 /\ \A c \in Askers : step[c] # "ask"
  /\ UNCHANGED <<marked, openUntil, streak, doneAt, threads, pace, after, overlapped, jobs, errors>>

SourceNext ==
  \/ \E c \in Askers : \/ ImportMap(c) \/ Sync(c) \/ Ask(c) \/ Send(c) \/ Success(c) \/ Failure(c)
                        \/ Unanswered(c) \/ Retry(c) \/ Resume(c) \/ Exhausted(c)
  \/ Tick

SourceSpec == SourceInit /\ [][SourceNext]_sourceVars

-----------------------------------------------------------------------------
SourceTypeOK ==
  /\ now \in Nat /\ openUntil \in Nat /\ streak \in Nat /\ doneAt \in Nat
  /\ refused \in Nat /\ shutAt \in Nat /\ jobs \in Nat /\ errors \in Nat
  /\ marked \in [Kinds -> Nat] /\ sent \in [Kinds -> Nat]
  /\ tight \in BOOLEAN /\ broke \in BOOLEAN /\ overlapped \in BOOLEAN
  /\ step \in [Askers -> {"idle", "ask", "pace", "sent", "wait"}] /\ plan \in [Askers -> Seq(Kinds)]
  /\ tries \in [Askers -> Nat] /\ due \in [Askers -> Nat] /\ attempt \in [Askers -> 0..MaxRetries]
  /\ job \in [Askers -> {"none", "import", "sync"}] /\ after \in [Askers -> Nat]

\* The pace holds across jobs, retries and titles: as long as no two jobs
\* overlapped, two requests of one kind never come closer than their interval.
PacedAlone == ~overlapped => ~tight

\* Silence doubles: as long as no two jobs overlapped, after n calls in a row
\* refused to the end no request leaves before the n-th window has lapsed.
WindowsDouble == ~overlapped => ~broke

\* However many jobs overlap, an open circuit dries them up: none of them sends
\* more than the request it was about to send and its retries.  (That much may
\* leave: see Silent.)
Trickle == Open => \A c \in DOMAIN after : after[c] <= MaxRetries + 1

\* "The circuit OPENS and every call fails fast, zero HTTP traffic": "while the
\* circuit is open, not a single request leaves this process" (liquipedia.py:46,
\* :219).  A call looks at the circuit when it begins only.
Silent == Open => \A c \in DOMAIN after : after[c] = 0

\* The three that hold: the one caller keeps the pace and the windows, and every caller the
\* circuit (LiquipediaMapsProvider).
Paced == PacedAlone /\ WindowsDouble /\ Trickle
=============================================================================
