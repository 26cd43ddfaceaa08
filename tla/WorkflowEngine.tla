--------------------------- MODULE WorkflowEngine ---------------------------
(***************************************************************************)
(* The WorkflowEngine of kingdoms.core.services.workflow, driving the      *)
(* registration workflow (its one definition) for a set of instances.      *)
(*                                                                         *)
(* A coroutine of the process is a task.  It gives way at every await, so  *)
(* the steps of a task are cut there: the lock (SET NX), the read of the   *)
(* stored document, the awaits of the workflow definition, the durable     *)
(* save, the hot mirror, the delete of the hot copy and the release.       *)
(* Redis and MongoDB outlive the process, its timers and tasks do not.     *)
(***************************************************************************)
EXTENDS Naturals

CONSTANTS
  Workflows,    \* workflow ids
  Tasks,        \* coroutines that may be in flight at once
  Cancels,      \* TRUE: users also decline (WorkflowEngine.cancel)
  Faults,       \* TRUE: an awaited call may raise
  SlowDrives,   \* TRUE: a drive may outlast the 30 s TTL of its lock
  MaxEvents,    \* bound on the interactions of users
  MaxCrashes,   \* bound on the crashes of the process
  NoLock        \* the lock key is absent

VARIABLES
  doc,          \* doc[w]: the document of w in workflow_states
  hot,          \* hot[w]: the status mirrored in Redis, "none" when absent
  lock,         \* lock[w]: the token in Redis, "dead" after a crash
  bound,        \* instances whose profile binding was written
  registered,   \* whether this build registers the definition
  phase,        \* "up", "down", or "recovering" (engine.start)
  pending,      \* instances listed by _resume_pending, not yet handled
  timers,       \* instances with an armed step timeout
  task,         \* task[t]: where the coroutine t is
  told,         \* told[w]: the last answer the user of w was shown
  events,       \* interactions so far
  crashes       \* crashes so far

vars == <<doc, hot, lock, bound, registered, phase, pending, timers, task,
          told, events, crashes>>

LC == INSTANCE WorkflowLifecycle WITH status <- [w \in Workflows |-> doc[w].status]

ASSUME NoLockAssumption == NoLock \notin Tasks /\ "dead" \notin Tasks /\ NoLock # "dead"
ASSUME FlagsAssumption == Cancels \in BOOLEAN /\ Faults \in BOOLEAN /\ SlowDrives \in BOOLEAN
ASSUME WorkflowsAssumption == Workflows # {}
ASSUME BoundsAssumption == MaxEvents \in Nat /\ MaxCrashes \in Nat

Terminal == {"COMPLETED", "CANCELLED", "TIMED_OUT"}
Statuses == {"ABSENT", "IN_PROGRESS"} \cup Terminal
Docs == [step : {"none", "entry", "profile", "done"},
         status : Statuses,
         err : BOOLEAN]     \* the payload carries an "error" key
NoDoc == [step |-> "none", status |-> "ABSENT", err |-> FALSE]
Kinds == {"start", "confirm", "submit", "timeout", "cancel", "resume", "recover", "raised"}
Points == {"idle", "read", "drive", "bound", "save", "mirror", "settle", "drop",
           "release", "rearm"}
\* wid: the instance the coroutine works on; st: the state it read, then the
\* transition it applies; held: it runs inside `async with lock`.
TaskStates == [pc : Points, wid : Workflows, kind : Kinds, st : Docs, held : BOOLEAN]

Rest == [pc |-> "idle", wid |-> CHOOSE w \in Workflows : TRUE, kind |-> "start",
         st |-> NoDoc, held |-> FALSE]

Live(w) == doc[w].status = "IN_PROGRESS"
Busy(w) == \E t \in Tasks : task[t].pc # "idle" /\ task[t].wid = w
\* t is inside the `async with lock` block of w.
Holding(t, w) == task[t].pc # "idle" /\ task[t].held /\ task[t].wid = w
\* The id of w has been handed out: start_workflow has returned it.
Known(w) == doc[w] # NoDoc /\ \A t \in Tasks : task[t].wid = w => task[t].kind # "start" \/ task[t].pc = "idle"
AllIdle == \A t \in Tasks : task[t].pc = "idle"

Init ==
  /\ doc = [w \in Workflows |-> NoDoc]
  /\ hot = [w \in Workflows |-> "none"]
  /\ lock = [w \in Workflows |-> NoLock]
  /\ bound = {} /\ pending = {} /\ timers = {}
  /\ registered = TRUE
  /\ phase = "up"
  /\ task = [t \in Tasks |-> Rest]
  /\ told = [w \in Workflows |-> "nothing"]
  /\ events = 0 /\ crashes = 0

(***************************************************************************)
(* The decisions of the code that the actions below are made of.  A name   *)
(* ending in _bug is a mutated form, kept to show that a property notices. *)
(***************************************************************************)

\* acquire_lock: SET NX.
Acquirable_bug(w) == TRUE
Acquirable(w) == lock[w] = NoLock
\* release_lock: compare-and-delete of the token.
OwnsToken(t, w) == task[t].held /\ lock[w] = t
\* _drive: a terminal instance is returned as it is.
Inert_bug(d) == d.status = "COMPLETED"
Inert(d) == d.status \in Terminal
\* _apply: only a live status keeps a step timeout.
KeepsTimeout_bug(s) == s.status = "IN_PROGRESS" /\ s.step = "entry"
KeepsTimeout(s) == s.status = "IN_PROGRESS"
\* _apply: the hot copy of an instance that ended is deleted.
HotDropped_bug(w) == hot
HotDropped(w) == [hot EXCEPT ![w] = "none"]
\* RegistrationWorkflow.on_timeout: CANCELLED, whatever the step.
TimedOut_bug(s) == s
TimedOut(s) == [s EXCEPT !.status = "CANCELLED"]
\* RegistrationWorkflow at the profile step: done, with the payload it was given.
Completed(s) == [s EXCEPT !.step = "done", !.status = "COMPLETED"]
\* bind_profile: the binding is written before the workflow returns.
WithBinding_bug(w) == bound
WithBinding(w) == bound \cup {w}
\* _resume_pending: the instances listed on startup.
Resumed_bug == {w \in Workflows : doc[w].step = "entry"}
Resumed == {w \in Workflows : Live(w)}

At(t, p) == phase # "down" /\ task[t].pc = p
GoTo(t, p) == task' = [task EXCEPT ![t].pc = p]
Begin(t, p, w, k, s, h) ==
  task' = [task EXCEPT ![t] = [pc |-> p, wid |-> w, kind |-> k, st |-> s, held |-> h]]
Finish(t) == task' = [task EXCEPT ![t] = Rest]
Apply(t, s) == task' = [task EXCEPT ![t].pc = "save", ![t].st = s]
Idle(t) == phase = "up" /\ task[t].pc = "idle"

(***************************************************************************)
(* Entry points                                                            *)
(***************************************************************************)

\* start_workflow: a fresh id, the entry transition, then _apply without a lock.
StartWorkflow(t, w) ==
  /\ Idle(t) /\ registered
  /\ doc[w] = NoDoc /\ ~Busy(w)
  /\ Begin(t, "save", w, "start", [step |-> "entry", status |-> "IN_PROGRESS", err |-> FALSE], FALSE)
  /\ UNCHANGED <<doc, hot, lock, bound, registered, phase, pending, timers, told, events, crashes>>

\* handle_interaction: _drive enters the lock; a held lock raises
\* LockNotAcquiredError to the caller and changes nothing.
Interact(t, w, k) ==
  /\ Idle(t) /\ events < MaxEvents
  /\ k \in {"confirm", "submit"}
  /\ Known(w)
  /\ Acquirable(w)
  /\ lock' = [lock EXCEPT ![w] = t]
  /\ Begin(t, "read", w, k, NoDoc, TRUE)
  /\ events' = events + 1
  /\ UNCHANGED <<doc, hot, bound, registered, phase, pending, timers, told, crashes>>

\* cancel: reads the document and applies CANCELLED, without the lock.
Cancel(t, w) ==
  /\ Cancels
  /\ Idle(t) /\ events < MaxEvents
  /\ Known(w) /\ Live(w)
  /\ Begin(t, "save", w, "cancel", [doc[w] EXCEPT !.status = "CANCELLED"], FALSE)
  /\ events' = events + 1
  /\ UNCHANGED <<doc, hot, lock, bound, registered, phase, pending, timers, told, crashes>>

\* resume: reads the document, then arms the timeout of a live instance.
Resume(t, w) ==
  /\ Idle(t) /\ events < MaxEvents
  /\ Known(w) /\ Live(w)
  /\ Begin(t, "rearm", w, "resume", doc[w], FALSE)
  /\ events' = events + 1
  /\ UNCHANGED <<doc, hot, lock, bound, registered, phase, pending, timers, told, crashes>>

Rearm(t) ==
  /\ At(t, "rearm")
  /\ timers' = timers \cup {task[t].wid}
  /\ Finish(t)
  /\ UNCHANGED <<doc, hot, lock, bound, registered, phase, pending, told, events, crashes>>

\* The step timeout of w was armed a moment ago: it does not fire yet.
JustArmed(w) == \E t \in Tasks : task[t].wid = w /\ task[t].pc = "release" /\ task[t].kind # "raised"

\* The step timer fires.  _timeout forgets the handle and drives on_timeout.
\* A lock left by a crash is gone by then: the timer was armed after the
\* restart, and the lock's TTL (30 s) is shorter than the step timeout.
TimerFires(t, w) ==
  /\ Idle(t)
  /\ w \in timers /\ ~JustArmed(w)
  /\ Acquirable(w)
  /\ timers' = timers \ {w}
  /\ lock' = [lock EXCEPT ![w] = t]
  /\ Begin(t, "read", w, "timeout", NoDoc, TRUE)
  /\ UNCHANGED <<doc, hot, bound, registered, phase, pending, told, events, crashes>>

\* The timer fires while another driver holds the lock: LockNotAcquiredError
\* is not among the errors _timeout catches, so its task dies, timer gone.
TimerLost(w) ==
  /\ phase = "up"
  /\ w \in timers /\ ~JustArmed(w)
  /\ \E t \in Tasks : lock[w] = t /\ Holding(t, w)
  /\ timers' = timers \ {w}
  /\ UNCHANGED <<doc, hot, lock, bound, registered, phase, pending, task, told, events, crashes>>

(***************************************************************************)
(* _drive, inside the lock                                                 *)
(***************************************************************************)

\* _require, then the early return for a terminal instance and the lookup of
\* the definition (WorkflowNotRegisteredError leaves through the release).
Read(t) ==
  /\ At(t, "read")
  /\ LET w == task[t].wid
     IN  task' = [task EXCEPT
                    ![t].st = doc[w],
                    ![t].pc = IF Inert(doc[w]) \/ ~registered THEN "release" ELSE "drive",
                    ![t].kind = IF ~Inert(doc[w]) /\ ~registered THEN "raised" ELSE @]
  /\ UNCHANGED <<doc, hot, lock, bound, registered, phase, pending, timers, told, events, crashes>>

DriveTimeout(t) ==
  /\ At(t, "drive") /\ task[t].kind = "timeout"
  /\ Apply(t, TimedOut(task[t].st))
  /\ UNCHANGED <<doc, hot, lock, bound, registered, phase, pending, timers, told, events, crashes>>

\* The entry step: "confirm" moves on, any other action declines.
DriveEntry(t) ==
  /\ At(t, "drive") /\ task[t].kind \in {"confirm", "submit"} /\ task[t].st.step = "entry"
  /\ Apply(t, IF task[t].kind = "confirm"
              THEN [task[t].st EXCEPT !.step = "profile"]
              ELSE [task[t].st EXCEPT !.status = "CANCELLED"])
  /\ UNCHANGED <<doc, hot, lock, bound, registered, phase, pending, timers, told, events, crashes>>

\* The profile step, refused: no id in the event (a second "confirm"), an id
\* the provider does not know, or one bound to someone else.  The error is
\* merged into the payload and the instance stays at its step.
ProfileRefused(t) ==
  /\ At(t, "drive") /\ task[t].kind \in {"confirm", "submit"} /\ task[t].st.step = "profile"
  /\ Apply(t, [task[t].st EXCEPT !.err = TRUE])
  /\ UNCHANGED <<doc, hot, lock, bound, registered, phase, pending, timers, told, events, crashes>>

\* The profile step, accepted: bind_profile writes the binding ...
ProfileBinds(t) ==
  /\ At(t, "drive") /\ task[t].kind = "submit" /\ task[t].st.step = "profile"
  /\ bound' = WithBinding(task[t].wid)
  /\ GoTo(t, "bound")
  /\ UNCHANGED <<doc, hot, lock, registered, phase, pending, timers, told, events, crashes>>

\* ... and the workflow returns COMPLETED with the payload it was given.
ProfileCompletes(t) ==
  /\ At(t, "bound")
  /\ Apply(t, Completed(task[t].st))
  /\ UNCHANGED <<doc, hot, lock, bound, registered, phase, pending, timers, told, events, crashes>>

(***************************************************************************)
(* _apply: durable save, hot mirror, timer, hot delete                     *)
(***************************************************************************)

Save(t) ==
  /\ At(t, "save")
  /\ doc' = [doc EXCEPT ![task[t].wid] = task[t].st]
  /\ GoTo(t, "mirror")
  /\ UNCHANGED <<hot, lock, bound, registered, phase, pending, timers, told, events, crashes>>

Mirror(t) ==
  /\ At(t, "mirror")
  /\ hot' = [hot EXCEPT ![task[t].wid] = task[t].st.status]
  /\ GoTo(t, "settle")
  /\ UNCHANGED <<doc, lock, bound, registered, phase, pending, timers, told, events, crashes>>

Settle(t) ==
  /\ At(t, "settle")
  /\ LET w == task[t].wid IN
     \/ /\ KeepsTimeout(task[t].st)
        /\ timers' = timers \cup {w}
        /\ GoTo(t, "release")
     \/ /\ ~KeepsTimeout(task[t].st)
        /\ timers' = timers \ {w}
        /\ GoTo(t, "drop")
  /\ UNCHANGED <<doc, hot, lock, bound, registered, phase, pending, told, events, crashes>>

DropHot(t) ==
  /\ At(t, "drop")
  /\ hot' = HotDropped(task[t].wid)
  /\ GoTo(t, "release")
  /\ UNCHANGED <<doc, lock, bound, registered, phase, pending, timers, told, events, crashes>>

\* What the Discord handlers answer with the state handle_interaction returned.
Answer(k, s) ==
  CASE k = "confirm" /\ s.status \in {"CANCELLED", "TIMED_OUT"} -> "cancelled"
    [] k = "confirm" /\ s.status \notin {"CANCELLED", "TIMED_OUT"} -> "prompt"
    [] k = "submit" /\ s.err -> "error"
    [] k = "submit" /\ ~s.err /\ s.status = "COMPLETED" -> "finished"
    [] OTHER -> "unexpected"

\* The end of the coroutine: compare-and-delete of the lock token when it ran
\* inside the lock, and the answer to the user who clicked.
Release(t) ==
  /\ At(t, "release")
  /\ LET w == task[t].wid  k == task[t].kind IN
     /\ lock' = IF OwnsToken(t, w) THEN [lock EXCEPT ![w] = NoLock] ELSE lock
     /\ told' = IF k \in {"confirm", "submit"}
                THEN [told EXCEPT ![w] = Answer(k, task[t].st)] ELSE told
  /\ Finish(t)
  /\ UNCHANGED <<doc, hot, bound, registered, phase, pending, timers, events, crashes>>

(***************************************************************************)
(* Faults, TTLs, crash and restart                                         *)
(***************************************************************************)

\* An awaited call of t raises: `finally` still releases the lock; when the
\* release itself raises, the token stays until its TTL.
Fault(t) ==
  /\ Faults
  /\ phase = "up"
  /\ task[t].pc \notin {"idle", "settle"} /\ task[t].kind # "recover"
  /\ IF task[t].held /\ task[t].pc # "release"
     THEN task' = [task EXCEPT ![t].kind = "raised", ![t].pc = "release"]
     ELSE Finish(t)
  /\ UNCHANGED <<doc, hot, lock, bound, registered, phase, pending, timers, told, events, crashes>>

LockExpires(w) ==
  /\ lock[w] # NoLock
  /\ SlowDrives \/ \A t \in Tasks : lock[w] = t => ~Holding(t, w)
  /\ lock' = [lock EXCEPT ![w] = NoLock]
  /\ UNCHANGED <<doc, hot, bound, registered, phase, pending, timers, task, told, events, crashes>>

\* The TTL of the hot copy: the step timeout and a grace of 300 s, so it
\* outlives the timer and every drive in flight.
HotExpires(w) ==
  /\ hot[w] # "none" /\ w \notin timers /\ ~Busy(w)
  /\ hot' = [hot EXCEPT ![w] = "none"]
  /\ UNCHANGED <<doc, lock, bound, registered, phase, pending, timers, task, told, events, crashes>>

\* The process dies (or stops: stop() cancels the timers, the loop the tasks).
Crash ==
  /\ phase # "down" /\ crashes < MaxCrashes
  /\ crashes' = crashes + 1
  /\ phase' = "down"
  /\ pending' = {} /\ timers' = {}
  /\ lock' = [w \in Workflows |-> IF lock[w] = NoLock THEN NoLock ELSE "dead"]
  /\ task' = [t \in Tasks |-> Rest]
  /\ UNCHANGED <<doc, hot, bound, registered, told, events>>

\* start(): the build that comes up may have dropped the definition.
Restart(r) ==
  /\ phase = "down"
  /\ registered' = r
  /\ phase' = "recovering"
  /\ pending' = Resumed
  /\ UNCHANGED <<doc, hot, lock, bound, timers, task, told, events, crashes>>

\* _resume_pending, one listed instance: re-arm, or apply TIMED_OUT.
RecoverOne(t, w) ==
  /\ phase = "recovering" /\ AllIdle
  /\ w \in pending
  /\ pending' = pending \ {w}
  /\ \/ registered /\ timers' = timers \cup {w} /\ UNCHANGED task
     \/ /\ ~registered /\ UNCHANGED timers
        /\ Begin(t, "save", w, "recover", [doc[w] EXCEPT !.status = "TIMED_OUT"], FALSE)
  /\ UNCHANGED <<doc, hot, lock, bound, registered, phase, told, events, crashes>>

Recovered ==
  /\ phase = "recovering" /\ pending = {} /\ AllIdle
  /\ phase' = "up"
  /\ UNCHANGED <<doc, hot, lock, bound, registered, pending, timers, task, told, events, crashes>>

Step(t) ==
  \/ Rearm(t) \/ Read(t)
  \/ DriveTimeout(t) \/ DriveEntry(t) \/ ProfileRefused(t) \/ ProfileBinds(t) \/ ProfileCompletes(t)
  \/ Save(t) \/ Mirror(t) \/ Settle(t) \/ DropHot(t) \/ Release(t)

Next ==
  \/ \E t \in Tasks : Step(t) \/ Fault(t)
  \/ \E t \in Tasks, w \in Workflows :
       \/ StartWorkflow(t, w) \/ Cancel(t, w) \/ Resume(t, w)
       \/ \E k \in {"confirm", "submit"} : Interact(t, w, k)
       \/ TimerFires(t, w) \/ RecoverOne(t, w)
  \/ \E w \in Workflows : TimerLost(w) \/ LockExpires(w) \/ HotExpires(w)
  \/ \E r \in BOOLEAN : Restart(r)
  \/ Crash \/ Recovered

Spec == Init /\ [][Next]_vars

(***************************************************************************)
(* The event loop runs every ready coroutine, the supervisor restarts the  *)
(* process, Redis applies its TTLs, and a timer that stays armed fires.    *)
(***************************************************************************)
Fairness ==
  /\ \A t \in Tasks : WF_vars(Step(t))
  /\ \A w \in Workflows :
       /\ SF_vars(\E t \in Tasks : TimerFires(t, w))
       /\ WF_vars(\E t \in Tasks : RecoverOne(t, w))
       /\ WF_vars(LockExpires(w)) /\ WF_vars(HotExpires(w))
  /\ WF_vars(\E r \in BOOLEAN : Restart(r))
  /\ WF_vars(Recovered)

FairSpec == Spec /\ Fairness

(***************************************************************************)
(* Properties                                                              *)
(***************************************************************************)

\* Every variable keeps its type.
TypeOK ==
  /\ doc \in [Workflows -> Docs]
  /\ hot \in [Workflows -> {"none"} \cup Statuses]
  /\ lock \in [Workflows -> Tasks \cup {NoLock, "dead"}]
  /\ bound \subseteq Workflows /\ pending \subseteq Workflows /\ timers \subseteq Workflows
  /\ registered \in BOOLEAN
  /\ phase \in {"up", "down", "recovering"}
  /\ task \in [Tasks -> TaskStates]
  /\ told \in [Workflows -> {"nothing", "cancelled", "prompt", "error", "finished", "unexpected"}]
  /\ events \in 0..MaxEvents /\ crashes \in 0..MaxCrashes

\* Two coroutines never drive one instance at the same time (StateService.lock:
\* "Hold a distributed lock for the duration of the context").
DriversExcluded ==
  \A w \in Workflows, t, u \in Tasks : Holding(t, w) /\ Holding(u, w) => t = u

\* The engine implements the lifecycle of WorkflowLifecycle: an instance that
\* ended is never written again with another status.
LifecycleSpec == LC!Spec

\* No instance is forgotten: a live one of a running engine has an armed step
\* timeout, or a coroutine at work on it that will arm one ("enforces per-step
\* timeouts"); and once nothing is in flight and no crash cut an _apply short,
\* the hot copy agrees with the document, a terminal instance having none.
NoneForgotten ==
  \A w \in Workflows :
    /\ phase = "up" /\ Live(w) => w \in timers \/ Busy(w)
    /\ crashes = 0 /\ ~Busy(w) => hot[w] = "none" \/ (Live(w) /\ hot[w] = doc[w].status)

\* An instance stored as COMPLETED has its profile binding in the database,
\* whatever crashed, raised or overtook in between.
CompletedIsBound == \A w \in Workflows : doc[w].status = "COMPLETED" => w \in bound

\* Every instance ends once its user stops interacting and crashes stop.
InstancesEnd == \A w \in Workflows : Live(w) ~> doc[w].status \in Terminal
=============================================================================
