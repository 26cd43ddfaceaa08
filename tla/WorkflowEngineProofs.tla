------------------------ MODULE WorkflowEngineProofs ------------------------
(***************************************************************************)
(* Theorems about WorkflowEngine, for every set of instances and of        *)
(* coroutines and every setting of its flags and bounds.                   *)
(***************************************************************************)
EXTENDS WorkflowEngine, TLAPS

\* A coroutine at rest is a task state like any other.
LEMMA RestType == Rest \in TaskStates /\ Rest.pc = "idle" /\ ~Rest.held /\ Rest.kind = "start"
<1>1. (CHOOSE w \in Workflows : TRUE) \in Workflows
  BY WorkflowsAssumption
<1>2. NoDoc \in Docs
  BY DEF NoDoc, Docs, Statuses
<1>3. QED
  BY <1>1, <1>2 DEF Rest, TaskStates, Points, Kinds

\* The four ways in which a coroutine moves give a task state.
LEMMA MovesType ==
  ASSUME task \in [Tasks -> TaskStates], NEW t \in Tasks
  PROVE  /\ \A p \in Points : GoTo(t, p) => task' \in [Tasks -> TaskStates]
         /\ \A s \in Docs : Apply(t, s) => task' \in [Tasks -> TaskStates]
         /\ \A p \in Points, w \in Workflows, k \in Kinds, s \in Docs, h \in BOOLEAN :
              Begin(t, p, w, k, s, h) => task' \in [Tasks -> TaskStates]
         /\ Finish(t) => task' \in [Tasks -> TaskStates]
<1>1. ASSUME NEW p \in Points, GoTo(t, p) PROVE task' \in [Tasks -> TaskStates]
  BY <1>1 DEF GoTo, TaskStates
<1>2. ASSUME NEW s \in Docs, Apply(t, s) PROVE task' \in [Tasks -> TaskStates]
  BY <1>2 DEF Apply, TaskStates, Points
<1>3. ASSUME NEW p \in Points, NEW w \in Workflows, NEW k \in Kinds, NEW s \in Docs, NEW h \in BOOLEAN,
             Begin(t, p, w, k, s, h)
      PROVE  task' \in [Tasks -> TaskStates]
  BY <1>3 DEF Begin, TaskStates
<1>4. ASSUME Finish(t) PROVE task' \in [Tasks -> TaskStates]
  BY <1>4, RestType DEF Finish
<1>5. QED
  BY <1>1, <1>2, <1>3, <1>4

\* The steps of a coroutine keep the types.
LEMMA StepType ==
  ASSUME TypeOK, NEW t \in Tasks, Step(t)
  PROVE  TypeOK'
<1> DEFINE tsk == task' \in [Tasks -> TaskStates]
<1> USE DEF TypeOK
<1>0. /\ task[t] \in TaskStates /\ task[t].wid \in Workflows /\ task[t].st \in Docs
      /\ task[t].st.status \in Statuses
  BY DEF TaskStates, Docs
<1>p. \A p \in {"read", "drive", "bound", "save", "mirror", "settle", "drop", "release"} : p \in Points
  BY DEF Points
<1>1. CASE Rearm(t)
  BY <1>1, <1>0, MovesType DEF Rearm
<1>2. CASE Read(t)
  <2>1. tsk
    BY <1>2, <1>0 DEF Read, TaskStates, Points, Kinds
  <2>2. QED
    BY <2>1, <1>2 DEF Read
<1>3. CASE DriveTimeout(t)
  <2>1. TimedOut(task[t].st) \in Docs
    BY <1>0 DEF TimedOut, Docs, Statuses, Terminal
  <2>2. QED
    BY <2>1, <1>3, MovesType DEF DriveTimeout
<1>4. CASE DriveEntry(t)
  <2>1. /\ [task[t].st EXCEPT !.step = "profile"] \in Docs
        /\ [task[t].st EXCEPT !.status = "CANCELLED"] \in Docs
    BY <1>0 DEF Docs, Statuses, Terminal
  <2>2. QED
    BY <2>1, <1>4, MovesType DEF DriveEntry
<1>5. CASE ProfileRefused(t)
  <2>1. [task[t].st EXCEPT !.err = TRUE] \in Docs
    BY <1>0 DEF Docs
  <2>2. QED
    BY <2>1, <1>5, MovesType DEF ProfileRefused
<1>6. CASE ProfileBinds(t)
  BY <1>6, <1>0, <1>p, MovesType DEF ProfileBinds, WithBinding
<1>7. CASE ProfileCompletes(t)
  <2>1. Completed(task[t].st) \in Docs
    BY <1>0 DEF Completed, Docs, Statuses, Terminal
  <2>2. QED
    BY <2>1, <1>7, MovesType DEF ProfileCompletes
<1>8. CASE Save(t)
  BY <1>8, <1>0, <1>p, MovesType DEF Save
<1>9. CASE Mirror(t)
  BY <1>9, <1>0, <1>p, MovesType DEF Mirror
<1>10. CASE Settle(t)
  <2>1. tsk
    BY <1>10, <1>p, MovesType DEF Settle, KeepsTimeout
  <2>2. timers' \subseteq Workflows
    BY <1>10, <1>0 DEF Settle, KeepsTimeout
  <2>3. QED
    BY <2>1, <2>2, <1>10 DEF Settle, KeepsTimeout
<1>11. CASE DropHot(t)
  BY <1>11, <1>0, <1>p, MovesType DEF DropHot, HotDropped
<1>12. CASE Release(t)
  <2>1. tsk
    BY <1>12, MovesType DEF Release
  <2>2. told' \in [Workflows -> {"nothing", "cancelled", "prompt", "error", "finished", "unexpected"}]
    BY <1>12, <1>0 DEF Release, Answer
  <2>3. lock' \in [Workflows -> Tasks \cup {NoLock, "dead"}]
    BY <1>12, <1>0 DEF Release
  <2>4. QED
    BY <2>1, <2>2, <2>3, <1>12 DEF Release
<1>13. QED
  BY <1>1, <1>2, <1>3, <1>4, <1>5, <1>6, <1>7, <1>8, <1>9, <1>10, <1>11, <1>12 DEF Step

\* So do the calls that start a coroutine, the faults, the TTLs and restarts.
LEMMA OtherType ==
  ASSUME TypeOK, Next, ~(\E t \in Tasks : Step(t))
  PROVE  TypeOK'
<1> USE BoundsAssumption DEF TypeOK
<1>0. /\ NoDoc \in Docs
      /\ \A w \in Workflows : doc[w] \in Docs /\ \A s \in Terminal : [doc[w] EXCEPT !.status = s] \in Docs
      /\ [step |-> "entry", status |-> "IN_PROGRESS", err |-> FALSE] \in Docs
  BY DEF NoDoc, Docs, Statuses
<1>p. /\ \A p \in {"read", "save", "rearm"} : p \in Points
      /\ \A k \in {"start", "confirm", "submit", "timeout", "cancel", "resume", "recover"} : k \in Kinds
      /\ \A s \in {"CANCELLED", "TIMED_OUT"} : s \in Terminal
  BY DEF Points, Kinds, Terminal
<1>1. ASSUME NEW t \in Tasks, Fault(t) PROVE TypeOK'
  <2>1. CASE task[t].held /\ task[t].pc # "release"
    <3>1. "raised" \in Kinds /\ "release" \in Points
      BY DEF Kinds, Points
    <3>2. task' \in [Tasks -> TaskStates]
      BY <1>1, <2>1, <3>1 DEF Fault, TaskStates
    <3>3. QED
      BY <3>2, <1>1 DEF Fault
  <2>2. CASE ~(task[t].held /\ task[t].pc # "release")
    <3>1. task' \in [Tasks -> TaskStates]
      BY <1>1, <2>2, MovesType DEF Fault
    <3>2. QED
      BY <3>1, <1>1 DEF Fault
  <2>3. QED
    BY <2>1, <2>2
<1>2. ASSUME NEW t \in Tasks, NEW w \in Workflows, StartWorkflow(t, w) PROVE TypeOK'
  <2>1. task' \in [Tasks -> TaskStates]
    BY <1>2, <1>0, <1>p, MovesType DEF StartWorkflow
  <2>2. QED
    BY <2>1, <1>2 DEF StartWorkflow
<1>3. ASSUME NEW t \in Tasks, NEW w \in Workflows, Cancel(t, w) PROVE TypeOK'
  <2>1. task' \in [Tasks -> TaskStates]
    BY <1>3, <1>0, <1>p, MovesType DEF Cancel
  <2>2. events' \in 0..MaxEvents
    BY <1>3 DEF Cancel
  <2>3. QED
    BY <2>1, <2>2, <1>3 DEF Cancel
<1>4. ASSUME NEW t \in Tasks, NEW w \in Workflows, Resume(t, w) PROVE TypeOK'
  <2>1. task' \in [Tasks -> TaskStates]
    BY <1>4, <1>0, <1>p, MovesType DEF Resume
  <2>2. events' \in 0..MaxEvents
    BY <1>4 DEF Resume
  <2>3. QED
    BY <2>1, <2>2, <1>4 DEF Resume
<1>5. ASSUME NEW t \in Tasks, NEW w \in Workflows, NEW k \in {"confirm", "submit"}, Interact(t, w, k)
      PROVE  TypeOK'
  <2>1. task' \in [Tasks -> TaskStates]
    BY <1>5, <1>0, <1>p, MovesType DEF Interact
  <2>2. lock' \in [Workflows -> Tasks \cup {NoLock, "dead"}] /\ events' \in 0..MaxEvents
    BY <1>5 DEF Interact
  <2>3. QED
    BY <2>1, <2>2, <1>5 DEF Interact
<1>6. ASSUME NEW t \in Tasks, NEW w \in Workflows, TimerFires(t, w) PROVE TypeOK'
  <2>1. task' \in [Tasks -> TaskStates]
    BY <1>6, <1>0, <1>p, MovesType DEF TimerFires
  <2>2. lock' \in [Workflows -> Tasks \cup {NoLock, "dead"}] /\ timers' \subseteq Workflows
    BY <1>6 DEF TimerFires
  <2>3. QED
    BY <2>1, <2>2, <1>6 DEF TimerFires
<1>7. ASSUME NEW t \in Tasks, NEW w \in Workflows, RecoverOne(t, w) PROVE TypeOK'
  <2>1. task' \in [Tasks -> TaskStates]
    BY <1>7, <1>0, <1>p, MovesType DEF RecoverOne
  <2>2. pending' \subseteq Workflows /\ timers' \subseteq Workflows
    BY <1>7 DEF RecoverOne
  <2>3. QED
    BY <2>1, <2>2, <1>7 DEF RecoverOne
<1>8. ASSUME NEW w \in Workflows, TimerLost(w) \/ LockExpires(w) \/ HotExpires(w) PROVE TypeOK'
  BY <1>8 DEF TimerLost, LockExpires, HotExpires
<1>9. ASSUME NEW r \in BOOLEAN, Restart(r) PROVE TypeOK'
  BY <1>9 DEF Restart, Resumed
<1>10. ASSUME Crash \/ Recovered PROVE TypeOK'
  BY <1>10, RestType DEF Crash, Recovered
<1>11. QED
  BY <1>1, <1>2, <1>3, <1>4, <1>5, <1>6, <1>7, <1>8, <1>9, <1>10 DEF Next

\* The variables of WorkflowEngine keep their types.
THEOREM TypeCorrect == Spec => []TypeOK
<1>1. Init => TypeOK
  BY RestType, BoundsAssumption DEF Init, TypeOK, NoDoc, Docs, Statuses
<1>2. TypeOK /\ [Next]_vars => TypeOK'
  <2>1. ASSUME TypeOK, UNCHANGED vars PROVE TypeOK'
    BY <2>1 DEF TypeOK, vars
  <2>2. QED
    BY <2>1, StepType, OtherType
<1>3. QED
  BY <1>1, <1>2, PTL DEF Spec

-----------------------------------------------------------------------------
(***************************************************************************)
(* The lock.  As long as no drive outlasts the TTL of its lock, a coroutine*)
(* inside the lock of w owns its token: the exclusion of drivers follows,  *)
(* since the lock holds one token.                                         *)
(***************************************************************************)

LockOwned == \A w \in Workflows, t \in Tasks : Holding(t, w) => lock[w] = t

\* Only a coroutine that takes the free lock starts to hold it, and a lock is
\* only given up by its holder.
LEMMA LockOwnedStep ==
  ASSUME ~SlowDrives, TypeOK, LockOwned, Next
  PROVE  LockOwned'
<1> SUFFICES ASSUME NEW v \in Workflows, NEW u \in Tasks, Holding(u, v)'
             PROVE  lock'[v] = u
  BY DEF LockOwned
<1> USE RestType, NoLockAssumption DEF TypeOK, Holding, LockOwned
<1>1. ASSUME NEW t \in Tasks, Fault(t) PROVE lock'[v] = u
  BY <1>1 DEF Fault, Finish, TaskStates
<1>2. ASSUME NEW t \in Tasks, NEW w \in Workflows,
             StartWorkflow(t, w) \/ Cancel(t, w) \/ Resume(t, w) \/ RecoverOne(t, w)
      PROVE  lock'[v] = u
  BY <1>2 DEF StartWorkflow, Cancel, Resume, RecoverOne, Begin
<1>3. ASSUME NEW t \in Tasks, NEW w \in Workflows, NEW k \in {"confirm", "submit"}, Interact(t, w, k)
      PROVE  lock'[v] = u
  BY <1>3 DEF Interact, Begin, Acquirable
<1>4. ASSUME NEW t \in Tasks, NEW w \in Workflows, TimerFires(t, w) PROVE lock'[v] = u
  BY <1>4 DEF TimerFires, Begin, Acquirable
<1>5. ASSUME NEW w \in Workflows, TimerLost(w) \/ LockExpires(w) \/ HotExpires(w) PROVE lock'[v] = u
  BY <1>5 DEF TimerLost, LockExpires, HotExpires
<1>6. ASSUME NEW r \in BOOLEAN, Restart(r) PROVE lock'[v] = u
  BY <1>6 DEF Restart
<1>7. ASSUME Crash \/ Recovered PROVE lock'[v] = u
  BY <1>7 DEF Crash, Recovered
<1>8. ASSUME NEW t \in Tasks, Release(t) PROVE lock'[v] = u
  BY <1>8 DEF Release, Finish, OwnsToken, TaskStates
<1>9. ASSUME NEW t \in Tasks, Step(t), ~Release(t) PROVE lock'[v] = u
  BY <1>9 DEF Step, Rearm, Read, DriveTimeout, DriveEntry, ProfileRefused, ProfileBinds,
              ProfileCompletes, Save, Mirror, Settle, DropHot, Apply, GoTo, Finish, At, TaskStates
<1>10. QED
  BY <1>1, <1>2, <1>3, <1>4, <1>5, <1>6, <1>7, <1>8, <1>9 DEF Next

\* If no drive outlasts the TTL of its lock, two coroutines are never inside
\* the lock of one instance.
THEOREM DriversAreExcluded == ~SlowDrives => (Spec => []DriversExcluded)
<1> SUFFICES ASSUME ~SlowDrives PROVE Spec => []DriversExcluded
  OBVIOUS
<1>1. Init => LockOwned
  BY RestType DEF Init, LockOwned, Holding
<1>2. TypeOK /\ LockOwned /\ [Next]_vars => LockOwned'
  <2>1. ASSUME LockOwned, UNCHANGED vars PROVE LockOwned'
    BY <2>1 DEF LockOwned, Holding, vars
  <2>2. QED
    BY <2>1, LockOwnedStep
<1>3. LockOwned => DriversExcluded
  BY DEF LockOwned, DriversExcluded
<1>4. QED
  BY <1>1, <1>2, <1>3, TypeCorrect, PTL DEF Spec

-----------------------------------------------------------------------------
(***************************************************************************)
(* The binding.  A coroutine that has bound the profile, or is about to    *)
(* store COMPLETED or has read it, works on an instance that is bound: the *)
(* binding is written before anything says that the instance is complete.  *)
(***************************************************************************)

Covered(t) ==
  task[t].pc = "bound" \/ task[t].st.status = "COMPLETED" =>
    task[t].pc = "idle" \/ task[t].wid \in bound
CInv == CompletedIsBound /\ \A t \in Tasks : Covered(t)

\* A step of the coroutine t keeps what is stored and t itself covered, and
\* leaves the other coroutines alone.
LEMMA CoveredStep ==
  ASSUME TypeOK, CInv, NEW t \in Tasks, Step(t)
  PROVE  CInv'
<1> USE DEF TypeOK, CInv, Covered, CompletedIsBound
<1>0. /\ task[t] \in TaskStates /\ task[t].wid \in Workflows /\ task[t].st \in Docs
      /\ doc[task[t].wid] \in Docs
  BY DEF TaskStates
<1>1. CASE Rearm(t)
  BY <1>1, RestType DEF Rearm, Finish
<1>2. CASE Read(t)
  BY <1>2, <1>0 DEF Read, TaskStates
<1>3. CASE DriveTimeout(t)
  BY <1>3, <1>0 DEF DriveTimeout, Apply, TimedOut, TaskStates, Docs
<1>4. CASE DriveEntry(t)
  BY <1>4, <1>0 DEF DriveEntry, Apply, TaskStates, Docs, At
<1>5. CASE ProfileRefused(t)
  BY <1>5, <1>0 DEF ProfileRefused, Apply, TaskStates, Docs, At
<1>6. CASE ProfileBinds(t)
  BY <1>6, <1>0 DEF ProfileBinds, WithBinding, GoTo, TaskStates, At
<1>7. CASE ProfileCompletes(t)
  BY <1>7, <1>0 DEF ProfileCompletes, Completed, Apply, TaskStates, Docs, At
<1>8. CASE Save(t)
  BY <1>8, <1>0 DEF Save, GoTo, TaskStates, At
<1>9. CASE Mirror(t) \/ Settle(t) \/ DropHot(t)
  BY <1>9, <1>0 DEF Mirror, Settle, DropHot, GoTo, TaskStates, At
<1>10. CASE Release(t)
  BY <1>10, RestType DEF Release, Finish
<1>11. QED
  BY <1>1, <1>2, <1>3, <1>4, <1>5, <1>6, <1>7, <1>8, <1>9, <1>10 DEF Step

\* No other step stores a document or undoes a binding; the coroutines it
\* starts have read a live instance or nothing.
LEMMA CoveredOther ==
  ASSUME TypeOK, CInv, Next, ~(\E t \in Tasks : Step(t))
  PROVE  CInv'
<1> USE DEF TypeOK, CInv, Covered, CompletedIsBound
<1>1. ASSUME NEW t \in Tasks, Fault(t) PROVE CInv'
  <2>1. task[t] \in TaskStates
    OBVIOUS
  <2>2. CASE task[t].held /\ task[t].pc # "release"
    BY <1>1, <2>1, <2>2 DEF Fault, TaskStates
  <2>3. CASE ~(task[t].held /\ task[t].pc # "release")
    BY <1>1, <2>3, RestType DEF Fault, Finish
  <2>4. QED
    BY <2>2, <2>3
<1>2. ASSUME NEW t \in Tasks, NEW w \in Workflows,
             StartWorkflow(t, w) \/ (\E k \in {"confirm", "submit"} : Interact(t, w, k)) \/ TimerFires(t, w)
      PROVE  CInv'
  BY <1>2 DEF StartWorkflow, Interact, TimerFires, Begin, NoDoc
<1>3. ASSUME NEW t \in Tasks, NEW w \in Workflows, Cancel(t, w) \/ Resume(t, w) \/ RecoverOne(t, w)
      PROVE  CInv'
  <2>1. doc[w] \in Docs
    OBVIOUS
  <2>2. QED
    BY <1>3, <2>1 DEF Cancel, Resume, RecoverOne, Begin, Live, Docs
<1>4. ASSUME NEW w \in Workflows, TimerLost(w) \/ LockExpires(w) \/ HotExpires(w) PROVE CInv'
  BY <1>4 DEF TimerLost, LockExpires, HotExpires
<1>5. ASSUME NEW r \in BOOLEAN, Restart(r) PROVE CInv'
  BY <1>5 DEF Restart
<1>6. ASSUME Crash \/ Recovered PROVE CInv'
  BY <1>6, RestType DEF Crash, Recovered
<1>7. QED
  BY <1>1, <1>2, <1>3, <1>4, <1>5, <1>6 DEF Next

\* An instance stored as COMPLETED has its profile binding, for every setting
\* of the flags: declining users, raised calls, outlasted locks and crashes
\* between the two writes included.
THEOREM CompletedHasBinding == Spec => []CompletedIsBound
<1>1. Init => CInv
  BY RestType DEF Init, CInv, Covered, CompletedIsBound, NoDoc
<1>2. TypeOK /\ CInv /\ [Next]_vars => CInv'
  <2>1. ASSUME CInv, UNCHANGED vars PROVE CInv'
    BY <2>1 DEF CInv, Covered, CompletedIsBound, vars
  <2>2. QED
    BY <2>1, CoveredStep, CoveredOther
<1>3. CInv => CompletedIsBound
  BY DEF CInv
<1>4. QED
  BY <1>1, <1>2, <1>3, TypeCorrect, PTL DEF Spec

-----------------------------------------------------------------------------
(***************************************************************************)
(* Nothing is forgotten.  When nobody declines, no call raises and no drive*)
(* outlasts its lock, one coroutine at a time works on an instance, whether*)
(* it holds the lock or started the instance or ends it in the recovery.   *)
(* What it read is what is stored, so it leaves the timer that belongs to  *)
(* what it stored.  (resume only arms a timer, and may overlap.)           *)
(***************************************************************************)

Working(t, w) == task[t].pc \notin {"idle", "rearm"} /\ task[t].wid = w
\* t arms the timeout of w before it ends, unless w ends.
Owes(t, w) ==
  /\ task[t].pc \in {"read", "drive", "bound", "save", "mirror", "settle", "rearm"}
  /\ task[t].wid = w
Mirroring(t, w) == task[t].pc \in {"mirror", "settle", "drop"} /\ task[t].wid = w

\* One coroutine works on an instance, and one in all during the recovery.
Sole == \A w \in Workflows, t, u \in Tasks : Working(t, w) /\ Working(u, w) => t = u
OneRecovers ==
  phase = "recovering" => \A t, u \in Tasks : task[t].pc # "idle" /\ task[u].pc # "idle" => t = u
Down == phase = "down" => AllIdle

\* What the coroutine t was started for, and what it knows.
Errand(t) ==
  LET k == task[t]  w == task[t].wid
  IN  /\ k.kind \in {"start", "confirm", "submit", "timeout", "resume", "recover"}
      /\ k.kind = "start" =>
           /\ ~k.held /\ k.pc \in {"save", "mirror", "settle", "release"} /\ registered
           /\ k.st.status = "IN_PROGRESS"
           /\ k.pc # "release" => w \notin timers
           /\ k.pc = "save" => doc[w] = NoDoc
           /\ \A u \in Tasks \ {t} : task[u].pc = "idle" \/ task[u].wid # w
      /\ k.kind \in {"confirm", "submit", "timeout"} => k.held /\ k.pc # "rearm" /\ doc[w] # NoDoc
      /\ k.kind = "resume" => ~k.held /\ k.pc = "rearm" /\ registered /\ doc[w] # NoDoc
      /\ k.kind = "recover" =>
           /\ ~k.held /\ k.pc \in {"save", "mirror", "settle", "drop", "release"} /\ ~registered
           /\ k.st.status = "TIMED_OUT" /\ w \notin pending
      /\ phase # "down" /\ (phase = "recovering" <=> k.kind = "recover")
Knows(t) ==
  LET k == task[t]  w == task[t].wid
  IN  /\ k.pc \in {"drive", "bound"} => k.st = doc[w] /\ Live(w)
      /\ k.pc = "save" =>
           /\ k.st.status # "ABSENT" /\ (phase = "up" => registered)
           /\ k.kind # "start" => Live(w)
      /\ k.pc \in {"mirror", "settle", "drop"} => k.st = doc[w]
      /\ k.pc = "drop" => ~Live(w)
      /\ k.pc = "release" /\ Live(w) => w \in timers
      /\ k.pc = "settle" /\ crashes = 0 => hot[w] = k.st.status
Coroutine(t) == task[t].pc # "idle" => Errand(t) /\ Knows(t)

\* What is stored of w, and who will arm its timeout or mirror it.
Instance(w) ==
  /\ doc[w] = NoDoc \/ doc[w].status # "ABSENT"
  /\ w \in timers => doc[w] # NoDoc
  /\ w \in pending => Live(w) /\ phase = "recovering"
  /\ phase = "up" /\ Live(w) => registered /\ (w \in timers \/ \E t \in Tasks : Owes(t, w))
  /\ phase = "recovering" /\ Live(w) =>
       w \in pending \/ IF registered THEN w \in timers ELSE \E t \in Tasks : Owes(t, w)
  /\ crashes = 0 =>
       \/ hot[w] = "none" \/ (Live(w) /\ hot[w] = doc[w].status)
       \/ \E t \in Tasks : Mirroring(t, w)

FInv ==
  /\ Sole /\ OneRecovers /\ Down
  /\ \A t \in Tasks : Coroutine(t)
  /\ \A w \in Workflows : Instance(w)

\* A step of t on behalf of w: whatever belongs to another instance stays.
Elsewhere(t, w) ==
  /\ task[t].pc = "idle" \/ task[t].wid = w
  /\ (task'[t]).pc = "idle" \/ (task'[t]).wid = w
  /\ \A u \in Tasks \ {t} : task'[u] = task[u]
  /\ \A v \in Workflows \ {w} :
       /\ doc'[v] = doc[v] /\ hot'[v] = hot[v]
       /\ v \in timers' <=> v \in timers
       /\ v \in pending' <=> v \in pending
  /\ UNCHANGED <<registered, phase, crashes>>

LEMMA ElsewhereKept ==
  ASSUME TypeOK, FInv, NEW t \in Tasks, NEW w \in Workflows, Elsewhere(t, w)
  PROVE  /\ \A v \in Workflows \ {w} : Instance(v)'
         /\ \A u \in Tasks \ {t} : task[u].wid # w => Coroutine(u)'
<1>1. ASSUME NEW v \in Workflows \ {w} PROVE Instance(v)'
  <2>1. Instance(v)
    BY DEF FInv
  <2>2. \A u \in Tasks : (Owes(u, v) => Owes(u, v)') /\ (Mirroring(u, v) => Mirroring(u, v)')
    BY DEF Elsewhere, Owes, Mirroring
  <2>3. QED
    BY <2>1, <2>2 DEF Instance, Elsewhere, Live
<1>2. ASSUME NEW u \in Tasks \ {t}, task[u].wid # w PROVE Coroutine(u)'
  <2>1. task'[u] = task[u] /\ task[u].wid \in Workflows
    BY DEF Elsewhere, TypeOK, TaskStates
  <2>2. Coroutine(u)
    BY DEF FInv
  <2>3. task[u].pc # "idle" => Errand(u)'
    BY <1>2, <2>1, <2>2 DEF Coroutine, Errand, Elsewhere
  <2>4. task[u].pc # "idle" => Knows(u)'
    BY <1>2, <2>1, <2>2 DEF Coroutine, Knows, Elsewhere, Live
  <2>5. QED
    BY <2>1, <2>3, <2>4 DEF Coroutine
<1>3. QED
  BY <1>1, <1>2

\* Whoever shares an instance with its worker is a resume about to arm it.
LEMMA Company ==
  ASSUME TypeOK, FInv, NEW t \in Tasks, NEW w \in Workflows, Working(t, w),
         NEW u \in Tasks \ {t}, task[u].pc # "idle", task[u].wid = w
  PROVE  /\ task[u].kind = "resume" /\ task[u].pc = "rearm"
         /\ task[t].kind # "start" /\ doc[w] # NoDoc
<1>1. Errand(t) /\ Errand(u)
  BY DEF FInv, Coroutine, Working
<1>2. ~Working(u, w)
  BY DEF FInv, Sole
<1>3. task[u].pc = "rearm"
  BY <1>2 DEF Working
<1>4. QED
  BY <1>1, <1>3 DEF Errand, Working

\* A step of the worker of w has to be looked at for w and itself only.
LEMMA WorkKept ==
  ASSUME TypeOK, FInv, NEW t \in Tasks, NEW w \in Workflows, Working(t, w), Elsewhere(t, w),
         doc[w] # NoDoc => doc'[w] # NoDoc, Coroutine(t)', Instance(w)'
  PROVE  FInv'
<1>1. \A v \in Workflows : Instance(v)'
  BY ElsewhereKept
<1>2. ASSUME NEW u \in Tasks \ {t}, task[u].wid = w PROVE Coroutine(u)'
  <2>1. task'[u] = task[u] /\ registered' = registered /\ phase' = phase
    BY DEF Elsewhere
  <2>2. task[u].pc # "idle" => /\ task[u].kind = "resume" /\ task[u].pc = "rearm" /\ doc[w] # NoDoc
                               /\ Errand(u)
    BY <1>2, Company DEF FInv, Coroutine
  <2>3. task[u].pc # "idle" => Errand(u)' /\ Knows(u)'
    BY <1>2, <2>1, <2>2 DEF Errand, Knows
  <2>4. QED
    BY <2>1, <2>3 DEF Coroutine
<1>3. \A u \in Tasks : Coroutine(u)'
  BY <1>2, ElsewhereKept
<1>4. task[t].pc # "idle" /\ task[t].wid = w
  BY DEF Working
<1>5. Sole'
  BY <1>4 DEF FInv, Sole, Working, Elsewhere
<1>6. OneRecovers'
  BY <1>4 DEF FInv, OneRecovers, Elsewhere
<1>7. Down'
  BY <1>4 DEF FInv, Down, AllIdle, Elsewhere
<1>8. QED
  BY <1>1, <1>3, <1>5, <1>6, <1>7 DEF FInv

\* The read and the decisions of the workflow, inside the lock: what the
\* coroutine goes on with is what is stored, and it still owes the timeout.
LEMMA DriveKept ==
  ASSUME TypeOK, FInv, NEW t \in Tasks, NEW w \in Workflows, task[t].wid = w,
         Read(t) \/ DriveTimeout(t) \/ DriveEntry(t) \/ ProfileRefused(t) \/ ProfileBinds(t)
           \/ ProfileCompletes(t)
  PROVE  FInv'
<1> DEFINE d == doc[w]
<1>0. /\ task[t] \in TaskStates /\ task[t].st \in Docs /\ d \in Docs
  BY DEF TypeOK, TaskStates
<1>1. task[t].pc \in {"read", "drive", "bound"} /\ phase # "down"
  BY DEF Read, DriveTimeout, DriveEntry, ProfileRefused, ProfileBinds, ProfileCompletes, At
<1>2. Errand(t) /\ Knows(t) /\ Instance(w) /\ Working(t, w)
  BY <1>0, <1>1 DEF FInv, Coroutine, Working
<1>3. /\ task[t].kind \in {"confirm", "submit", "timeout"} /\ task[t].held /\ phase = "up"
      /\ d # NoDoc /\ d.status # "ABSENT"
  BY <1>0, <1>1, <1>2 DEF Errand, Instance, TypeOK
<1>4. Live(w) => registered
  BY <1>2, <1>3 DEF Instance
<1>5. Elsewhere(t, w)
  BY <1>0 DEF Elsewhere, TypeOK, TaskStates, Read, DriveTimeout, DriveEntry, ProfileRefused,
              ProfileBinds, ProfileCompletes, Apply, GoTo
<1>6. CASE Read(t)
  <2>1. ~Live(w) => Inert(d)
    BY <1>0, <1>3 DEF Live, Inert, Docs, Statuses
  <2>2. Inert(d) => ~Live(w)
    BY DEF Live, Inert, Terminal
  <2>3. task' = [task EXCEPT ![t].st = d, ![t].pc = IF Live(w) THEN "drive" ELSE "release"]
    BY <2>1, <2>2, <1>0, <1>4, <1>6 DEF Read, TypeOK, TaskStates
  <2>4. Coroutine(t)'
    BY <2>3, <1>0, <1>2, <1>3, <1>6 DEF Coroutine, Errand, Knows, Read, TypeOK, TaskStates, Live
  <2>5. Instance(w)'
    <3>1. \A u \in Tasks : Mirroring(u, w) => Mirroring(u, w)'
      BY <1>6, <2>3, <1>0 DEF Mirroring, Read, At, TypeOK, TaskStates
    <3>2. Live(w) => Owes(t, w)'
      BY <2>3, <1>0 DEF Owes, TypeOK, TaskStates
    <3>3. QED
      BY <3>1, <3>2, <1>2, <1>3, <1>6 DEF Instance, Read, Live
  <2>6. QED
    BY <2>4, <2>5, <1>0, <1>2, <1>3, <1>5, <1>6, WorkKept DEF Read
<1>7. CASE ~Read(t)
  <2>1. d = task[t].st /\ Live(w) /\ registered /\ doc' = doc /\ task[t].pc \in {"drive", "bound"}
    BY <1>2, <1>4, <1>7 DEF Knows, DriveTimeout, DriveEntry, ProfileRefused, ProfileBinds,
                            ProfileCompletes, At
  <2>2. /\ task'[t] \in TaskStates
        /\ (task'[t]).pc \in {"save", "bound"} /\ (task'[t]).wid = w /\ (task'[t]).kind = task[t].kind
        /\ (task'[t]).held
        /\ (task'[t]).pc = "bound" => (task'[t]).st = d
        /\ (task'[t]).st.status # "ABSENT"
    <3> USE <1>0, <1>3, <2>1 DEF TypeOK
    <3>p. {"save", "bound"} \subseteq Points /\ d.status = "IN_PROGRESS"
      BY DEF Points, Live
    <3>1. ASSUME NEW s \in Docs, Apply(t, s)
          PROVE  /\ task'[t] \in TaskStates /\ (task'[t]).pc = "save" /\ (task'[t]).wid = w
                 /\ (task'[t]).kind = task[t].kind /\ (task'[t]).held /\ (task'[t]).st = s
      BY <3>1, <3>p DEF Apply, TaskStates
    <3>2. CASE DriveTimeout(t)
      <4>1. TimedOut(d) \in Docs /\ TimedOut(d).status = "CANCELLED"
        BY DEF TimedOut, Docs, Statuses, Terminal
      <4>2. QED
        BY <3>1, <3>2, <4>1 DEF DriveTimeout
    <3>3. CASE DriveEntry(t)
      <4>1. /\ [d EXCEPT !.step = "profile"] \in Docs /\ [d EXCEPT !.step = "profile"].status = d.status
            /\ [d EXCEPT !.status = "CANCELLED"] \in Docs
            /\ [d EXCEPT !.status = "CANCELLED"].status = "CANCELLED"
        BY DEF Docs, Statuses, Terminal
      <4>2. QED
        BY <3>1, <3>3, <3>p, <4>1 DEF DriveEntry
    <3>4. CASE ProfileRefused(t)
      <4>1. [d EXCEPT !.err = TRUE] \in Docs /\ [d EXCEPT !.err = TRUE].status = d.status
        BY DEF Docs
      <4>2. QED
        BY <3>1, <3>4, <3>p, <4>1 DEF ProfileRefused
    <3>5. CASE ProfileBinds(t)
      BY <3>5, <3>p DEF ProfileBinds, GoTo, TaskStates
    <3>6. CASE ProfileCompletes(t)
      <4>1. Completed(d) \in Docs /\ Completed(d).status = "COMPLETED"
        BY DEF Completed, Docs, Statuses, Terminal
      <4>2. QED
        BY <3>1, <3>6, <4>1 DEF ProfileCompletes
    <3>7. QED
      BY <3>2, <3>3, <3>4, <3>5, <3>6, <1>7
  <2>3. UNCHANGED <<doc, hot, registered, phase, pending, timers, crashes>>
    BY <1>7 DEF DriveTimeout, DriveEntry, ProfileRefused, ProfileBinds, ProfileCompletes
  <2>4. Coroutine(t)'
    BY <2>1, <2>2, <2>3, <1>2, <1>3 DEF Coroutine, Errand, Knows, Live
  <2>5. Instance(w)'
    <3>1. \A u \in Tasks : Mirroring(u, w) => Mirroring(u, w)'
      BY <1>5, <2>1 DEF Mirroring, Elsewhere
    <3>2. Owes(t, w)'
      BY <2>2 DEF Owes
    <3>3. QED
      BY <3>1, <3>2, <1>2, <1>3, <2>1, <2>3 DEF Instance, Live
  <2>6. QED
    BY <2>4, <2>5, <1>0, <1>2, <1>5, <2>3, WorkKept
<1>8. QED
  BY <1>6, <1>7

\* _apply: each of its writes leaves the document, the hot copy and the timer
\* as the next one of the same coroutine expects them.
LEMMA SaveKept ==
  ASSUME TypeOK, FInv, NEW t \in Tasks, NEW w \in Workflows, task[t].wid = w, Save(t)
  PROVE  FInv'
<1>0. /\ task[t] \in TaskStates /\ task[t].pc = "save" /\ phase # "down"
      /\ task' = [task EXCEPT ![t].pc = "mirror"] /\ doc' = [doc EXCEPT ![w] = task[t].st]
      /\ UNCHANGED <<hot, registered, phase, pending, timers, crashes>>
  BY DEF Save, GoTo, At, TypeOK
<1>1. Errand(t) /\ Knows(t) /\ Instance(w) /\ Working(t, w)
  BY <1>0 DEF FInv, Coroutine, Working
<1>2. Elsewhere(t, w)
  BY <1>0 DEF Elsewhere, TypeOK, TaskStates
<1>3. doc'[w] = task[t].st /\ doc'[w].status # "ABSENT" /\ doc'[w] # NoDoc
  BY <1>0, <1>1 DEF Knows, NoDoc, TypeOK
<1>4. /\ task'[t] \in TaskStates /\ (task'[t]).pc = "mirror" /\ (task'[t]).wid = w
      /\ (task'[t]).kind = task[t].kind /\ (task'[t]).held = task[t].held /\ (task'[t]).st = task[t].st
      /\ \A u \in Tasks \ {t} : task'[u] = task[u]
  BY <1>0 DEF TypeOK, TaskStates, Points
<1>5. Coroutine(t)'
  BY <1>0, <1>1, <1>3, <1>4 DEF Coroutine, Errand, Knows
<1>6. Instance(w)'
  <2>1. Owes(t, w)' /\ Mirroring(t, w)'
    BY <1>4 DEF Owes, Mirroring
  <2>2. phase = "recovering" => ~Live(w)'
    BY <1>0, <1>1, <1>3 DEF Errand, Live
  <2>3. phase = "up" => registered
    BY <1>0, <1>1 DEF Knows
  <2>4. w \notin pending
    BY <1>0, <1>1, <2>2, <1>3 DEF Instance, Errand
  <2>5. QED
    BY <1>0, <1>3, <2>1, <2>2, <2>3, <2>4 DEF Instance, TypeOK
<1>7. QED
  BY <1>1, <1>2, <1>3, <1>5, <1>6, WorkKept

LEMMA MirrorKept ==
  ASSUME TypeOK, FInv, NEW t \in Tasks, NEW w \in Workflows, task[t].wid = w, Mirror(t)
  PROVE  FInv'
<1>0. /\ task[t] \in TaskStates /\ task[t].pc = "mirror" /\ phase # "down"
      /\ task' = [task EXCEPT ![t].pc = "settle"] /\ hot' = [hot EXCEPT ![w] = task[t].st.status]
      /\ UNCHANGED <<doc, registered, phase, pending, timers, crashes>>
  BY DEF Mirror, GoTo, At, TypeOK
<1>1. Errand(t) /\ Knows(t) /\ Instance(w) /\ Working(t, w)
  BY <1>0 DEF FInv, Coroutine, Working
<1>2. Elsewhere(t, w)
  BY <1>0 DEF Elsewhere, TypeOK, TaskStates
<1>3. hot'[w] = task[t].st.status
  BY <1>0 DEF TypeOK
<1>4. /\ task'[t] \in TaskStates /\ (task'[t]).pc = "settle" /\ (task'[t]).wid = w
      /\ (task'[t]).kind = task[t].kind /\ (task'[t]).held = task[t].held /\ (task'[t]).st = task[t].st
      /\ \A u \in Tasks \ {t} : task'[u] = task[u]
  BY <1>0 DEF TypeOK, TaskStates, Points
<1>5. Coroutine(t)'
  BY <1>0, <1>1, <1>3, <1>4 DEF Coroutine, Errand, Knows, Live
<1>6. Instance(w)'
  <2>1. Owes(t, w)' /\ Mirroring(t, w)'
    BY <1>4 DEF Owes, Mirroring
  <2>2. \A u \in Tasks : Owes(u, w) => Owes(u, w)'
    BY <1>4, <2>1 DEF Owes
  <2>3. QED
    BY <1>0, <1>1, <2>1, <2>2 DEF Instance, Live
<1>7. QED
  BY <1>0, <1>1, <1>2, <1>5, <1>6, WorkKept

LEMMA SettleKept ==
  ASSUME TypeOK, FInv, NEW t \in Tasks, NEW w \in Workflows, task[t].wid = w, Settle(t)
  PROVE  FInv'
<1>0. /\ task[t] \in TaskStates /\ task[t].pc = "settle" /\ phase # "down"
      /\ UNCHANGED <<doc, hot, registered, phase, pending, crashes>>
  BY DEF Settle, At, TypeOK
<1>1. Errand(t) /\ Knows(t) /\ Instance(w) /\ Working(t, w)
  BY <1>0 DEF FInv, Coroutine, Working
<1>2. doc[w] = task[t].st /\ doc[w] \in Docs
  BY <1>0, <1>1 DEF Knows, TypeOK
<1>3. CASE Live(w)
  <2>1. task' = [task EXCEPT ![t].pc = "release"] /\ timers' = timers \cup {w}
    BY <1>2, <1>3 DEF Settle, KeepsTimeout, GoTo, Live
  <2>2. /\ task'[t] \in TaskStates /\ (task'[t]).pc = "release" /\ (task'[t]).wid = w
        /\ (task'[t]).kind = task[t].kind /\ (task'[t]).held = task[t].held /\ (task'[t]).st = task[t].st
        /\ \A u \in Tasks \ {t} : task'[u] = task[u]
    BY <2>1, <1>0 DEF TypeOK, TaskStates, Points
  <2>3. Elsewhere(t, w)
    BY <1>0, <2>1, <2>2 DEF Elsewhere
  <2>4. Coroutine(t)'
    BY <1>0, <1>1, <1>2, <1>3, <2>1, <2>2 DEF Coroutine, Errand, Knows, Live
  <2>5. Instance(w)'
    <3>1. phase = "up" /\ doc[w] # NoDoc
      BY <1>0, <1>1, <1>2, <1>3 DEF Errand, Live, NoDoc, TypeOK
    <3>2. crashes = 0 => hot[w] = doc[w].status
      BY <1>0, <1>1, <1>2 DEF Knows
    <3>3. QED
      BY <1>0, <1>1, <1>3, <2>1, <3>1, <3>2 DEF Instance, Live
  <2>6. QED
    BY <1>0, <1>1, <2>3, <2>4, <2>5, WorkKept
<1>4. CASE ~Live(w)
  <2>1. task' = [task EXCEPT ![t].pc = "drop"] /\ timers' = timers \ {w}
    BY <1>2, <1>4 DEF Settle, KeepsTimeout, GoTo, Live
  <2>2. /\ task'[t] \in TaskStates /\ (task'[t]).pc = "drop" /\ (task'[t]).wid = w
        /\ (task'[t]).kind = task[t].kind /\ (task'[t]).held = task[t].held /\ (task'[t]).st = task[t].st
        /\ \A u \in Tasks \ {t} : task'[u] = task[u]
    BY <2>1, <1>0 DEF TypeOK, TaskStates, Points
  <2>3. Elsewhere(t, w)
    BY <1>0, <2>1, <2>2 DEF Elsewhere
  <2>4. Coroutine(t)'
    BY <1>0, <1>1, <1>2, <1>4, <2>1, <2>2 DEF Coroutine, Errand, Knows, Live
  <2>5. Instance(w)'
    <3>1. Mirroring(t, w)'
      BY <2>2 DEF Mirroring
    <3>2. QED
      BY <1>0, <1>1, <1>4, <2>1, <3>1 DEF Instance, Live
  <2>6. QED
    BY <1>0, <1>1, <2>3, <2>4, <2>5, WorkKept
<1>5. QED
  BY <1>3, <1>4

LEMMA DropKept ==
  ASSUME TypeOK, FInv, NEW t \in Tasks, NEW w \in Workflows, task[t].wid = w, DropHot(t)
  PROVE  FInv'
<1>0. /\ task[t] \in TaskStates /\ task[t].pc = "drop" /\ phase # "down"
      /\ task' = [task EXCEPT ![t].pc = "release"] /\ hot' = [hot EXCEPT ![w] = "none"]
      /\ UNCHANGED <<doc, registered, phase, pending, timers, crashes>>
  BY DEF DropHot, HotDropped, GoTo, At, TypeOK
<1>1. Errand(t) /\ Knows(t) /\ Instance(w) /\ Working(t, w)
  BY <1>0 DEF FInv, Coroutine, Working
<1>2. Elsewhere(t, w)
  BY <1>0 DEF Elsewhere, TypeOK, TaskStates
<1>3. hot'[w] = "none" /\ ~Live(w)
  BY <1>0, <1>1 DEF TypeOK, Knows
<1>4. /\ task'[t] \in TaskStates /\ (task'[t]).pc = "release" /\ (task'[t]).wid = w
      /\ (task'[t]).kind = task[t].kind /\ (task'[t]).held = task[t].held /\ (task'[t]).st = task[t].st
      /\ \A u \in Tasks \ {t} : task'[u] = task[u]
  BY <1>0 DEF TypeOK, TaskStates, Points
<1>5. Coroutine(t)'
  BY <1>0, <1>1, <1>3, <1>4 DEF Coroutine, Errand, Knows, Live
<1>6. Instance(w)'
  BY <1>0, <1>1, <1>3 DEF Instance, Live
<1>7. QED
  BY <1>0, <1>1, <1>2, <1>5, <1>6, WorkKept

\* A coroutine that ends owes nothing any more.
LEMMA ReleaseKept ==
  ASSUME TypeOK, FInv, NEW t \in Tasks, NEW w \in Workflows, task[t].wid = w, Release(t)
  PROVE  FInv'
<1>0. /\ task[t].pc = "release" /\ task' = [task EXCEPT ![t] = Rest]
      /\ UNCHANGED <<doc, hot, registered, phase, pending, timers, crashes>>
  BY DEF Release, Finish, At
<1>1. Instance(w) /\ Working(t, w)
  BY <1>0 DEF FInv, Working
<1>2. task'[t] = Rest /\ \A u \in Tasks \ {t} : task'[u] = task[u]
  BY <1>0 DEF TypeOK
<1>3. Elsewhere(t, w)
  BY <1>0, <1>2, RestType DEF Elsewhere
<1>4. Coroutine(t)'
  BY <1>2, RestType DEF Coroutine
<1>5. Instance(w)'
  <2>1. \A u \in Tasks : (Owes(u, w) => Owes(u, w)') /\ (Mirroring(u, w) => Mirroring(u, w)')
    BY <1>0, <1>2 DEF Owes, Mirroring
  <2>2. QED
    BY <1>0, <1>1, <2>1 DEF Instance, Live
<1>6. QED
  BY <1>0, <1>1, <1>3, <1>4, <1>5, WorkKept

\* resume arms the timeout and ends; it disturbs no worker of the instance.
LEMMA RearmKept ==
  ASSUME TypeOK, FInv, NEW t \in Tasks, NEW w \in Workflows, task[t].wid = w, Rearm(t)
  PROVE  FInv'
<1>0. /\ task[t].pc = "rearm" /\ phase # "down"
      /\ task' = [task EXCEPT ![t] = Rest] /\ timers' = timers \cup {w}
      /\ UNCHANGED <<doc, hot, registered, phase, pending, crashes>>
  BY DEF Rearm, Finish, At
<1>1. Errand(t) /\ Instance(w)
  BY <1>0 DEF FInv, Coroutine
<1>2. task[t].kind = "resume" /\ doc[w] # NoDoc /\ phase = "up"
  BY <1>0, <1>1 DEF Errand, TypeOK
<1>3. task'[t] = Rest /\ \A u \in Tasks \ {t} : task'[u] = task[u]
  BY <1>0 DEF TypeOK
<1>4. Elsewhere(t, w)
  BY <1>0, <1>3, RestType DEF Elsewhere
<1>5. ASSUME NEW u \in Tasks \ {t}, task[u].wid = w PROVE Coroutine(u)'
  <2>1. task[u].pc # "idle" => Errand(u) /\ Knows(u) /\ task[u].kind # "start"
    BY <1>0, <1>5 DEF FInv, Coroutine, Errand
  <2>2. task[u].pc # "idle" => Errand(u)'
    BY <1>0, <1>3, <1>5, <2>1 DEF Errand
  <2>3. task[u].pc # "idle" => Knows(u)'
    BY <1>0, <1>3, <1>5, <2>1 DEF Knows, Live
  <2>4. QED
    BY <1>3, <2>2, <2>3 DEF Coroutine
<1>6. \A u \in Tasks : Coroutine(u)'
  <2>1. Coroutine(t)'
    BY <1>3, RestType DEF Coroutine
  <2>2. QED
    BY <1>4, <1>5, <2>1, ElsewhereKept
<1>7. Instance(w)'
  <2>1. \A u \in Tasks : Mirroring(u, w) => Mirroring(u, w)'
    BY <1>0, <1>3 DEF Mirroring
  <2>2. QED
    BY <1>0, <1>1, <1>2, <2>1 DEF Instance, Live
<1>8. \A v \in Workflows : Instance(v)'
  BY <1>4, <1>7, ElsewhereKept
<1>9. Sole' /\ OneRecovers' /\ Down'
  BY <1>0, <1>2, <1>3, RestType DEF FInv, Sole, Working, OneRecovers, Down
<1>10. QED
  BY <1>6, <1>8, <1>9 DEF FInv

\* A coroutine that starts on w while the engine is up: whoever is at w then
\* is a resume, or the new coroutine only is one.
LEMMA StartKept ==
  ASSUME TypeOK, FInv, NEW t \in Tasks, NEW w \in Workflows, Idle(t), Elsewhere(t, w),
         doc' = doc, hot' = hot, pending' = pending,
         \A u \in Tasks \ {t} : Working(u, w) => ~Working(t, w)',
         \A u \in Tasks \ {t} : task[u].pc # "idle" /\ task[u].wid = w =>
           /\ task[u].kind # "start"
           /\ w \in timers /\ w \notin timers' => task[u].pc # "release",
         w \in timers => w \in timers' \/ Owes(t, w)',
         w \in timers' => w \in timers, Coroutine(t)'
  PROVE  FInv'
<1>0. /\ task[t].pc = "idle" /\ phase = "up" /\ UNCHANGED <<registered, phase, crashes>>
      /\ \A u \in Tasks \ {t} : task'[u] = task[u]
  BY DEF Idle, Elsewhere
<1>1. ASSUME NEW u \in Tasks \ {t}, task[u].wid = w PROVE Coroutine(u)'
  <2>1. task[u].pc # "idle" => Errand(u) /\ Knows(u) /\ task[u].kind # "start"
    BY <1>1 DEF FInv, Coroutine
  <2>2. task[u].pc # "idle" => Errand(u)'
    BY <1>0, <1>1, <2>1 DEF Errand
  <2>3. task[u].pc # "idle" => Knows(u)'
    BY <1>0, <1>1, <2>1 DEF Knows, Live
  <2>4. QED
    BY <1>0, <2>2, <2>3 DEF Coroutine
<1>2. \A u \in Tasks : Coroutine(u)'
  BY <1>1, ElsewhereKept
<1>3. Instance(w)'
  <2>1. Instance(w)
    BY DEF FInv
  <2>2. \A u \in Tasks : (Owes(u, w) => Owes(u, w)') /\ (Mirroring(u, w) => Mirroring(u, w)')
    BY <1>0 DEF Owes, Mirroring
  <2>3. QED
    BY <1>0, <2>1, <2>2 DEF Instance, Live
<1>4. \A v \in Workflows : Instance(v)'
  BY <1>3, ElsewhereKept
<1>5. Sole'
  <2>1. ASSUME NEW v \in Workflows, NEW x \in Tasks, NEW y \in Tasks, Working(x, v)', Working(y, v)'
        PROVE  x = y
    <3>1. CASE x # t /\ y # t
      BY <1>0, <2>1, <3>1 DEF FInv, Sole, Working
    <3>2. CASE x = t \/ y = t
      BY <1>0, <2>1, <3>2 DEF Working, Elsewhere
    <3>3. QED
      BY <3>1, <3>2
  <2>2. QED
    BY <2>1 DEF Sole
<1>6. OneRecovers' /\ Down'
  BY <1>0 DEF OneRecovers, Down
<1>7. QED
  BY <1>2, <1>4, <1>5, <1>6 DEF FInv

\* A coroutine that runs inside the lock finds nobody but a resume there: a
\* holder has the lock, and the id of an unfinished start is not known yet.
LEMMA Vacant ==
  ASSUME TypeOK, LockOwned, FInv, NEW w \in Workflows, phase = "up", Acquirable(w),
         NEW u \in Tasks, task[u].pc # "idle", task[u].wid = w
  PROVE  task[u].kind \in {"start", "resume"} /\ (task[u].kind = "resume" => ~Working(u, w))
<1>1. Errand(u)
  BY DEF FInv, Coroutine
<1>2. ~task[u].held
  BY NoLockAssumption DEF LockOwned, Holding, Acquirable
<1>3. QED
  BY <1>1, <1>2 DEF Errand, Working

\* The entry points, and the timer that fires.
LEMMA EntryKept ==
  ASSUME TypeOK, LockOwned, FInv, NEW t \in Tasks, NEW w \in Workflows,
         \/ StartWorkflow(t, w) \/ Resume(t, w) \/ TimerFires(t, w)
         \/ \E k \in {"confirm", "submit"} : Interact(t, w, k)
  PROVE  FInv'
<1>0. Instance(w) /\ task[t] \in TaskStates
  BY DEF FInv, TypeOK
<1>1. CASE StartWorkflow(t, w)
  <2> DEFINE first == [step |-> "entry", status |-> "IN_PROGRESS", err |-> FALSE]
             new == [pc |-> "save", wid |-> w, kind |-> "start", st |-> first, held |-> FALSE]
  <2>1. /\ Idle(t) /\ registered /\ doc[w] = NoDoc /\ ~Busy(w)
        /\ task' = [task EXCEPT ![t] = new]
        /\ UNCHANGED <<doc, hot, registered, phase, pending, timers, crashes>>
    BY <1>1 DEF StartWorkflow, Begin
  <2>2. task'[t] = new /\ \A u \in Tasks \ {t} : task'[u] = task[u]
    BY <2>1 DEF TypeOK
  <2>3. Elsewhere(t, w)
    BY <2>1, <2>2 DEF Elsewhere, Idle
  <2>4. \A u \in Tasks : task[u].pc = "idle" \/ task[u].wid # w
    BY <2>1 DEF Busy
  <2>5. w \notin timers
    BY <1>0, <2>1 DEF Instance
  <2>6. Coroutine(t)'
    BY <2>1, <2>2, <2>4, <2>5 DEF Coroutine, Errand, Knows, Idle
  <2>7. QED
    BY <2>1, <2>3, <2>4, <2>6, StartKept DEF Working
<1>2. CASE Resume(t, w)
  <2> DEFINE new == [pc |-> "rearm", wid |-> w, kind |-> "resume", st |-> doc[w], held |-> FALSE]
  <2>1. /\ Idle(t) /\ Known(w) /\ Live(w)
        /\ task' = [task EXCEPT ![t] = new]
        /\ UNCHANGED <<doc, hot, registered, phase, pending, timers, crashes>>
    BY <1>2 DEF Resume, Begin
  <2>2. task'[t] = new /\ \A u \in Tasks \ {t} : task'[u] = task[u]
    BY <2>1 DEF TypeOK
  <2>3. Elsewhere(t, w)
    BY <2>1, <2>2 DEF Elsewhere, Idle
  <2>4. registered /\ doc[w] # NoDoc
    BY <1>0, <2>1 DEF Instance, Idle, Known
  <2>5. Coroutine(t)'
    BY <2>1, <2>2, <2>4 DEF Coroutine, Errand, Knows, Idle
  <2>6. ~Working(t, w)'
    BY <2>2 DEF Working
  <2>7. QED
    BY <2>1, <2>3, <2>5, <2>6, StartKept DEF Known
<1>3. ASSUME NEW k \in {"confirm", "submit"}, Interact(t, w, k) PROVE FInv'
  <2> DEFINE new == [pc |-> "read", wid |-> w, kind |-> k, st |-> NoDoc, held |-> TRUE]
  <2>1. /\ Idle(t) /\ Known(w) /\ Acquirable(w)
        /\ task' = [task EXCEPT ![t] = new]
        /\ UNCHANGED <<doc, hot, registered, phase, pending, timers, crashes>>
    BY <1>3 DEF Interact, Begin
  <2>2. task'[t] = new /\ \A u \in Tasks \ {t} : task'[u] = task[u]
    BY <2>1 DEF TypeOK
  <2>3. Elsewhere(t, w)
    BY <2>1, <2>2 DEF Elsewhere, Idle
  <2>4. \A u \in Tasks : task[u].pc # "idle" /\ task[u].wid = w => task[u].kind # "start" /\ ~Working(u, w)
    BY <2>1, Vacant DEF Known, Idle
  <2>5. Coroutine(t)'
    BY <2>1, <2>2 DEF Coroutine, Errand, Knows, Idle, Known
  <2>6. QED
    BY <2>1, <2>3, <2>4, <2>5, StartKept DEF Working
<1>4. CASE TimerFires(t, w)
  <2> DEFINE new == [pc |-> "read", wid |-> w, kind |-> "timeout", st |-> NoDoc, held |-> TRUE]
  <2>1. /\ Idle(t) /\ w \in timers /\ ~JustArmed(w) /\ Acquirable(w)
        /\ task' = [task EXCEPT ![t] = new] /\ timers' = timers \ {w}
        /\ UNCHANGED <<doc, hot, registered, phase, pending, crashes>>
    BY <1>4 DEF TimerFires, Begin
  <2>2. task'[t] = new /\ \A u \in Tasks \ {t} : task'[u] = task[u]
    BY <2>1 DEF TypeOK
  <2>3. Elsewhere(t, w)
    BY <2>1, <2>2 DEF Elsewhere, Idle
  <2>4. ASSUME NEW u \in Tasks, task[u].pc # "idle", task[u].wid = w
        PROVE  task[u].kind # "start" /\ ~Working(u, w) /\ task[u].pc # "release"
    <3>1. Errand(u) /\ task[u].kind \in {"start", "resume"}
      BY <2>1, <2>4, Vacant DEF Idle, FInv, Coroutine
    <3>2. task[u].pc # "release"
      BY <2>1, <2>4, <3>1 DEF JustArmed
    <3>3. QED
      BY <2>1, <2>4, <3>1, <3>2, Vacant DEF Errand, Idle
  <2>5. Coroutine(t)' /\ Owes(t, w)'
    BY <1>0, <2>1, <2>2 DEF Coroutine, Errand, Knows, Idle, Instance, Owes
  <2>6. QED
    BY <2>1, <2>3, <2>4, <2>5, StartKept DEF Working
<1>5. QED
  BY <1>1, <1>2, <1>3, <1>4

\* The timer that meets a held lock dies; the holder arms it again, unless w
\* has ended.
LEMMA TimerLostKept ==
  ASSUME TypeOK, FInv, NEW w \in Workflows, TimerLost(w)
  PROVE  FInv'
<1>0. /\ phase = "up" /\ w \in timers /\ ~JustArmed(w) /\ timers' = timers \ {w}
      /\ UNCHANGED <<doc, hot, registered, phase, pending, task, crashes>>
  BY DEF TimerLost
<1>1. PICK t \in Tasks : Holding(t, w)
  BY DEF TimerLost
<1>2. Errand(t) /\ Knows(t) /\ task[t].held /\ task[t].wid = w /\ task[t].pc # "idle"
  BY <1>1 DEF FInv, Coroutine, Holding
<1>3. Live(w) => Owes(t, w)
  <2>1. task[t] \in TaskStates /\ task[t].pc \notin {"release", "rearm"}
    BY <1>0, <1>2 DEF JustArmed, Errand, TypeOK
  <2>2. task[t].pc = "drop" => ~Live(w)
    BY <1>2 DEF Knows
  <2>3. QED
    BY <1>2, <2>1, <2>2 DEF Owes, TaskStates, Points
<1>4. ASSUME NEW u \in Tasks PROVE Coroutine(u)'
  <2>1. task[u].pc # "idle" => Errand(u) /\ Knows(u)
    BY DEF FInv, Coroutine
  <2>2. task[u].wid = w /\ task[u].pc # "idle" => task[u].pc # "release"
    BY <1>0, <2>1 DEF JustArmed, Errand
  <2>3. task[u].pc # "idle" => Errand(u)'
    BY <1>0, <2>1 DEF Errand
  <2>4. task[u].pc # "idle" => Knows(u)'
    BY <1>0, <2>1, <2>2 DEF Knows, Live
  <2>5. QED
    BY <1>0, <2>3, <2>4 DEF Coroutine
<1>5. ASSUME NEW v \in Workflows PROVE Instance(v)'
  <2>1. Instance(v)
    BY DEF FInv
  <2>2. \A u \in Tasks : Owes(u, v)' = Owes(u, v) /\ Mirroring(u, v)' = Mirroring(u, v)
    BY <1>0 DEF Owes, Mirroring
  <2>3. QED
    BY <1>0, <1>3, <2>1, <2>2 DEF Instance, Live
<1>6. Sole' /\ OneRecovers' /\ Down'
  BY <1>0 DEF FInv, Sole, Working, OneRecovers, Down, AllIdle
<1>7. QED
  BY <1>4, <1>5, <1>6 DEF FInv

\* A TTL that passes takes no hot copy that is being written.
LEMMA ExpiryKept ==
  ASSUME TypeOK, FInv, NEW w \in Workflows, LockExpires(w) \/ HotExpires(w)
  PROVE  FInv'
<1>0. /\ UNCHANGED <<doc, registered, phase, pending, timers, task, crashes>>
      /\ hot' = hot \/ (hot' = [hot EXCEPT ![w] = "none"] /\ ~Busy(w))
  BY DEF LockExpires, HotExpires
<1>1. \A v \in Workflows : hot'[v] = hot[v] \/ (v = w /\ hot'[v] = "none" /\ ~Busy(v))
  BY <1>0 DEF TypeOK
<1>2. ASSUME NEW u \in Tasks PROVE Coroutine(u)'
  <2>1. task[u].wid \in Workflows
    BY DEF TypeOK, TaskStates
  <2>2. task[u].pc # "idle" => Errand(u) /\ Knows(u) /\ hot'[task[u].wid] = hot[task[u].wid]
    BY <1>1, <2>1 DEF FInv, Coroutine, Busy
  <2>3. task[u].pc # "idle" => Errand(u)'
    BY <1>0, <2>2 DEF Errand
  <2>4. task[u].pc # "idle" => Knows(u)'
    BY <1>0, <2>2 DEF Knows, Live
  <2>5. QED
    BY <1>0, <2>3, <2>4 DEF Coroutine
<1>3. ASSUME NEW v \in Workflows PROVE Instance(v)'
  <2>1. Instance(v)
    BY DEF FInv
  <2>2. \A u \in Tasks : Owes(u, v)' = Owes(u, v) /\ Mirroring(u, v)' = Mirroring(u, v)
    BY <1>0 DEF Owes, Mirroring
  <2>3. QED
    BY <1>0, <1>1, <2>1, <2>2 DEF Instance, Live
<1>4. Sole' /\ OneRecovers' /\ Down'
  BY <1>0 DEF FInv, Sole, Working, OneRecovers, Down, AllIdle
<1>5. QED
  BY <1>2, <1>3, <1>4 DEF FInv

\* After a crash nothing runs, nothing is armed and nothing is listed.
LEMMA CrashKept ==
  ASSUME TypeOK, FInv, Crash
  PROVE  FInv'
<1>0. /\ phase' = "down" /\ pending' = {} /\ timers' = {} /\ crashes' = crashes + 1
      /\ UNCHANGED <<doc, hot, registered>> /\ crashes \in Nat
  BY BoundsAssumption DEF Crash, TypeOK
<1>1. \A t \in Tasks : task'[t] = Rest
  BY DEF Crash
<1>2. \A t \in Tasks : Coroutine(t)'
  BY <1>1, RestType DEF Coroutine
<1>3. ASSUME NEW w \in Workflows PROVE Instance(w)'
  BY <1>0 DEF FInv, Instance
<1>4. Sole' /\ OneRecovers' /\ Down'
  BY <1>0, <1>1, RestType DEF Sole, Working, OneRecovers, Down, AllIdle
<1>5. QED
  BY <1>2, <1>3, <1>4 DEF FInv

\* The restart lists every live instance.
LEMMA RestartKept ==
  ASSUME TypeOK, FInv, NEW r \in BOOLEAN, Restart(r)
  PROVE  FInv'
<1>0. /\ phase' = "recovering" /\ pending' = {w \in Workflows : Live(w)}
      /\ UNCHANGED <<doc, hot, timers, task, crashes>> /\ AllIdle
  BY DEF Restart, Resumed, FInv, Down
<1>1. \A t \in Tasks : Coroutine(t)'
  BY <1>0 DEF Coroutine, AllIdle
<1>2. ASSUME NEW w \in Workflows PROVE Instance(w)'
  <2>1. Instance(w)
    BY DEF FInv
  <2>2. \A u \in Tasks : Mirroring(u, w)' = Mirroring(u, w)
    BY <1>0 DEF Mirroring
  <2>3. QED
    BY <1>0, <2>1, <2>2 DEF Instance, Live
<1>3. Sole' /\ OneRecovers' /\ Down'
  BY <1>0 DEF Sole, Working, OneRecovers, Down, AllIdle
<1>4. QED
  BY <1>1, <1>2, <1>3 DEF FInv

\* The recovery of one listed instance re-arms it, or starts to end it.
LEMMA RecoverKept ==
  ASSUME TypeOK, FInv, NEW t \in Tasks, NEW w \in Workflows, RecoverOne(t, w)
  PROVE  FInv'
<1>0. /\ phase = "recovering" /\ AllIdle /\ w \in pending /\ pending' = pending \ {w}
      /\ UNCHANGED <<doc, hot, registered, phase, crashes>>
  BY DEF RecoverOne
<1>1. Instance(w) /\ Live(w) /\ doc[w] \in Docs
  BY <1>0 DEF FInv, Instance, TypeOK
<1>2. doc[w] # NoDoc
  BY <1>1 DEF Live, NoDoc
<1>3. CASE registered
  <2>1. task' = task /\ timers' = timers \cup {w}
    BY <1>3 DEF RecoverOne
  <2>2. Elsewhere(t, w)
    BY <1>0, <2>1 DEF Elsewhere, AllIdle
  <2>3. \A u \in Tasks : Coroutine(u)'
    BY <1>0, <2>1 DEF Coroutine, AllIdle
  <2>4. Instance(w)'
    <3>1. \A u \in Tasks : Mirroring(u, w)' = Mirroring(u, w)
      BY <2>1 DEF Mirroring
    <3>2. QED
      BY <1>0, <1>1, <1>2, <1>3, <2>1, <3>1 DEF Instance, Live
  <2>5. Sole' /\ OneRecovers' /\ Down'
    BY <1>0, <2>1 DEF FInv, Sole, Working, OneRecovers, Down, AllIdle
  <2>6. QED
    BY <2>2, <2>3, <2>4, <2>5, ElsewhereKept DEF FInv
<1>4. CASE ~registered
  <2> DEFINE ended == [doc[w] EXCEPT !.status = "TIMED_OUT"]
             new == [pc |-> "save", wid |-> w, kind |-> "recover", st |-> ended, held |-> FALSE]
  <2>1. task' = [task EXCEPT ![t] = new] /\ timers' = timers
    BY <1>4 DEF RecoverOne, Begin
  <2>2. task'[t] = new /\ \A u \in Tasks \ {t} : task'[u] = task[u]
    BY <2>1 DEF TypeOK
  <2>3. Elsewhere(t, w)
    BY <1>0, <2>1, <2>2 DEF Elsewhere, AllIdle
  <2>4. ended.status = "TIMED_OUT"
    BY <1>1 DEF Docs
  <2>5. \A u \in Tasks : Coroutine(u)'
    <3>1. /\ (task'[t]).pc = "save" /\ (task'[t]).wid = w /\ (task'[t]).kind = "recover"
          /\ ~(task'[t]).held /\ (task'[t]).st = ended
      BY <2>2
    <3>2. (task'[t]).st.status = "TIMED_OUT"
      BY <2>4, <3>1
    <3>3. ~registered' /\ phase' = "recovering" /\ w \notin pending' /\ doc' = doc
      BY <1>0, <1>4
    <3>4. Errand(t)'
      BY <3>1, <3>2, <3>3 DEF Errand
    <3>5. Knows(t)'
      BY <1>1, <3>1, <3>2, <3>3 DEF Knows, Live
    <3>6. QED
      BY <1>0, <2>2, <3>4, <3>5 DEF Coroutine, AllIdle
  <2>6. Instance(w)'
    <3>1. Owes(t, w)' /\ \A u \in Tasks : ~Mirroring(u, w)
      BY <1>0, <2>2 DEF Owes, Mirroring, AllIdle
    <3>2. QED
      BY <1>0, <1>1, <1>2, <1>4, <2>1, <3>1 DEF Instance, Live
  <2>7. Sole' /\ OneRecovers' /\ Down'
    BY <1>0, <2>2 DEF Sole, Working, OneRecovers, Down, AllIdle
  <2>8. QED
    BY <2>3, <2>5, <2>6, <2>7, ElsewhereKept DEF FInv
<1>5. QED
  BY <1>3, <1>4

\* The engine is up when every listed instance is armed or has ended.
LEMMA RecoveredKept ==
  ASSUME TypeOK, FInv, Recovered
  PROVE  FInv'
<1>0. /\ phase = "recovering" /\ pending = {} /\ AllIdle /\ phase' = "up"
      /\ UNCHANGED <<doc, hot, registered, pending, timers, task, crashes>>
  BY DEF Recovered
<1>1. \A t \in Tasks : Coroutine(t)'
  BY <1>0 DEF Coroutine, AllIdle
<1>2. ASSUME NEW w \in Workflows PROVE Instance(w)'
  <2>1. Instance(w) /\ \A u \in Tasks : ~Owes(u, w) /\ ~Mirroring(u, w)
    BY <1>0 DEF FInv, AllIdle, Owes, Mirroring
  <2>2. QED
    BY <1>0, <2>1 DEF Instance, Live
<1>3. Sole' /\ OneRecovers' /\ Down'
  BY <1>0 DEF Sole, Working, OneRecovers, Down, AllIdle
<1>4. QED
  BY <1>1, <1>2, <1>3 DEF FInv

LEMMA FInvStep ==
  ASSUME ~Cancels, ~Faults, TypeOK, LockOwned, FInv, Next
  PROVE  FInv'
<1>1. ASSUME NEW t \in Tasks, Step(t) PROVE FInv'
  <2>1. PICK w \in Workflows : task[t].wid = w
    BY DEF TypeOK, TaskStates
  <2>2. QED
    BY <1>1, <2>1, DriveKept, SaveKept, MirrorKept, SettleKept, DropKept, ReleaseKept, RearmKept DEF Step
<1>2. \A t \in Tasks : ~Fault(t) /\ \A w \in Workflows : ~Cancel(t, w)
  BY DEF Fault, Cancel
<1>3. ASSUME NEW t \in Tasks, NEW w \in Workflows,
             \/ StartWorkflow(t, w) \/ Resume(t, w) \/ TimerFires(t, w) \/ RecoverOne(t, w)
             \/ \E k \in {"confirm", "submit"} : Interact(t, w, k)
      PROVE  FInv'
  BY <1>3, EntryKept, RecoverKept
<1>4. ASSUME NEW w \in Workflows, TimerLost(w) \/ LockExpires(w) \/ HotExpires(w) PROVE FInv'
  BY <1>4, TimerLostKept, ExpiryKept
<1>5. ASSUME NEW r \in BOOLEAN, Restart(r) PROVE FInv'
  BY <1>5, RestartKept
<1>6. ASSUME Crash \/ Recovered PROVE FInv'
  BY <1>6, CrashKept, RecoveredKept
<1>7. QED
  BY <1>1, <1>2, <1>3, <1>4, <1>5, <1>6 DEF Next

LEMMA FInvInit == Init => FInv
<1> SUFFICES ASSUME Init PROVE FInv
  OBVIOUS
<1>1. \A t \in Tasks : task[t] = Rest
  BY DEF Init
<1>2. Sole /\ OneRecovers /\ Down /\ \A t \in Tasks : Coroutine(t)
  BY <1>1, RestType DEF Init, Sole, Working, OneRecovers, Down, AllIdle, Coroutine
<1>3. \A w \in Workflows : Instance(w)
  BY DEF Init, Instance, Live, NoDoc
<1>4. QED
  BY <1>2, <1>3 DEF FInv

LEMMA FInvAlways ==
  ASSUME ~Cancels, ~Faults, ~SlowDrives
  PROVE  Spec => [](TypeOK /\ LockOwned /\ FInv)
<1>1. Init => LockOwned /\ FInv
  BY RestType, FInvInit DEF Init, LockOwned, Holding
<1>2. TypeOK /\ LockOwned /\ FInv /\ [Next]_vars => LockOwned' /\ FInv'
  <2>1. ASSUME LockOwned, UNCHANGED vars PROVE LockOwned'
    BY <2>1 DEF LockOwned, Holding, vars
  <2>2. ASSUME FInv, UNCHANGED vars PROVE FInv'
    BY <2>2 DEF FInv, Sole, Working, OneRecovers, Down, AllIdle, Coroutine, Errand, Knows, Instance,
                Live, Owes, Mirroring, vars
  <2>3. QED
    BY <2>1, <2>2, LockOwnedStep, FInvStep
<1>3. QED
  BY <1>1, <1>2, TypeCorrect, PTL DEF Spec

\* When nobody declines, no call raises and no drive outlasts its lock, a live
\* instance of a running engine has an armed timeout or a coroutine at work,
\* and the hot copy of an instance at rest agrees with its document.
THEOREM NothingForgotten == ~Cancels /\ ~Faults /\ ~SlowDrives => (Spec => []NoneForgotten)
<1> SUFFICES ASSUME ~Cancels, ~Faults, ~SlowDrives PROVE Spec => []NoneForgotten
  OBVIOUS
<1>1. TypeOK /\ FInv => NoneForgotten
  <2> SUFFICES ASSUME TypeOK, FInv, NEW w \in Workflows
               PROVE  /\ phase = "up" /\ Live(w) => w \in timers \/ Busy(w)
                      /\ crashes = 0 /\ ~Busy(w) =>
                           hot[w] = "none" \/ (Live(w) /\ hot[w] = doc[w].status)
    BY DEF NoneForgotten
  <2>1. \A t \in Tasks : Owes(t, w) \/ Mirroring(t, w) => Busy(w)
    BY DEF Owes, Mirroring, Busy
  <2>2. QED
    BY <2>1 DEF FInv, Instance
<1>2. Spec => [](TypeOK /\ LockOwned /\ FInv)
  BY FInvAlways
<1>3. QED
  BY <1>1, <1>2, PTL

\* Under the same conditions the engine implements the lifecycle: a document
\* is written first as live, then only by the one coroutine that read it live.
THEOREM EngineImplementsLifecycle == ~Cancels /\ ~Faults /\ ~SlowDrives => (Spec => LifecycleSpec)
<1> SUFFICES ASSUME ~Cancels, ~Faults, ~SlowDrives PROVE Spec => LifecycleSpec
  OBVIOUS
<1> DEFINE status == [w \in Workflows |-> doc[w].status]
<1>1. Init => LC!Init
  BY DEF Init, LC!Init, NoDoc
<1>2. TypeOK /\ FInv /\ [Next]_vars => [LC!Next]_status
  <2> SUFFICES ASSUME TypeOK, FInv, [Next]_vars, status' # status PROVE LC!Next
    OBVIOUS
  <2>1. doc' # doc
    OBVIOUS
  <2>2. PICK t \in Tasks : Save(t)
    BY <2>1 DEF Next, Step, vars, Rearm, Read, DriveTimeout, DriveEntry, ProfileRefused, ProfileBinds,
         ProfileCompletes, Mirror, Settle, DropHot, Release, Fault, StartWorkflow, Cancel, Resume,
         Interact, TimerFires, RecoverOne, TimerLost, LockExpires, HotExpires, Restart, Crash, Recovered
  <2>3. PICK w \in Workflows : w = task[t].wid
    BY DEF TypeOK, TaskStates
  <2>4. /\ doc' = [doc EXCEPT ![w] = task[t].st] /\ task[t].pc = "save"
        /\ task[t].st \in Docs /\ doc \in [Workflows -> Docs]
    BY <2>2, <2>3 DEF Save, At, TypeOK, TaskStates
  <2>5. Errand(t) /\ Knows(t)
    BY <2>4 DEF FInv, Coroutine
  <2>6. status' = [status EXCEPT ![w] = task[t].st.status]
    BY <2>4
  <2>7. CASE task[t].kind = "start"
    <3>1. status[w] = "ABSENT" /\ task[t].st.status = "IN_PROGRESS"
      BY <2>3, <2>4, <2>5, <2>7 DEF Errand, NoDoc
    <3>2. QED
      BY <2>6, <3>1 DEF LC!Next, LC!Open
  <2>8. CASE task[t].kind # "start"
    <3>1. status[w] = "IN_PROGRESS" /\ task[t].st.status # "ABSENT"
      BY <2>3, <2>4, <2>5, <2>8 DEF Knows, Live
    <3>2. task[t].st.status # "IN_PROGRESS"
      BY <2>6, <3>1
    <3>3. task[t].st.status \in LC!Terminal
      BY <2>4, <3>1, <3>2 DEF Docs, Statuses, Terminal, LC!Terminal
    <3>4. QED
      BY <2>6, <3>1, <3>3 DEF LC!Next, LC!End
  <2>9. QED
    BY <2>7, <2>8
<1>3. Spec => [](TypeOK /\ LockOwned /\ FInv)
  BY FInvAlways
<1>4. QED
  BY <1>1, <1>2, <1>3, PTL DEF Spec, LifecycleSpec, LC!Spec
=============================================================================
