---------------------------- MODULE ErrorReports ----------------------------
(***************************************************************************)
(* The reports of failures: a command, a component of a panel or a gateway *)
(* event fails, the guild's log channel is told, then the bot's operators  *)
(* by direct message unless the same kind of failure was reported to them  *)
(* in the last window; a failed profile form messages them at once.  Each  *)
(* message is awaited, so reports overlap, and what was reported lately is *)
(* only in memory.  A name ending in _bug is a mutated form.               *)
(***************************************************************************)
EXTENDS Naturals

CONSTANTS
  ErrorKinds,  \* the types of exception
  Operators, Reports,
  Never,
  DmWindow,    \* _DM_SPAM_WINDOW_SECONDS
  MaxNow, MaxErrors  \* bounds: time, failures

ASSUME ErrorReportsAssumption ==
  Never \notin Nat /\ DmWindow \in Nat \ {0} /\ {MaxNow, MaxErrors} \subseteq Nat

VARIABLES
  clock,
  recent,   \* per kind: when the process last began to report it to the operators
  reports,  \* per report under way: its kind and step, and the operators left
  heard,    \* history: when each operator was last told of each kind
  unheard,  \* history: per kind, the operators some message did not reach since
  due,      \* history: per kind, the last failure that was to be reported
  errors

reportVars == <<clock, recent, reports, heard, unheard, due, errors>>

NoReport == [kind |-> Never, at |-> "rest", left |-> {}]
ReportsInit ==
  /\ clock = 0 /\ recent = [k \in ErrorKinds |-> Never]
  /\ reports = [r \in Reports |-> NoReport]
  /\ heard = [o \in Operators |-> [k \in ErrorKinds |-> Never]]
  /\ unheard = [k \in ErrorKinds |-> {}] /\ due = recent /\ errors = 0

Becomes(r, x) == reports' = [reports EXCEPT ![r] = x]
Fails(r, k, step, S) ==
  /\ reports[r] = NoReport /\ errors < MaxErrors /\ errors' = errors + 1
  /\ Becomes(r, [kind |-> k, at |-> step, left |-> S])
  /\ UNCHANGED <<clock, recent, heard, unheard, due>>

\* A command fails.  An expired interaction ends there; an error of the platform is
\* first answered with its message.
CommandFails(r, k) == Fails(r, k, "log", {}) \/ Fails(r, k, "answer", {})

\* A component of a panel hands its failure over, whatever it is.
PanelFails(r, k) == Fails(r, k, "log", {})
EventFails(r, k) == Fails(r, k, "log", {})

\* The answer is enough, but for the audit in the log channel; one that does not go
\* through leaves a failure like any other.
AnswerError(r) ==
  /\ reports[r].at = "answer"
  /\ Becomes(r, [reports[r] EXCEPT !.at = "audit"]) \/ Becomes(r, [reports[r] EXCEPT !.at = "failed"])
  /\ UNCHANGED <<clock, recent, heard, unheard, due, errors>>
Audit(r) ==
  /\ reports[r].at \in {"audit", "failed"}
  /\ Becomes(r, IF reports[r].at = "audit" THEN NoReport ELSE [reports[r] EXCEPT !.at = "log"])
  /\ UNCHANGED <<clock, recent, heard, unheard, due, errors>>

\* A failed form of the profile is not held back by the window, nor counted in it.
ProfileFails(r, k) == Fails(r, k, "dm", Operators)

\* The log channel, of the guild or of every guild, was told or not.  The report is
\* noted before its messages are sent.
Allowed_bug(k) == \A j \in ErrorKinds : recent[j] = Never \/ clock - recent[j] >= DmWindow
Allowed(k) == recent[k] = Never \/ clock - recent[k] >= DmWindow
LogDone(r) ==
  /\ reports[r].at = "log"
  /\ LET k == reports[r].kind IN
       /\ due' = [due EXCEPT ![k] = clock]
       /\ IF Allowed(k)
          THEN /\ recent' = [recent EXCEPT ![k] = clock]
               /\ Becomes(r, [reports[r] EXCEPT !.at = "dm", !.left = Operators])
          ELSE UNCHANGED recent /\ Becomes(r, NoReport)
  /\ UNCHANGED <<clock, heard, unheard, errors>>

\* One operator out of reach does not hold back the others.
TellOperator(r) ==
  /\ reports[r].at = "dm"
  /\ \E o \in reports[r].left :
       LET k == reports[r].kind left == reports[r].left \ {o} IN
       /\ \/ heard' = [heard EXCEPT ![o][k] = clock] /\ unheard' = [unheard EXCEPT ![k] = @ \ {o}]
          \/ UNCHANGED heard /\ unheard' = [unheard EXCEPT ![k] = @ \cup {o}]
       /\ Becomes(r, IF left = {} THEN NoReport ELSE [reports[r] EXCEPT !.left = left])
  /\ UNCHANGED <<clock, recent, due, errors>>

\* The process stops, with the messages it was to send, and starts again.
StopReports ==
  /\ reports' = [r \in Reports |-> NoReport] /\ recent' = [k \in ErrorKinds |-> Never]
  /\ reports' # reports \/ recent' # recent
  /\ unheard' = [k \in ErrorKinds |->
       unheard[k] \cup UNION {reports[r].left : r \in {s \in Reports : reports[s].kind = k}}]
  /\ UNCHANGED <<clock, heard, due, errors>>

TimePasses ==
  /\ clock < MaxNow /\ clock' = clock + 1
  /\ UNCHANGED <<recent, reports, heard, unheard, due, errors>>

ReportsNext ==
  \/ TimePasses \/ StopReports
  \/ \E r \in Reports, k \in ErrorKinds :
       CommandFails(r, k) \/ PanelFails(r, k) \/ EventFails(r, k) \/ ProfileFails(r, k)
  \/ \E r \in Reports : AnswerError(r) \/ Audit(r) \/ LogDone(r) \/ TellOperator(r)
ReportsSpec == ReportsInit /\ [][ReportsNext]_reportVars

-----------------------------------------------------------------------------
(* Properties.                                                              *)

\* A report that is held back hides nothing: of each kind of failure that was to be
\* reported, every operator has been told since less than a window before the last one,
\* or is about to be, or was out of reach of the message that should have told, which
\* is not sent again in that window (_dm_report_allowed notes the report first)
\* (report_interaction_error, report_guild_error, dm_admins).
Heard ==
  \A k \in ErrorKinds, o \in Operators :
    \/ due[k] = Never
    \/ o \in unheard[k]
    \/ \E r \in Reports : reports[r].kind = k /\ o \in reports[r].left
    \/ heard[o][k] # Never /\ heard[o][k] + DmWindow > due[k]

=============================================================================
