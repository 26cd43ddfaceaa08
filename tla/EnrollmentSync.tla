--------------------------- MODULE EnrollmentSync ---------------------------
(***************************************************************************)
(* How the profile bindings reach the realtime provider: the sync loop of  *)
(* svc-core (kingdoms.core_process.server), the roster of the game service *)
(* (kingdoms.game_aoe2.server, _EnrollmentPusher) and the reducer filter   *)
(* of ext-aoe2lobby (set_subscribed_profiles).  Three processes, each of   *)
(* which can restart, and two calls between them, each of which can fail.  *)
(***************************************************************************)
EXTENDS Naturals
LOCAL INSTANCE Functions

CONSTANTS
  Profiles, Users, NoUser, None,
  MaxChanges,  \* bound on the changes of the bindings
  MaxFaults    \* bound on restarts, failed calls and closed sessions

ASSUME SyncAssumption == NoUser \notin Users /\ MaxChanges \in Nat /\ MaxFaults \in Nat

VARIABLES
  bound,       \* the bindings: the user of each profile, or NoUser
  known,       \* svc-core's profile-to-user map
  last,        \* svc-core: the ids of the last push that was applied, or None
  step,        \* the sync loop: "sleeping", "loaded", "pushing"
  roster,      \* the game service's roster
  filter,      \* the provider's subscribed ids
  session,     \* the provider has a WebSocket session
  hurt,        \* history: which of an unlink, a restart of the game service
               \* ("game") and one of the provider ("lobby") have happened
  drift,       \* history: what may no longer be what svc-core believes it is:
               \* the provider's "filter", the "roster", the "owner" of a profile
  changes, faults

syncVars == <<bound, known, last, step, roster, filter, session, hurt, drift, changes, faults>>

Maps == UNION {[S -> Users] : S \in SUBSET Profiles}
Empty == [p \in {} |-> NoUser]
Bound == {p \in Profiles : bound[p] # NoUser}
Bindings == [p \in Bound |-> bound[p]]

SyncInit ==
  /\ bound = [p \in Profiles |-> NoUser]
  /\ known = Empty /\ last = None /\ step = "sleeping"
  /\ roster = Empty /\ filter = {} /\ session = FALSE
  /\ hurt = {} /\ drift = {} /\ changes = 0 /\ faults = 0

-----------------------------------------------------------------------------
(* Players bind and unlink their profiles.                                  *)

Rebind(p, u) ==
  /\ changes < MaxChanges /\ changes' = changes + 1
  /\ bound' = [bound EXCEPT ![p] = u]
  /\ UNCHANGED <<known, last, step, roster, filter, session, faults>>

\* The profile was another user's in what is known or on the roster.
Moves(p, u) == \E m \in {known, roster} : p \in DOMAIN m /\ m[p] # u

Bind(p, u) ==
  /\ bound[p] = NoUser /\ Rebind(p, u)
  /\ drift' = IF Moves(p, u) THEN drift \cup {"owner"} ELSE drift
  /\ UNCHANGED hurt
Unlink(p) ==
  /\ bound[p] # NoUser /\ Rebind(p, NoUser)
  /\ hurt' = hurt \cup {"unlink"} /\ UNCHANGED drift

-----------------------------------------------------------------------------
(* One tick of the sync loop.  A name ending in _bug is a mutated form.     *)

\* refresh_bindings.
Load ==
  /\ step = "sleeping" /\ step' = "loaded"
  /\ known' = Bindings
  /\ UNCHANGED <<bound, last, roster, filter, session, hurt, drift, changes, faults>>

\* A push is due when the ids differ from those that were applied.
Due == DOMAIN known # last

\* Nothing to push.  _game_service_alive answers True for the client of the
\* push that set last, so last is kept.
Rest ==
  /\ step = "loaded" /\ ~Due /\ step' = "sleeping"
  /\ UNCHANGED <<bound, known, last, roster, filter, session, hurt, drift, changes, faults>>

\* UpdateEnrollments reaches the game service, which sets its roster.
Roster_bug == [p \in DOMAIN known \ DOMAIN roster |-> known[p]]
Roster == known
Push ==
  /\ step = "loaded" /\ Due /\ step' = "pushing"
  /\ roster' = Roster
  /\ drift' = {"roster"} \cup IF known = Bindings THEN drift \ {"owner"} ELSE drift
  /\ UNCHANGED <<bound, known, last, filter, session, hurt, changes, faults>>

\* UpdateSubscriptions reaches the provider: the filter is replaced, and the
\* answer is TRUE when nothing changed or a session is open.
Applied_bug == FALSE
Applied == filter = DOMAIN known \/ session
Pushed == IF Applied THEN DOMAIN known ELSE last
Filter_bug == filter \cup DOMAIN known
Filter == DOMAIN known
Subscribed ==
  /\ step = "pushing" /\ step' = "sleeping"
  /\ filter' = Filter
  /\ last' = Pushed
  /\ drift' = IF Applied THEN drift \ {"filter", "roster"} ELSE drift \cup {"filter"}
  /\ UNCHANGED <<bound, known, roster, session, hurt, changes, faults>>

-----------------------------------------------------------------------------
(* Faults.                                                                  *)

Fault == faults < MaxFaults /\ faults' = faults + 1

\* A call fails before it has an effect: an exception, or applied = False.
CallFails ==
  /\ Fault /\ step \in {"loaded", "pushing"} /\ (step = "loaded" => Due)
  /\ step' = "sleeping"
  /\ UNCHANGED <<bound, known, last, roster, filter, session, hurt, drift, changes>>

\* The answer to a push is lost after the provider has applied it.
AnswerLost ==
  /\ Fault /\ step = "pushing" /\ step' = "sleeping"
  /\ filter' = Filter /\ drift' = drift \cup {"filter"}
  /\ UNCHANGED <<bound, known, last, roster, session, hurt, changes>>

CoreRestarts ==
  /\ Fault
  /\ known' = Empty /\ last' = None /\ step' = "sleeping"
  /\ UNCHANGED <<bound, roster, filter, session, hurt, drift, changes>>

GameServiceRestarts ==
  /\ Fault /\ hurt' = hurt \cup {"game"} /\ drift' = drift \cup {"roster"}
  /\ roster' = Empty
  /\ step' = IF step = "pushing" THEN "sleeping" ELSE step
  /\ UNCHANGED <<bound, known, last, filter, session, changes>>

ProviderRestarts ==
  /\ Fault /\ hurt' = hurt \cup {"lobby"} /\ drift' = drift \cup {"filter"}
  /\ filter' = {} /\ session' = FALSE
  /\ UNCHANGED <<bound, known, last, step, roster, changes>>

SessionCloses ==
  /\ session /\ Fault /\ session' = FALSE
  /\ UNCHANGED <<bound, known, last, step, roster, filter, hurt, drift, changes>>

SessionOpens ==
  /\ ~session /\ session' = TRUE
  /\ UNCHANGED <<bound, known, last, step, roster, filter, hurt, drift, changes, faults>>

SyncNext ==
  \/ \E p \in Profiles : Unlink(p) \/ \E u \in Users : Bind(p, u)
  \/ Load \/ Rest \/ Push \/ Subscribed
  \/ CallFails \/ AnswerLost \/ CoreRestarts \/ GameServiceRestarts \/ ProviderRestarts
  \/ SessionCloses \/ SessionOpens

SyncSpec == SyncInit /\ [][SyncNext]_syncVars

\* The loop sleeps 30 seconds and never ends; the adapter keeps reconnecting.
SyncFairness ==
  /\ WF_syncVars(Load) /\ WF_syncVars(Rest) /\ WF_syncVars(Push)
  /\ WF_syncVars(Subscribed) /\ WF_syncVars(SessionOpens)
SyncFairSpec == SyncSpec /\ SyncFairness

-----------------------------------------------------------------------------
\* Every variable keeps its type.
SyncTypeOK ==
  /\ bound \in [Profiles -> Users \cup {NoUser}]
  /\ {known, roster} \subseteq Maps
  /\ last = None \/ last \in SUBSET Profiles
  /\ filter \in SUBSET Profiles /\ hurt \subseteq {"unlink", "game", "lobby"}
  /\ drift \subseteq {"filter", "roster", "owner"}
  /\ step \in {"sleeping", "loaded", "pushing"} /\ session \in BOOLEAN

Spared(S) == hurt \cap S = {}

\* What svc-core takes as pushed is what the game service and the provider
\* serve, no less and no more, unless a restart of theirs or a push that was
\* not acknowledged came after it; and as long as nobody unlinks, such a push
\* has left them a list that is only longer.
LastIsServed ==
  last # None =>
    /\ filter = last \/ "filter" \in drift
    /\ DOMAIN roster = last \/ "roster" \in drift
    /\ Spared({"unlink", "lobby"}) => last \subseteq filter
    /\ Spared({"unlink", "game"}) => last \subseteq DOMAIN roster

\* When the bindings rest, the provider filters by the bound profiles and the
\* roster of the game service has them with their users ("the enrollments
\* carry the roster (profile ids + their platform users)"), also after unlinks,
\* restarts and lost answers, because the loop retries whatever it was not told
\* to be applied.  What it is not told of since the last push it saw applied
\* stays as it is until the ids change again: a restart of the one that took
\* that push; a later push that took effect without being acknowledged, when
\* the ids then went back; and, for the comparison is one of ids, a profile
\* that passed to another user.
BindingsFollow ==
  <>[](/\ last = Bound
       /\ filter = Bound \/ "filter" \in drift
       /\ roster = Bindings \/ drift \cap {"roster", "owner"} # {})
=============================================================================
