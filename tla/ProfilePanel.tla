---------------------------- MODULE ProfilePanel ----------------------------
(***************************************************************************)
(* The profile of one user: the ephemeral views it is shown in, the three  *)
(* forms opened from them (link an account, unlink some, change the name), *)
(* and the document of the user, created by the first change of name.      *)
(* Every call to MongoDB is a step, and the user may have several forms    *)
(* under way.  A form edits the view it was opened from, never another.    *)
(* A name ending in _bug is a mutated form.                                *)
(***************************************************************************)
EXTENDS Naturals

CONSTANTS
  Typed,     \* what the user may type for an account
  KnownIds,     \* those that are ids the provider knows
  Insights,  \* the id of the provider behind other ids, as aoe2insights answers it
  Taken,     \* known ids bound to another user
  Names, Blank, Given, NoName,  \* chosen names, one too short, the one Discord gives
  Views, Tasks, Gone, NoView,
  MaxEntered, MaxFailures        \* bounds

ASSUME ProfilePanelAssumption ==
  /\ KnownIds \subseteq Typed /\ Taken \subseteq KnownIds
  /\ DOMAIN Insights \subseteq Typed \ KnownIds /\ \A x \in DOMAIN Insights : Insights[x] \in KnownIds
  /\ Names \cap {Blank, Given, NoName} = {} /\ Given # NoName /\ NoView \notin Views
  /\ {MaxEntered, MaxFailures} \subseteq Nat

VARIABLES
  bound,    \* the accounts linked to the user
  user,     \* the name in the user's document, NoName without a document
  known,    \* whether the platform account is bound to that document
  views,    \* per message: what it shows, NoView before it is sent, Gone after
  task,     \* per interaction: its step, its kind, the view it will edit, what was typed
            \* or chosen, what was read so far, and (history) whether it met another
            \* one, and whether it has written
  outdated,   \* history: the views not expected to follow
  saved,    \* history: the last name saved, NoName before
  lapped,   \* history: a document was created by an interaction that met another one
  entered, failures

stored == <<bound, user, known, saved, lapped>>
profileVars == <<stored, views, task, outdated, entered, failures>>

Rest == [at |-> "rest", kind |-> "none", on |-> NoView, pick |-> {}, seen |-> {},
         name |-> NoName, met |-> FALSE, wrote |-> FALSE]

ProfileInit ==
  /\ bound = {} /\ user = NoName /\ known = FALSE
  /\ views = [m \in Views |-> NoView] /\ task = [t \in Tasks |-> Rest]
  /\ outdated = {} /\ saved = NoName /\ lapped = FALSE /\ entered = 0 /\ failures = 0

Visible == {m \in Views : views[m] \notin {NoView, Gone}}
Busy == {t \in Tasks : task[t].at \notin {"rest", "form"}}
Failure == failures < MaxFailures /\ failures' = failures + 1
Advance(t, at) == task' = [task EXCEPT ![t].at = at]
End(t) == task' = [task EXCEPT ![t] = Rest]

\* An interaction sets out with w; it and those under way have met.
Enter(t, w) ==
  task' = [s \in Tasks |->
             IF s = t THEN [w EXCEPT !.met = Busy # {}]
             ELSE IF s \in Busy THEN [task[s] EXCEPT !.met = TRUE] ELSE task[s]]

\* A change is written: no other view will show it.
Edited(t) == {task[t].on} \ {NoView}
Writes(t) == outdated' = outdated \cup (Visible \ Edited(t))

-----------------------------------------------------------------------------
(* The views and the forms.                                                 *)

\* The profile is opened from the home menu: a message of its own.
OpenView(t, m) ==
  /\ task[t] = Rest /\ views[m] = NoView /\ \A s \in Tasks : task[s].on # m
  /\ Enter(t, [Rest EXCEPT !.at = "accounts", !.kind = "open", !.on = m])
  /\ UNCHANGED <<stored, views, outdated, entered, failures>>

\* A form remembers the view it was opened from; that of removals lists the
\* accounts as they are at the click, and a view without accounts has no button
\* for it.
OpenForm(t, m, kind) ==
  /\ task[t] = Rest /\ m \in Visible
  /\ kind = "remove" => views[m].accounts # {} /\ bound # {}
  /\ task' = [task EXCEPT ![t] = [Rest EXCEPT !.at = "form", !.kind = kind, !.on = m,
                                              !.pick = IF kind = "remove" THEN bound ELSE {}]]
  /\ UNCHANGED <<stored, views, outdated, entered, failures>>

Dismiss(m) ==
  /\ m \in Visible /\ views' = [views EXCEPT ![m] = Gone]
  /\ UNCHANGED <<stored, task, outdated, entered, failures>>

\* The token of the click that opened the form expires: its view cannot be edited.
Expire(t) ==
  /\ Failure /\ task[t].kind \in {"add", "remove", "rename"} /\ task[t].on # NoView
  /\ task' = [task EXCEPT ![t].on = NoView] /\ outdated' = outdated \cup {task[t].on}
  /\ UNCHANGED <<stored, views, entered>>

Submits(t, kind) ==
  /\ task[t].at = "form" /\ task[t].kind = kind
  /\ entered < MaxEntered /\ entered' = entered + 1
  /\ UNCHANGED <<stored, views, outdated, failures>>

-----------------------------------------------------------------------------
(* Linking an account.                                                      *)

\* A known id is taken as it is; another may be one of aoe2insights.
Canonical(x) == IF x \in DOMAIN Insights THEN Insights[x] ELSE x

SubmitAdd(t, x) ==
  /\ Submits(t, "add")
  /\ IF Canonical(x) \in KnownIds
     THEN Enter(t, [task[t] EXCEPT !.at = "owner", !.pick = {Canonical(x)}])
     ELSE End(t)

FindOwner(t) ==
  /\ task[t].at = "owner"
  /\ IF task[t].pick \subseteq Taken THEN End(t) ELSE Advance(t, "link")
  /\ UNCHANGED <<stored, views, outdated, entered, failures>>

\* What is drawn is read after the change is written.
Wrote_bug(t) == [task[t] EXCEPT !.at = "header", !.wrote = TRUE, !.pick = {}]
Wrote(t) == [task[t] EXCEPT !.at = "accounts", !.wrote = TRUE, !.pick = {}]

Link(t) ==
  /\ task[t].at = "link" /\ bound' = bound \cup task[t].pick
  /\ task' = [task EXCEPT ![t] = Wrote(t)] /\ Writes(t)
  /\ UNCHANGED <<user, known, views, saved, lapped, entered, failures>>

-----------------------------------------------------------------------------
(* Unlinking accounts, one after the other; one that is not found or whose  *)
(* removal fails does not keep the others.                                  *)

SubmitRemove(t, chosen) ==
  /\ chosen # {} /\ chosen \subseteq task[t].pick /\ Submits(t, "remove")
  /\ Enter(t, [task[t] EXCEPT !.at = "unlink", !.pick = chosen])

Ticked(t, x) ==
  LET left == task[t].pick \ {x} IN
    task' = [task EXCEPT ![t] = IF left = {} THEN Wrote(t) ELSE [task[t] EXCEPT !.pick = left]]

Unlink(t, x) ==
  /\ task[t].at = "unlink" /\ x \in task[t].pick
  /\ bound' = bound \ {x} /\ Ticked(t, x)
  /\ IF x \in bound THEN Writes(t) ELSE UNCHANGED outdated
  /\ UNCHANGED <<user, known, views, saved, lapped, entered, failures>>

UnlinkFails(t, x) ==
  /\ Failure /\ task[t].at = "unlink" /\ x \in task[t].pick /\ Ticked(t, x)
  /\ UNCHANGED <<stored, views, outdated, entered>>

-----------------------------------------------------------------------------
(* Changing the name: the first change creates the document.                *)

SubmitRename(t, n) ==
  /\ Submits(t, "rename") /\ Enter(t, [task[t] EXCEPT !.at = "user", !.pick = {n}])

FoundUser_bug == FALSE
FoundUser == user # NoName

GetUser(t) ==
  /\ task[t].at = "user" /\ Advance(t, IF FoundUser THEN "rename" ELSE "resolve")
  /\ UNCHANGED <<stored, views, outdated, entered, failures>>

\* The platform account is bound only after its document is written.
Resolve(t) ==
  /\ task[t].at = "resolve" /\ Advance(t, IF known /\ FoundUser THEN "rename" ELSE "create")
  /\ UNCHANGED <<stored, views, outdated, entered, failures>>

Create(t) ==
  /\ task[t].at = "create" /\ user' = Given
  /\ lapped' = (lapped \/ task[t].met)
  /\ task' = [task EXCEPT ![t].at = "bind", ![t].wrote = TRUE] /\ Writes(t)
  /\ UNCHANGED <<bound, known, views, saved, entered, failures>>

BindIdentity(t) ==
  /\ task[t].at = "bind" /\ known' = TRUE /\ Advance(t, "rename")
  /\ UNCHANGED <<bound, user, saved, lapped, views, outdated, entered, failures>>

\* Nothing else changes the document, so its copy and its replacement are one step.
SetName(t) ==
  /\ task[t].at = "rename" /\ ~task[t].pick \subseteq {Blank}
  /\ \E n \in task[t].pick : user' = n /\ saved' = n
  /\ task' = [task EXCEPT ![t] = Wrote(t)] /\ Writes(t)
  /\ UNCHANGED <<bound, known, lapped, views, entered, failures>>

\* A step that fails, or a name of blanks, ends the interaction with a note: the
\* view is not drawn anew, not even when the document was created before that.
Refused(t) ==
  /\ End(t)
  /\ outdated' = IF task[t].wrote THEN outdated \cup Edited(t) ELSE outdated
  /\ UNCHANGED <<stored, views, entered>>

RefuseName(t) ==
  /\ task[t].at = "rename" /\ task[t].pick = {Blank} /\ Refused(t) /\ UNCHANGED failures

Fail(t) ==
  /\ Failure /\ Refused(t)
  /\ task[t].at \in {"owner", "link", "user", "resolve", "create", "bind", "rename", "accounts"}

-----------------------------------------------------------------------------
(* Drawing the profile.                                                     *)

ReadAccounts(t) ==
  /\ task[t].at = "accounts"
  /\ task' = [task EXCEPT ![t].at = "header", ![t].seen = bound]
  /\ UNCHANGED <<stored, views, outdated, entered, failures>>

ReadHeader(t) ==
  /\ task[t].at = "header"
  /\ task' = [task EXCEPT ![t].at = "show", ![t].name = user]
  /\ UNCHANGED <<stored, views, outdated, entered, failures>>

\* A name that cannot be read is shown as not set.
HeaderFails(t) ==
  /\ Failure /\ task[t].at = "header" /\ outdated' = outdated \cup Edited(t)
  /\ task' = [task EXCEPT ![t].at = "show", ![t].name = NoName, ![t].met = TRUE]
  /\ UNCHANGED <<stored, views, entered>>

\* The view is edited where it stands; when it is gone a text answers alone.
Drawn(t) == task[t].kind = "open" \/ task[t].on \in Visible

Show(t) ==
  /\ task[t].at = "show" /\ End(t)
  /\ IF Drawn(t)
     THEN /\ views' = [views EXCEPT ![task[t].on] = [accounts |-> task[t].seen, name |-> task[t].name]]
          /\ outdated' = IF task[t].met THEN outdated \cup {task[t].on} ELSE outdated \ {task[t].on}
     ELSE UNCHANGED <<views, outdated>>
  /\ UNCHANGED <<stored, entered, failures>>

ProfileNext ==
  \/ \E m \in Views : Dismiss(m)
  \/ \E t \in Tasks :
       \/ \E m \in Views : OpenView(t, m) \/ \E kind \in {"add", "remove", "rename"} : OpenForm(t, m, kind)
       \/ \E x \in Typed : SubmitAdd(t, x) \/ Unlink(t, x) \/ UnlinkFails(t, x)
       \/ \E chosen \in SUBSET KnownIds : SubmitRemove(t, chosen)
       \/ \E n \in Names \cup {Blank} : SubmitRename(t, n)
       \/ FindOwner(t) \/ Link(t) \/ GetUser(t) \/ Resolve(t) \/ Create(t) \/ BindIdentity(t)
       \/ SetName(t) \/ RefuseName(t) \/ Fail(t) \/ Expire(t)
       \/ ReadAccounts(t) \/ ReadHeader(t) \/ HeaderFails(t) \/ Show(t)

ProfileSpec == ProfileInit /\ [][ProfileNext]_profileVars

-----------------------------------------------------------------------------
\* While nothing is under way, a view shows the accounts and the name as stored,
\* unless a change was made from another view, its own change met another one or
\* could not be drawn ("the profile view NEVER sends a copy of itself", it is
\* edited in place: _profile_followup).
ViewsFollow ==
  Busy = {} =>
    \A m \in Visible \ outdated : views[m] = [accounts |-> bound, name |-> user]

\* The name a user saved stays until the user saves another one, unless two
\* interactions met while there was no document (ProfileRenameModal.on_submit).
NameKept == saved # NoName /\ ~lapped => user = saved

\* A view shows the profile as stored once nothing is under way, but for what
\* overlapped or failed (_profile_followup), and a saved name stays
\* (ProfileRenameModal.on_submit).
ProfileFollows == ViewsFollow /\ NameKept
=============================================================================
