---------------------------- MODULE Registration ----------------------------
(***************************************************************************)
(* Who owns which game profile: the bindings of one game, as written by    *)
(* the players (RegistrationService.bind_profile and unlink_profile) and   *)
(* by the import of the legacy associations (import_identity_links, a      *)
(* process of its own).  A binding's key is the pair of a user and a       *)
(* profile; no index makes the profile unique, so that a profile has at    *)
(* most one owner is up to the order of the reads and writes below.        *)
(***************************************************************************)
EXTENDS Naturals, Sequences

CONSTANTS
  Users, Profiles, NoUser, NoProfile,
  Files     \* the link lists an import may be given, without repetitions

ASSUME RegistrationAssumption ==
  /\ NoUser \notin Users /\ NoProfile \notin Profiles
  /\ Files \subseteq Seq(Users \X Profiles)

VARIABLES
  bindings,  \* of a user and a profile: "none", "bare", or "named" by the provider
  task,      \* of a user: the profile whose owner was found fit, or NoProfile
  pc,        \* the import: "idle", "next", "owner", "delete", "write"
  file,      \* the import's links
  left,      \* those not yet done
  seen,      \* the binding found under the link's own key
  owner,     \* the other owner that was found
  crossed    \* history: an operation began before another one was over

registrationVars == <<bindings, task, pc, file, left, seen, owner, crossed>>
imports == <<pc, file, left, seen, owner>>

Kinds == {"none", "bare", "named"}
Owners(p) == {u \in Users : bindings[u][p] # "none"}
Quiet == pc = "idle" /\ \A u \in Users : task[u] = NoProfile
Enter == crossed' = (crossed \/ ~Quiet)

RegistrationInit ==
  /\ bindings = [u \in Users |-> [p \in Profiles |-> "none"]]
  /\ task = [u \in Users |-> NoProfile]
  /\ pc = "idle" /\ file = <<>> /\ left = <<>> /\ seen = "none" /\ owner = NoUser
  /\ crossed = FALSE

Put(u, p, kind) == bindings' = [bindings EXCEPT ![u][p] = kind]

-----------------------------------------------------------------------------
(* The players.  A name ending in _bug is a mutated form.                 *)

\* find_binding_by_profile returns any one binding of the profile.
Fit_bug(u, p) == TRUE
Fit(u, p) == Owners(p) = {} \/ u \in Owners(p)

\* bind_profile up to the check of the owner, for the id the provider knows.
FindOwner(u, p) ==
  /\ task[u] = NoProfile /\ Enter
  /\ Fit(u, p)
  /\ task' = [task EXCEPT ![u] = p]
  /\ UNCHANGED <<bindings, imports>>

\* ... and its upsert of the whole document.
Upsert(u) ==
  /\ task[u] # NoProfile
  /\ Put(u, task[u], "named")
  /\ task' = [task EXCEPT ![u] = NoProfile]
  /\ UNCHANGED <<imports, crossed>>

Unlink(u, p) ==
  /\ Enter /\ bindings[u][p] # "none"
  /\ Put(u, p, "none")
  /\ UNCHANGED <<task, imports>>

BotRestarts ==
  /\ \E u \in Users : task[u] # NoProfile
  /\ task' = [u \in Users |-> NoProfile]
  /\ UNCHANGED <<bindings, imports, crossed>>

-----------------------------------------------------------------------------
(* The import, one database call per step.                                  *)

User == Head(left)[1]
Profile == Head(left)[2]

Start(f) ==
  /\ pc = "idle" /\ Enter
  /\ pc' = "next" /\ file' = f /\ left' = f /\ seen' = "none" /\ owner' = NoUser
  /\ UNCHANGED <<bindings, task>>

\* find_one by key; a binding that exists skips the search for the owner.
FindOwn ==
  /\ pc = "next" /\ left # <<>>
  /\ seen' = bindings[User][Profile]
  /\ pc' = IF seen' = "none" THEN "owner" ELSE "write"
  /\ UNCHANGED <<bindings, task, file, left, owner, crossed>>

\* find_one by profile.
Foreign_bug == {}
Foreign == Owners(Profile) \ {User}
FindForeign ==
  /\ pc = "owner"
  /\ \/ /\ pc' = "write" /\ (Foreign = {} \/ User \in Owners(Profile))
        /\ UNCHANGED owner
     \/ \E o \in Foreign : pc' = "delete" /\ owner' = o
  /\ UNCHANGED <<bindings, task, file, left, seen, crossed>>

DeleteStale ==
  /\ pc = "delete" /\ pc' = "write"
  /\ Put(owner, Profile, "none")
  /\ UNCHANGED <<task, file, left, seen, owner, crossed>>

\* The replacement keeps the profile data of the binding that was read.
Merged == IF seen = "named" THEN "named" ELSE "bare"
Write ==
  /\ pc = "write" /\ pc' = "next"
  /\ Put(User, Profile, Merged)
  /\ left' = Tail(left) /\ owner' = NoUser
  /\ UNCHANGED <<task, file, seen, crossed>>

Finish ==
  /\ pc = "next" /\ left = <<>> /\ pc' = "idle"
  /\ UNCHANGED <<bindings, task, file, left, seen, owner, crossed>>

\* The import dies; a later run starts over.
Crash ==
  /\ pc # "idle" /\ pc' = "idle"
  /\ UNCHANGED <<bindings, task, file, left, seen, owner, crossed>>

Player(u) == Upsert(u) \/ \E p \in Profiles : FindOwner(u, p) \/ Unlink(u, p)

Import ==
  \/ \E f \in Files : Start(f)
  \/ FindOwn \/ FindForeign \/ DeleteStale \/ Write \/ Finish \/ Crash

RegistrationNext == (\E u \in Users : Player(u)) \/ BotRestarts \/ Import

RegistrationSpec == RegistrationInit /\ [][RegistrationNext]_registrationVars

-----------------------------------------------------------------------------
\* Every variable keeps its type.
RegistrationTypeOK ==
  /\ bindings \in [Users -> [Profiles -> Kinds]]
  /\ task \in [Users -> Profiles \cup {NoProfile}]
  /\ pc \in {"idle", "next", "owner", "delete", "write"}
  /\ file \in Seq(Users \X Profiles) /\ left \in Seq(Users \X Profiles)
  /\ seen \in Kinds /\ owner \in Users \cup {NoUser} /\ crossed \in BOOLEAN

Unique == \A p \in Profiles : \A u, v \in Owners(p) : u = v

\* A profile is bound to at most one user: "a profile already bound to
\* another user is refused", "one game profile is bound to at most one
\* Discord account at a time".  Operations that overlap may break it.
OneOwner == ~crossed => Unique

\* The last link of the file for each profile.
Winner(p) ==
  LET rows == {i \in DOMAIN file : file[i][2] = p}
  IN  file[CHOOSE i \in rows : \A j \in rows : j <= i][1]

\* When an import that nothing overlapped reaches its end, "the last import
\* wins": each profile it names is owned by the user of its last link, whatever
\* earlier imports that died half-way left behind.
LastImportWins ==
  ~crossed /\ pc = "next" /\ left = <<>> =>
    \A i \in DOMAIN file : Owners(file[i][2]) = {Winner(file[i][2])}

\* While nothing overlaps, only the players' own calls and the rebinding of a
\* profile remove what the provider said of it: "the seed must not wipe the
\* provider-resolved profile_name/aliases the live seam stored at bind time".
NamesSurvive ==
  [][~crossed' =>
       \A u \in Users, p \in Profiles :
         bindings[u][p] = "named" => bindings'[u][p] # "bare"]_registrationVars
=============================================================================
