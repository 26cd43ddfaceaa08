---------------------------- MODULE GuildAccess ----------------------------
(***************************************************************************)
(* GuildAccessService (kingdoms.core.services.guild_access): which games   *)
(* and mods one guild is granted, and the requests that wait for approval. *)
(*                                                                         *)
(* Every operation reads the guild's document, changes its copy and writes *)
(* the whole document back; other callers run between the two awaits.      *)
(* Keys are valid here (an unknown one is refused before the read).        *)
(***************************************************************************)
EXTENDS Naturals, Functions

CONSTANTS
  Games, Mods,
  Callers, Idle, NoDoc,
  MaxClock       \* bound on the clock (seconds)

Keys == Games \cup Mods

Pendings == UNION {[T -> SUBSET Keys] : T \in SUBSET (0..MaxClock)}
Docs == [games : SUBSET Games, mods : SUBSET Mods, pending : Pendings]

ASSUME AccessAssumption == Games \cap Mods = {} /\ NoDoc \notin Docs /\ MaxClock \in Nat

VARIABLES
  doc,       \* the stored document, or NoDoc
  held,      \* held[c]: the document that c is about to write, or Idle
  clock,
  lapped,    \* history: a caller read while another one was about to write
  granted,   \* history until then: the keys granted and not revoked
  asked,     \* history until then, or until two requests met: the undecided ones
  crowded    \* history: two requests fell into one second

accessVars == <<doc, held, clock, lapped, granted, asked, crowded>>

Fresh == [games |-> {}, mods |-> {}, pending |-> [t \in {} |-> {}]]
Calls ==
  [op : {"request", "grant", "revoke"}, keys : (SUBSET Keys) \ {{}}]
    \cup [op : {"approve", "deny"}, at : 0..MaxClock]
    \cup [op : {"ensure"}]

AccessInit ==
  /\ doc = NoDoc
  /\ held = [c \in Callers |-> Idle]
  /\ clock = 0 /\ granted = {} /\ asked = {}
  /\ lapped = FALSE /\ crowded = FALSE

\* get: a guild without a document has no grant and no request.
Current == IF doc = NoDoc THEN Fresh ELSE doc

Waiting(d) == UNION {d.pending[t] : t \in DOMAIN d.pending}

\* The keys of a request that are neither granted nor pending yet.  A name
\* ending in _bug is a mutated form, kept to show that a property notices.
New(d, keys) == keys \ (d.games \cup d.mods \cup Waiting(d))

Add(d, keys) == [d EXCEPT !.games = @ \cup (keys \cap Games), !.mods = @ \cup (keys \cap Mods)]
Remove(d, keys) == [d EXCEPT !.games = @ \ keys, !.mods = @ \ keys]
Ask(d, keys) == [d EXCEPT !.pending = [t \in DOMAIN @ \cup {clock} |-> IF t = clock THEN keys ELSE @[t]]]
Drop(d, t) == [d EXCEPT !.pending = Restrict(@, DOMAIN @ \ {t})]

\* approve: the keys of the request become active, the request is gone.
Approved_skew(d, t) == Drop(d, t)
Approved_bug(d, t) == [Add(d, d.pending[t]) EXCEPT !.pending = [x \in {} |-> {}]]
Approved(d, t) == Add(Drop(d, t), d.pending[t])

\* A call that is refused, or that has nothing to do, writes nothing.
Accepted(call, d) ==
  /\ call.op = "request" => New(d, call.keys) # {}
  /\ call.op \in {"approve", "deny"} => call.at \in DOMAIN d.pending
  /\ call.op = "ensure" => doc = NoDoc

After(call, d) ==
  CASE call.op = "request" -> Ask(d, New(d, call.keys))
    [] call.op = "grant" -> Add(d, call.keys)
    [] call.op = "revoke" -> Remove(d, call.keys)
    [] call.op = "approve" -> Approved(d, call.at)
    [] call.op = "deny" -> Drop(d, call.at)
    [] call.op = "ensure" -> d

\* The keys and the request that the call is about.
KeysOf(call, d) ==
  CASE call.op = "request" -> New(d, call.keys)
    [] call.op \in {"grant", "revoke"} -> call.keys
    [] call.op = "approve" -> d.pending[call.at]
    [] OTHER -> {}
AtOf(call) == IF call.op \in {"approve", "deny"} THEN call.at ELSE clock

Until(over, S) == IF over THEN {} ELSE S

\* The read, and the change of the copy.
ReadAccess(c, call) ==
  /\ held[c] = Idle
  /\ Accepted(call, Current)
  /\ held' = [held EXCEPT ![c] =
       [op |-> call.op, keys |-> KeysOf(call, Current), at |-> AtOf(call), doc |-> After(call, Current)]]
  /\ lapped' = (lapped \/ \E o \in Callers : held[o] # Idle)
  /\ crowded' = (crowded \/ (call.op = "request" /\ clock \in DOMAIN Current.pending))
  /\ granted' = Until(lapped', granted) /\ asked' = Until(lapped' \/ crowded', asked)
  /\ UNCHANGED <<doc, clock>>

\* The write of the whole document.
WriteAccess(c) ==
  /\ held[c] # Idle
  /\ doc' = held[c].doc
  /\ LET h == held[c] IN
       /\ granted' = Until(lapped,
                       IF h.op \in {"grant", "approve"} THEN granted \cup h.keys
                       ELSE IF h.op = "revoke" THEN granted \ h.keys ELSE granted)
       /\ asked' = Until(lapped \/ crowded,
                     IF h.op = "request" THEN asked \cup {[at |-> h.at, keys |-> h.keys]}
                     ELSE IF h.op \in {"approve", "deny"} THEN {r \in asked : r.at # h.at} ELSE asked)
  /\ held' = [held EXCEPT ![c] = Idle]
  /\ UNCHANGED <<clock, lapped, crowded>>

Tick ==
  /\ clock < MaxClock /\ clock' = clock + 1
  /\ UNCHANGED <<doc, held, granted, asked, lapped, crowded>>

AccessNext ==
  \/ \E c \in Callers : WriteAccess(c) \/ \E call \in Calls : ReadAccess(c, call)
  \/ Tick

AccessSpec == AccessInit /\ [][AccessNext]_accessVars

-----------------------------------------------------------------------------
\* Every variable keeps its type.
AccessTypeOK ==
  /\ doc \in Docs \cup {NoDoc}
  /\ \A c \in Callers : held[c] # Idle =>
       held[c].doc \in Docs /\ held[c].keys \in SUBSET Keys /\ held[c].at \in 0..MaxClock
  /\ clock \in 0..MaxClock
  /\ {lapped, crowded} \subseteq BOOLEAN
  /\ granted \subseteq Keys /\ asked \subseteq [at : 0..MaxClock, keys : SUBSET Keys]

\* A key waits in one request at most: request_access leaves out what is
\* already pending, whoever else is writing.
Apart(d) == \A t, u \in DOMAIN d.pending : t # u => d.pending[t] \cap d.pending[u] = {}
AskedOnce == doc # NoDoc => Apart(doc)

\* While callers take turns, the stored document grants exactly what was
\* granted or approved and not revoked: "the keys become active", and an
\* existing document is left untouched by ensure_known.
GrantsKept == ~lapped => Current.games \cup Current.mods = granted

\* While callers take turns and requests come a second apart, a recorded
\* request waits until it is approved or denied.
RequestsKept ==
  ~lapped /\ ~crowded =>
    \A r \in asked : r.at \in DOMAIN Current.pending /\ Current.pending[r.at] = r.keys
=============================================================================
