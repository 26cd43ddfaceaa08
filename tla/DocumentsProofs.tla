-------------------------- MODULE DocumentsProofs --------------------------
(***************************************************************************)
(* Proofs about the documents that are read in one call and written in a   *)
(* later one: the access of a guild, the settings, the bindings of         *)
(* profiles, the roster and the statistics of the players panels.  What    *)
(* holds however callers interleave, and what holds while they take turns. *)
(***************************************************************************)
EXTENDS GuildAccess, Settings, Registration, PlayersPanel, SequenceTheorems, TLAPS

-----------------------------------------------------------------------------
(* THE ACCESS OF A GUILD.                                                   *)

AccessKinds == {"request", "grant", "revoke", "approve", "deny", "ensure"}
Holds == [op : AccessKinds, keys : SUBSET Keys, at : 0..MaxClock, doc : Docs]

\* The strengthened type invariant: what a caller holds is a document.
IType ==
  /\ doc \in Docs \cup {NoDoc}
  /\ held \in [Callers -> Holds \cup {Idle}]
  /\ clock \in 0..MaxClock
  /\ lapped \in BOOLEAN /\ crowded \in BOOLEAN
  /\ granted \subseteq Keys /\ asked \subseteq [at : 0..MaxClock, keys : SUBSET Keys]

\* A pending map restricted or extended is one again.
LEMMA PendingsChange ==
  ASSUME NEW f \in Pendings, NEW t \in 0..MaxClock, NEW S \in SUBSET Keys
  PROVE  /\ [u \in DOMAIN f \ {t} |-> f[u]] \in Pendings
         /\ [u \in DOMAIN f \cup {t} |-> IF u = t THEN S ELSE f[u]] \in Pendings
         /\ DOMAIN f \subseteq 0..MaxClock
         /\ \A u \in DOMAIN f : f[u] \subseteq Keys
<1>1. PICK T \in SUBSET (0..MaxClock) : f \in [T -> SUBSET Keys]
  BY DEF Pendings
<1>2. [u \in T \ {t} |-> f[u]] \in [T \ {t} -> SUBSET Keys]
  BY <1>1
<1>3. [u \in T \cup {t} |-> IF u = t THEN S ELSE f[u]] \in [T \cup {t} -> SUBSET Keys]
  BY <1>1
<1>4. T \ {t} \in SUBSET (0..MaxClock) /\ T \cup {t} \in SUBSET (0..MaxClock) /\ DOMAIN f = T
  BY <1>1
<1> QED
  BY <1>1, <1>2, <1>3, <1>4 DEF Pendings

\* The empty document is a document.
LEMMA FreshIsDoc == Fresh \in Docs
<1>1. [t \in {} |-> {}] \in [{} -> SUBSET Keys]
  OBVIOUS
<1> QED
  BY <1>1 DEF Fresh, Docs, Pendings

\* An accepted call turns a document into a document, and names valid keys.
LEMMA AfterIsDoc ==
  ASSUME NEW d \in Docs, NEW ask \in Calls, Accepted(ask, d), clock \in 0..MaxClock
  PROVE  After(ask, d) \in Docs /\ KeysOf(ask, d) \subseteq Keys /\ AtOf(ask) \in 0..MaxClock
<1> USE DEF Docs
<1>0. d.pending \in Pendings /\ d.games \subseteq Games /\ d.mods \subseteq Mods
  OBVIOUS
<1>1. CASE ask.op = "request"
  <2>1. New(d, ask.keys) \in SUBSET Keys
    BY <1>1 DEF Calls, New
  <2>2. [u \in DOMAIN d.pending \cup {clock} |-> IF u = clock THEN New(d, ask.keys) ELSE d.pending[u]] \in Pendings
    BY <1>0, <2>1, PendingsChange
  <2> QED
    BY <1>1, <2>1, <2>2 DEF After, KeysOf, AtOf, Ask
<1>2. CASE ask.op \in {"grant", "revoke"}
  BY <1>2, <1>0 DEF Calls, After, KeysOf, AtOf, Add, Remove, Keys
<1>3. CASE ask.op \in {"approve", "deny"}
  <2>1. ask.at \in DOMAIN d.pending
    BY <1>3 DEF Accepted
  <2>2. ask.at \in 0..MaxClock /\ d.pending[ask.at] \subseteq Keys
    BY <2>1, <1>0, PendingsChange
  <2>3. Drop(d, ask.at) \in Docs
    <3>1. [u \in DOMAIN d.pending \ {ask.at} |-> d.pending[u]] \in Pendings
      BY <2>2, <1>0, PendingsChange
    <3> QED
      BY <3>1 DEF Drop, Restrict
  <2> QED
    BY <1>3, <2>2, <2>3 DEF After, KeysOf, AtOf, Approved, Add, Keys
<1>4. CASE ask.op = "ensure"
  BY <1>4 DEF After, KeysOf, AtOf
<1> QED
  BY <1>1, <1>2, <1>3, <1>4 DEF Calls

\* The current document is a document.
LEMMA CurrentIsDoc == IType => Current \in Docs
BY FreshIsDoc DEF IType, Current

\* The strengthened type invariant holds throughout.
LEMMA ITypeHolds == AccessSpec => []IType
<1>1. ASSUME AccessInit PROVE IType
  <2>1. held \in [Callers -> Holds \cup {Idle}]
    BY <1>1 DEF AccessInit
  <2>2. lapped \in BOOLEAN /\ crowded \in BOOLEAN
    BY <1>1 DEF AccessInit
  <2>3. doc \in Docs \cup {NoDoc} /\ clock \in 0..MaxClock
    BY <1>1, AccessAssumption DEF AccessInit
  <2> QED
    BY <1>1, <2>1, <2>2, <2>3 DEF AccessInit, IType
<1>2. IType /\ [AccessNext]_accessVars => IType'
  <2> SUFFICES ASSUME IType, [AccessNext]_accessVars PROVE IType'
    OBVIOUS
  <2>1. ASSUME NEW c \in Callers, NEW ask \in Calls, ReadAccess(c, ask) PROVE IType'
    <3>1. Current \in Docs
      BY CurrentIsDoc
    <3>2. After(ask, Current) \in Docs /\ KeysOf(ask, Current) \subseteq Keys /\ AtOf(ask) \in 0..MaxClock
      BY <2>1, <3>1, AfterIsDoc DEF ReadAccess, IType
    <3>3. ask.op \in AccessKinds
      BY DEF Calls, AccessKinds
    <3>4. held' \in [Callers -> Holds \cup {Idle}]
      BY <2>1, <3>2, <3>3 DEF ReadAccess, IType, Holds
    <3>5. granted' \subseteq granted /\ asked' \subseteq asked /\ lapped' \in BOOLEAN /\ crowded' \in BOOLEAN
      BY <2>1 DEF ReadAccess, Until
    <3> QED
      BY <2>1, <3>4, <3>5 DEF ReadAccess, IType
  <2>2. ASSUME NEW c \in Callers, WriteAccess(c) PROVE IType'
    <3>1. held[c] \in Holds
      BY <2>2 DEF WriteAccess, IType
    <3>2. doc' \in Docs /\ held' \in [Callers -> Holds \cup {Idle}]
      BY <2>2, <3>1 DEF WriteAccess, IType, Holds
    <3>3. granted' \subseteq Keys
      BY <2>2, <3>1 DEF WriteAccess, Until, IType, Holds
    <3>4. asked' \subseteq [at : 0..MaxClock, keys : SUBSET Keys]
      <4>1. [at |-> held[c].at, keys |-> held[c].keys] \in [at : 0..MaxClock, keys : SUBSET Keys]
        BY <3>1 DEF Holds
      <4>2. asked' \subseteq asked \cup {[at |-> held[c].at, keys |-> held[c].keys]}
        BY <2>2 DEF WriteAccess, Until
      <4> QED
        BY <4>1, <4>2 DEF IType
    <3> QED
      BY <2>2, <3>2, <3>3, <3>4 DEF WriteAccess, IType
  <2>3. CASE Tick
    BY <2>3, AccessAssumption DEF Tick, IType
  <2>4. CASE UNCHANGED accessVars
    BY <2>4 DEF accessVars, IType
  <2> QED
    BY <2>1, <2>2, <2>3, <2>4 DEF AccessNext
<1> QED
  BY <1>1, <1>2, PTL DEF AccessSpec

\* An accepted call keeps the requests of a document apart.
LEMMA AfterApart ==
  ASSUME NEW d \in Docs, NEW ask \in Calls, Accepted(ask, d), Apart(d)
  PROVE  Apart(After(ask, d))
<1> USE DEF Docs
<1>1. CASE ask.op = "request"
  <2> DEFINE S == New(d, ask.keys)
  <2>1. \A t \in DOMAIN d.pending : d.pending[t] \cap S = {}
    BY DEF New, Waiting
  <2>2. After(ask, d).pending = [u \in DOMAIN d.pending \cup {clock} |-> IF u = clock THEN S ELSE d.pending[u]]
    BY <1>1 DEF After, Ask
  <2> HIDE DEF S
  <2> QED
    BY <2>1, <2>2 DEF Apart
<1>2. CASE ask.op \in {"grant", "revoke", "ensure"}
  <2>1. After(ask, d).pending = d.pending
    BY <1>2 DEF After, Add, Remove
  <2> QED
    BY <2>1 DEF Apart
<1>3. CASE ask.op \in {"approve", "deny"}
  <2>1. After(ask, d).pending = [u \in DOMAIN d.pending \ {ask.at} |-> d.pending[u]]
    <3>1. ask.at \in DOMAIN d.pending
      BY <1>3 DEF Accepted
    <3>2. DOMAIN d.pending \cap (DOMAIN d.pending \ {ask.at}) = DOMAIN d.pending \ {ask.at}
      OBVIOUS
    <3> QED
      BY <1>3, <3>1, <3>2 DEF After, Approved, Add, Drop, Restrict
  <2> QED
    BY <2>1 DEF Apart
<1> QED
  BY <1>1, <1>2, <1>3 DEF Calls

\* What is stored and what is about to be written keeps its requests apart.
IApart == AskedOnce /\ \A c \in Callers : held[c] # Idle => Apart(held[c].doc)

\* The document is well formed and what a caller is about to write is one,
\* however the callers interleave.
THEOREM AccessTypeCorrect == AccessSpec => []AccessTypeOK
<1>1. IType => AccessTypeOK
  BY DEF IType, AccessTypeOK, Holds
<1> QED BY <1>1, ITypeHolds, PTL

\* request_access never lets a key wait in two requests, for every number of
\* callers that read and overwrite the document in any order.
THEOREM KeysWaitOnce == AccessSpec => []AskedOnce
<1>1. AccessInit => IApart
  BY DEF AccessInit, IApart, AskedOnce
<1>2. IType /\ IApart /\ [AccessNext]_accessVars => IApart'
  <2> SUFFICES ASSUME IType, IApart, [AccessNext]_accessVars PROVE IApart'
    OBVIOUS
  <2>1. ASSUME NEW c \in Callers, NEW ask \in Calls, ReadAccess(c, ask) PROVE IApart'
    <3>1. Apart(Current)
      BY DEF IApart, AskedOnce, Current, Fresh, Apart
    <3>2. Apart(After(ask, Current))
      BY <2>1, <3>1, CurrentIsDoc, AfterApart DEF ReadAccess
    <3>3. Apart(After(ask, Current)) => Apart(held'[c].doc)
      BY <2>1 DEF ReadAccess, IType
    <3>4. \A o \in Callers : o # c => held'[o] = held[o]
      BY <2>1 DEF ReadAccess, IType
    <3>5. AskedOnce'
      BY <2>1 DEF ReadAccess, IApart, AskedOnce, Apart
    <3>6. \A o \in Callers : held'[o] # Idle => Apart(held'[o].doc)
      BY <3>2, <3>3, <3>4 DEF IApart
    <3> QED
      BY <3>5, <3>6 DEF IApart, Apart
  <2>2. ASSUME NEW c \in Callers, WriteAccess(c) PROVE IApart'
    <3>1. \A o \in Callers : held'[o] # Idle => held'[o] = held[o]
      BY <2>2 DEF WriteAccess, IType
    <3>2. Apart(doc')
      BY <2>2 DEF WriteAccess, IApart
    <3> QED
      BY <3>1, <3>2 DEF IApart, AskedOnce, Apart
  <2>3. CASE Tick
    BY <2>3 DEF Tick, IApart, AskedOnce, Apart
  <2>4. CASE UNCHANGED accessVars
    BY <2>4 DEF accessVars, IApart, AskedOnce, Apart
  <2> QED
    BY <2>1, <2>2, <2>3, <2>4 DEF AccessNext
<1>3. IApart => AskedOnce
  BY DEF IApart
<1> QED
  BY <1>1, <1>2, <1>3, ITypeHolds, PTL DEF AccessSpec

\* While callers take turns, one at most is about to write, and what it is
\* about to write accounts for what was granted.
Alone == \A c, o \in Callers : held[c] # Idle /\ held[o] # Idle => c = o
Accounted ==
  \A c \in Callers : held[c] # Idle =>
    held[c].doc.games \cup held[c].doc.mods =
      IF held[c].op \in {"grant", "approve"} THEN granted \cup held[c].keys
      ELSE IF held[c].op = "revoke" THEN granted \ held[c].keys ELSE granted
ISerial == ~lapped => Alone /\ Accounted /\ GrantsKept

\* The grants of a document after an accepted call.
LEMMA AfterGrants ==
  ASSUME NEW d \in Docs, NEW ask \in Calls, Accepted(ask, d)
  PROVE  After(ask, d).games \cup After(ask, d).mods =
           IF ask.op \in {"grant", "approve"} THEN d.games \cup d.mods \cup KeysOf(ask, d)
           ELSE IF ask.op = "revoke" THEN (d.games \cup d.mods) \ KeysOf(ask, d) ELSE d.games \cup d.mods
<1> USE DEF Docs, Keys
<1>1. CASE ask.op = "request"
  BY <1>1 DEF After, Ask
<1>2. CASE ask.op = "grant"
  BY <1>2 DEF Calls, After, Add, KeysOf
<1>3. CASE ask.op = "revoke"
  BY <1>3 DEF Calls, After, Remove, KeysOf
<1>4. CASE ask.op = "approve"
  <2>0. d.pending \in Pendings /\ ask.at \in DOMAIN d.pending
    BY <1>4 DEF Accepted
  <2>1. d.pending[ask.at] \subseteq Keys
    BY <2>0 DEF Pendings
  <2>2. After(ask, d).games = d.games \cup (d.pending[ask.at] \cap Games)
        /\ After(ask, d).mods = d.mods \cup (d.pending[ask.at] \cap Mods)
    BY <1>4 DEF After, Approved, Drop, Add
  <2> QED
    BY <1>4, <2>1, <2>2 DEF KeysOf
<1>5. CASE ask.op = "deny"
  BY <1>5 DEF After, Drop
<1>6. CASE ask.op = "ensure"
  BY <1>6 DEF After
<1> QED
  BY <1>1, <1>2, <1>3, <1>4, <1>5, <1>6 DEF Calls

\* Callers that take turns lose no grant and no revocation.
THEOREM TurnsKeepGrants == AccessSpec => []GrantsKept
<1>1. AccessInit => ISerial
  BY DEF AccessInit, ISerial, Alone, Accounted, GrantsKept, Current, Fresh
<1>2. IType /\ ISerial /\ [AccessNext]_accessVars => ISerial'
  <2> SUFFICES ASSUME IType, ISerial, [AccessNext]_accessVars, ~lapped' PROVE (Alone /\ Accounted /\ GrantsKept)'
    BY DEF ISerial
  <2>0. ~lapped
    BY DEF AccessNext, ReadAccess, WriteAccess, Tick, accessVars, IType
  <2>1. ASSUME NEW c \in Callers, NEW ask \in Calls, ReadAccess(c, ask) PROVE (Alone /\ Accounted /\ GrantsKept)'
    <3>1. held' = [held EXCEPT ![c] = [op |-> ask.op, keys |-> KeysOf(ask, Current),
                                       at |-> AtOf(ask), doc |-> After(ask, Current)]]
          /\ \A o \in Callers : held[o] = Idle
      BY <2>1 DEF ReadAccess
    <3>2. \A o \in Callers : held'[o] # Idle => o = c
      BY <3>1 DEF IType
    <3>3. held'[c] = [op |-> ask.op, keys |-> KeysOf(ask, Current),
                      at |-> AtOf(ask), doc |-> After(ask, Current)]
      BY <3>1 DEF IType
    <3>4. After(ask, Current).games \cup After(ask, Current).mods =
            IF ask.op \in {"grant", "approve"} THEN granted \cup KeysOf(ask, Current)
            ELSE IF ask.op = "revoke" THEN granted \ KeysOf(ask, Current) ELSE granted
      BY <2>0, <2>1, CurrentIsDoc, AfterGrants DEF ReadAccess, ISerial, GrantsKept
    <3>5. granted' = granted /\ GrantsKept'
      BY <2>0, <2>1 DEF ReadAccess, Until, ISerial, GrantsKept, Current
    <3>6. Accounted'
      BY <3>2, <3>3, <3>4, <3>5 DEF Accounted
    <3> QED
      BY <3>2, <3>5, <3>6 DEF Alone
  <2>2. ASSUME NEW c \in Callers, WriteAccess(c) PROVE (Alone /\ Accounted /\ GrantsKept)'
    <3>1. \A o \in Callers : held'[o] = Idle
      BY <2>0, <2>2 DEF WriteAccess, IType, ISerial, Alone
    <3>2. held[c].doc \in Docs /\ doc' = held[c].doc
      BY <2>2 DEF WriteAccess, IType, Holds
    <3>3. Current' = doc'
      BY <3>2, AccessAssumption DEF Current
    <3>4. GrantsKept'
      BY <2>0, <2>2, <3>2, <3>3 DEF WriteAccess, Until, ISerial, Accounted, GrantsKept
    <3> QED
      BY <3>1, <3>4 DEF Alone, Accounted
  <2>3. CASE Tick
    BY <2>0, <2>3 DEF Tick, ISerial, Alone, Accounted, GrantsKept, Current
  <2>4. CASE UNCHANGED accessVars
    BY <2>0, <2>4 DEF accessVars, ISerial, Alone, Accounted, GrantsKept, Current
  <2> QED
    BY <2>1, <2>2, <2>3, <2>4 DEF AccessNext
<1>3. ISerial => GrantsKept
  BY DEF ISerial, GrantsKept
<1> QED
  BY <1>1, <1>2, <1>3, ITypeHolds, PTL DEF AccessSpec

-----------------------------------------------------------------------------
\* A recorded request, and the requests recorded once h is written.
Waits(r, d) == r.at \in DOMAIN d.pending /\ d.pending[r.at] = r.keys
AskedWith(h) ==
  IF h.op = "request" THEN asked \cup {[at |-> h.at, keys |-> h.keys]}
  ELSE IF h.op \in {"approve", "deny"} THEN {r \in asked : r.at # h.at} ELSE asked

\* While callers take turns and requests come a second apart, what a caller is
\* about to write holds every request that is recorded by then.
Noted == \A c \in Callers : held[c] # Idle => \A r \in AskedWith(held[c]) : Waits(r, held[c].doc)
IAsked == ~lapped /\ ~crowded => Alone /\ Noted /\ \A r \in asked : Waits(r, Current)

\* A request of a document waits in it after an accepted call, unless the call
\* decides it or asks in the same second.
LEMMA AfterWaits ==
  ASSUME NEW d \in Docs, NEW ask \in Calls, Accepted(ask, d), NEW r, Waits(r, d),
         ask.op = "request" => clock \notin DOMAIN d.pending,
         ask.op \in {"approve", "deny"} => r.at # ask.at
  PROVE  Waits(r, After(ask, d))
<1> USE DEF Docs, Waits
<1>1. CASE ask.op = "request"
  <2> DEFINE S == New(d, ask.keys)
  <2>1. After(ask, d).pending = [u \in DOMAIN d.pending \cup {clock} |-> IF u = clock THEN S ELSE d.pending[u]]
    BY <1>1 DEF After, Ask
  <2> HIDE DEF S
  <2> QED
    BY <1>1, <2>1
<1>2. CASE ask.op \in {"grant", "revoke", "ensure"}
  <2>1. After(ask, d).pending = d.pending
    BY <1>2 DEF After, Add, Remove
  <2> QED
    BY <2>1
<1>3. CASE ask.op \in {"approve", "deny"}
  <2>1. After(ask, d).pending = [u \in DOMAIN d.pending \ {ask.at} |-> d.pending[u]]
    BY <1>3 DEF After, Approved, Add, Drop, Restrict
  <2> QED
    BY <1>3, <2>1
<1> QED
  BY <1>1, <1>2, <1>3 DEF Calls

\* The request itself waits in the document that records it.
LEMMA AskedWaits ==
  ASSUME NEW d \in Docs, NEW ask \in Calls, ask.op = "request"
  PROVE  Waits([at |-> clock, keys |-> New(d, ask.keys)], After(ask, d))
<1> DEFINE S == New(d, ask.keys)
           r == [at |-> clock, keys |-> S]
<1>1. After(ask, d).pending = [u \in DOMAIN d.pending \cup {clock} |-> IF u = clock THEN S ELSE d.pending[u]]
  BY DEF After, Ask, Docs
<1>2. r.at = clock /\ r.keys = S
  OBVIOUS
<1>3. Waits(r, After(ask, d))
  <2> HIDE DEF S, r
  <2> QED
    BY <1>1, <1>2 DEF Waits
<1> QED
  BY <1>3

\* Callers that take turns, a second apart, lose no request: it waits until it
\* is approved or denied.
THEOREM TurnsKeepRequests == AccessSpec => []RequestsKept
<1> DEFINE Goal == Alone /\ Noted /\ \A r \in asked : Waits(r, Current)
<1>1. AccessInit => IAsked
  BY DEF AccessInit, IAsked, Alone, Noted
<1>2. IType /\ IAsked /\ [AccessNext]_accessVars => IAsked'
  <2> SUFFICES ASSUME IType, IAsked, [AccessNext]_accessVars, ~lapped', ~crowded' PROVE Goal'
    BY DEF IAsked
  <2>0. ~lapped /\ ~crowded
    BY DEF AccessNext, ReadAccess, WriteAccess, Tick, accessVars, IType
  <2>g. Goal
    BY <2>0 DEF IAsked
  <2>1. ASSUME NEW c \in Callers, NEW ask \in Calls, ReadAccess(c, ask) PROVE Goal'
    <3> DEFINE h == [op |-> ask.op, keys |-> KeysOf(ask, Current),
                     at |-> AtOf(ask), doc |-> After(ask, Current)]
    <3>1. held' = [held EXCEPT ![c] = h] /\ \A o \in Callers : held[o] = Idle
      BY <2>1 DEF ReadAccess
    <3>2. (\A o \in Callers : held'[o] # Idle => o = c) /\ held'[c] = h
      BY <3>1 DEF IType
    <3>3. asked' = asked /\ doc' = doc
      BY <2>0, <2>1 DEF ReadAccess, Until
    <3>4. Current' = Current
      BY <3>3 DEF Current
    <3>5. /\ Current \in Docs /\ Accepted(ask, Current)
          /\ ask.op = "request" => clock \notin DOMAIN Current.pending
      BY <2>1, CurrentIsDoc DEF ReadAccess
    <3>6. ASSUME NEW r \in AskedWith(h) PROVE Waits(r, After(ask, Current))
      <4>1. CASE r \in asked
        <5>1. Waits(r, Current)
          BY <2>g, <4>1
        <5>2. ask.op \in {"approve", "deny"} => r.at # ask.at
          BY <3>6 DEF AskedWith, AtOf
        <5> QED
          BY <3>5, <5>1, <5>2, AfterWaits
      <4>2. CASE r \notin asked
        <5>1. ask.op = "request" /\ r = [at |-> clock, keys |-> New(Current, ask.keys)]
          BY <3>6, <4>2 DEF AskedWith, AtOf, KeysOf
        <5> QED
          BY <3>5, <5>1, AskedWaits
      <4> QED
        BY <4>1, <4>2
    <3>7. \A r \in AskedWith(h) : Waits(r, h.doc)
      BY <3>6
    <3>8. Noted'
      <4> HIDE DEF h
      <4> QED
        BY <3>2, <3>3, <3>7 DEF Noted, AskedWith, Waits
    <3> QED
      BY <2>g, <3>2, <3>3, <3>4, <3>8 DEF Alone, Waits
  <2>2. ASSUME NEW c \in Callers, WriteAccess(c) PROVE Goal'
    <3>1. \A o \in Callers : held'[o] = Idle
      BY <2>2, <2>g DEF WriteAccess, IType, Alone
    <3>2. held[c] \in Holds /\ held[c] # Idle /\ doc' = held[c].doc
      BY <2>2 DEF WriteAccess, IType
    <3>3. Current' = held[c].doc
      BY <3>2, AccessAssumption DEF Current, Holds
    <3>4. asked' = AskedWith(held[c])
      BY <2>0, <2>2 DEF WriteAccess, Until, AskedWith
    <3>5. \A r \in asked' : Waits(r, held[c].doc)
      BY <2>g, <3>2, <3>4 DEF Noted
    <3> QED
      BY <3>1, <3>3, <3>5 DEF Alone, Noted, Waits
  <2>3. CASE Tick
    BY <2>g, <2>3 DEF Tick, Alone, Noted, AskedWith, Waits, Current
  <2>4. CASE UNCHANGED accessVars
    BY <2>g, <2>4 DEF accessVars, Alone, Noted, AskedWith, Waits, Current
  <2> QED
    BY <2>1, <2>2, <2>3, <2>4 DEF AccessNext
<1>3. IAsked => RequestsKept
  BY DEF IAsked, RequestsKept, Waits
<1> QED
  BY <1>1, <1>2, <1>3, ITypeHolds, PTL DEF AccessSpec

-----------------------------------------------------------------------------
(* THE SETTINGS.                                                            *)

(* The store of members' languages.                                         *)

\* It is short, and names no member twice.
Bounded(entries) ==
  /\ Len(entries) <= Bound
  /\ \A i, j \in DOMAIN entries : entries[i][1] = entries[j][1] => i = j

\* What an observation makes of the store: an update in place or a new last
\* entry, cut to the last Bound ones, among which the observed member stays.
LEMMA RecordedProperties ==
  ASSUME NEW S, NEW entries \in Seq(S), NEW entry \in S, Bounded(entries)
  PROVE  /\ Recorded(entries, entry) \in Seq(S)
         /\ Bounded(Recorded(entries, entry))
         /\ entry[1] \in Names(Recorded(entries, entry))
<1> DEFINE longer == IF entry[1] \in Names(entries)
                     THEN [i \in DOMAIN entries |-> IF entries[i][1] = entry[1] THEN entry ELSE entries[i]]
                     ELSE Append(entries, entry)
           first == IF Len(longer) > Bound THEN Len(longer) - Bound + 1 ELSE 1
<1>l. Len(entries) \in Nat /\ DOMAIN entries = 1..Len(entries) /\ Bound \in Nat \ {0}
  BY LenProperties, SettingsAssumption
<1>1. /\ longer \in Seq(S) /\ Len(longer) <= Bound + 1
      /\ \A i, j \in 1..Len(longer) : longer[i][1] = longer[j][1] => i = j
      /\ \E i \in 1..Len(longer) : longer[i][1] = entry[1] /\ first <= i
  <2>1. CASE entry[1] \in Names(entries)
    <3> DEFINE updated == [i \in 1..Len(entries) |-> IF entries[i][1] = entry[1] THEN entry ELSE entries[i]]
    <3>1. longer = updated
      BY <2>1, <1>l
    <3>2. updated \in [1..Len(entries) -> S] /\ \A i \in 1..Len(entries) : updated[i][1] = entries[i][1]
      BY <1>l, ElementOfSeq
    <3> HIDE DEF updated, longer
    <3>3. updated \in Seq(S)
      BY <3>2, <1>l, SeqDef
    <3>4. Len(updated) = Len(entries)
      BY <3>2, <3>3, <1>l, LenProperties
    <3>5. first = 1
      BY <3>1, <3>4, <1>l DEF Bounded
    <3>6. PICK m \in 1..Len(entries) : entries[m][1] = entry[1]
      BY <2>1, <1>l DEF Names
    <3>7. \A i, j \in 1..Len(updated) : updated[i][1] = updated[j][1] => i = j
      BY <3>2, <3>4, <1>l DEF Bounded
    <3>8. updated[m][1] = entry[1] /\ m \in 1..Len(updated) /\ first <= m
      BY <3>2, <3>4, <3>5, <3>6, <1>l
    <3>9. Len(updated) <= Bound + 1
      BY <3>4, <1>l DEF Bounded
    <3> QED BY <3>1, <3>3, <3>7, <3>8, <3>9
  <2>2. CASE entry[1] \notin Names(entries)
    <3>1. longer = Append(entries, entry)
      BY <2>2
    <3> HIDE DEF longer
    <3>2. /\ longer \in Seq(S) /\ Len(longer) = Len(entries) + 1
          /\ \A i \in 1..Len(entries) : longer[i] = entries[i]
          /\ longer[Len(entries) + 1] = entry
      <4>1. /\ Append(entries, entry) \in Seq(S)
            /\ Len(Append(entries, entry)) = Len(entries) + 1
            /\ \A i \in 1..Len(entries) : Append(entries, entry)[i] = entries[i]
            /\ Append(entries, entry)[Len(entries) + 1] = entry
        BY AppendProperties
      <4> QED BY <3>1, <4>1
    <3>3. \A i \in 1..Len(entries) : entries[i][1] # entry[1]
      BY <2>2, <1>l DEF Names
    <3>4. \A i, j \in 1..Len(longer) : longer[i][1] = longer[j][1] => i = j
      BY <3>2, <3>3, <1>l DEF Bounded
    <3>5. first <= Len(entries) + 1
      BY <3>2, <1>l
    <3> QED BY <3>2, <3>4, <3>5, <1>l DEF Bounded
  <2> QED BY <2>1, <2>2
<1>2. Recorded(entries, entry) = SubSeq(longer, first, Len(longer))
  BY DEF Recorded
<1> HIDE DEF longer
<1>3. Len(longer) \in Nat /\ DOMAIN longer = 1..Len(longer)
  BY <1>1, LenProperties
<1>4. first \in 1..(Len(longer) + 1)
  BY <1>1, <1>3, <1>l
<1>5. \A i \in first..Len(longer) : longer[i] \in S
  BY <1>1, <1>3, <1>4, ElementOfSeq
<1> DEFINE kept == SubSeq(longer, first, Len(longer))
<1>6. /\ kept \in Seq(S)
      /\ Len(kept) = Len(longer) - first + 1
      /\ \A i \in 1..(Len(longer) - first + 1) : kept[i] = longer[first + i - 1]
  <2> HIDE DEF first
  <2>1. first \in Int /\ Len(longer) \in Int
    BY <1>3, <1>4
  <2>2. /\ kept \in Seq(S)
        /\ Len(kept) = IF first <= Len(longer) THEN Len(longer) - first + 1 ELSE 0
        /\ \A i \in 1..(Len(longer) - first + 1) : kept[i] = longer[first + i - 1]
    BY <2>1, <1>5, SubSeqProperties
  <2> QED BY <2>2, <1>3, <1>4
<1>7. DOMAIN kept = 1..Len(kept)
  BY <1>6, LenProperties
<1>8. Len(kept) <= Bound
  BY <1>6, <1>3, <1>l
<1> HIDE DEF kept, first
<1>9. Bounded(kept)
  <2> SUFFICES ASSUME NEW i \in 1..Len(kept), NEW j \in 1..Len(kept), kept[i][1] = kept[j][1]
               PROVE  i = j
    BY <1>7, <1>8 DEF Bounded
  <2>1. kept[i] = longer[first + i - 1] /\ kept[j] = longer[first + j - 1]
    BY <1>6
  <2>2. first + i - 1 \in 1..Len(longer) /\ first + j - 1 \in 1..Len(longer)
    BY <1>3, <1>4, <1>6
  <2>3. first + i - 1 = first + j - 1
    BY <1>1, <2>1, <2>2
  <2> QED BY <2>3, <1>3, <1>4
<1>10. entry[1] \in Names(kept)
  <2>1. PICK i \in 1..Len(longer) : longer[i][1] = entry[1] /\ first <= i
    BY <1>1
  <2>2. i - first + 1 \in DOMAIN kept /\ kept[i - first + 1] = longer[i]
    <3>1. i - first + 1 \in 1..(Len(longer) - first + 1) /\ first + (i - first + 1) - 1 = i
      BY <2>1, <1>3, <1>4
    <3> QED BY <3>1, <1>6, <1>7
  <2> QED BY <2>1, <2>2 DEF Names
<1> QED BY <1>2, <1>6, <1>9, <1>10 DEF kept

-----------------------------------------------------------------------------
(* Types.                                                                   *)

Documents == {"guild", "user"}

\* Each caller holds an operation and the document that it read.
Held(c) == call[c] # None =>
  /\ call[c].op \in Ops
  /\ IsDoc(call[c].op.doc, call[c].read)
  /\ call[c].op.doc = "guild" => Bounded(call[c].read.members)

\* The types, with the bounded store of members' languages wherever a
\* document of the guild is held.
SettingsTyped ==
  /\ DOMAIN store = Documents /\ DOMAIN call = Handlers
  /\ \A d \in Documents : IsDoc(d, store[d])
  /\ Bounded(store["guild"].members)
  /\ \A c \in Handlers : Held(c)
  /\ hurt \subseteq Documents /\ calls \in 0..MaxCalls

\* The documents and fields that an operation may name.
LEMMA OpShape ==
  ASSUME NEW op \in Ops
  PROVE  /\ op.doc \in Documents
         /\ op.doc = "guild" => op.field \in {"locale", "members", "readonly"}
         /\ op.doc = "user" => op.field \in {"locale", "site"}
BY SettingsAssumption DEF IsOp, Documents

LEMMA BlankDoc ==
  ASSUME NEW d \in Documents
  PROVE  IsDoc(d, Blank(d)) /\ (d = "guild" => Bounded(Blank(d).members))
<1>1. DOMAIN Blank("guild") = {"locale", "members", "readonly"} /\ DOMAIN Blank("user") = {"locale", "site"}
  BY DEF Blank
<1>2. <<>> \in Entries /\ Bounded(<<>>)
  BY SettingsAssumption DEF Entries, Bounded
<1>3. \A f \in DOMAIN Blank(d) : f # "members" => Blank(d)[f] = None
  BY DEF Blank, Documents
<1>4. d = "guild" => Blank(d).members = <<>> /\ Blank(d)["members"] = <<>>
  BY DEF Blank
<1>5. "members" \in DOMAIN Blank(d) => d = "guild"
  BY <1>1 DEF Documents
<1> QED BY <1>2, <1>3, <1>4, <1>5 DEF IsDoc, Values

\* An operation turns a document of its kind into one.
LEMMA ChangedDoc ==
  ASSUME NEW op \in Ops, NEW read, IsDoc(op.doc, read),
         op.doc = "guild" => Bounded(read.members)
  PROVE  /\ IsDoc(op.doc, Changed(op, read))
         /\ op.doc = "guild" => Bounded(Changed(op, read).members)
         /\ \A f \in DOMAIN read \ {op.field} : Changed(op, read)[f] = read[f]
         /\ op.field # "members" => Changed(op, read)[op.field] = op.value
         /\ op.field = "members" => op.value[1] \in Names(Changed(op, read).members)
<1> DEFINE new == IF op.field = "members" THEN Recorded(read[op.field], op.value) ELSE op.value
<1>1. Changed(op, read) = [read EXCEPT ![op.field] = new]
  BY DEF Changed
<1>2. DOMAIN read = DOMAIN Blank(op.doc) /\ op.field \in DOMAIN read
  BY OpShape DEF IsDoc, Blank, Documents
<1>3. op.field = "members" => op.doc = "guild" /\ op.value \in UNION {{o.value} : o \in {q \in Ops : q.field = "members"}}
  <2>1. op.field = "members" => op.doc = "guild"
    BY OpShape DEF Documents
  <2> QED BY <2>1
<1>4. CASE op.field = "members"
  <2>1. read.members \in Entries
    BY <1>2, <1>4 DEF IsDoc
  <2>2. new \in Entries /\ Bounded(new) /\ op.value[1] \in Names(new)
    BY <1>3, <1>4, <2>1, RecordedProperties DEF Entries
  <2> HIDE DEF new
  <2>3. Changed(op, read).members = new
    BY <1>1, <1>2, <1>4
  <2>4. \A f \in DOMAIN read \ {op.field} : Changed(op, read)[f] = read[f]
    BY <1>1
  <2>5. DOMAIN Changed(op, read) = DOMAIN read
    BY <1>1
  <2>6. IsDoc(op.doc, Changed(op, read))
    BY <1>2, <1>4, <2>2, <2>3, <2>4, <2>5 DEF IsDoc
  <2> QED BY <1>4, <2>2, <2>3, <2>4, <2>6
<1>5. CASE op.field # "members"
  <2>1. new = op.value
    BY <1>5
  <2>2. op.value \in Values(op.doc, op.field)
    BY DEF Values
  <2> HIDE DEF new
  <2>3. Changed(op, read)[op.field] = op.value
    BY <1>1, <1>2, <2>1
  <2>4. \A f \in DOMAIN read \ {op.field} : Changed(op, read)[f] = read[f]
    BY <1>1
  <2>5. DOMAIN Changed(op, read) = DOMAIN read
    BY <1>1
  <2>6. IsDoc(op.doc, Changed(op, read))
    BY <1>2, <1>5, <2>2, <2>3, <2>4, <2>5 DEF IsDoc
  <2>7. op.doc = "guild" => Changed(op, read).members = read.members
    BY <1>2, <1>5, <2>4 DEF Blank
  <2> QED BY <1>5, <2>3, <2>4, <2>6, <2>7
<1> QED BY <1>4, <1>5

\* What a write does to the documents: nothing, or the change of its own.
LEMMA Writes ==
  ASSUME SettingsTyped, NEW c \in Handlers, WriteSetting(c)
  PROVE  LET op == call[c].op  read == call[c].read IN
         /\ call[c] # None /\ op \in Ops /\ UNCHANGED <<hurt, calls>>
         /\ call' = [call EXCEPT ![c] = None]
         /\ \/ Same(op, read) /\ UNCHANGED <<store, chosen, latest>>
            \/ ~Same(op, read) /\ store' = [store EXCEPT ![op.doc] = Changed(op, read)] /\ Note(op)
BY DEF WriteSetting, SettingsTyped, Held

LEMMA SettingsTypedStep == SettingsTyped /\ [SettingsNext]_settingsVars => SettingsTyped'
<1> SUFFICES ASSUME SettingsTyped, [SettingsNext]_settingsVars PROVE SettingsTyped'
  OBVIOUS
<1>1. ASSUME NEW c \in Handlers, WriteSetting(c) PROVE SettingsTyped'
  <2> DEFINE op == call[c].op  read == call[c].read
  <2>1. op \in Ops /\ IsDoc(op.doc, read) /\ (op.doc = "guild" => Bounded(read.members))
    BY <1>1, Writes DEF SettingsTyped, Held
  <2>2. IsDoc(op.doc, Changed(op, read)) /\ (op.doc = "guild" => Bounded(Changed(op, read).members))
    BY <2>1, ChangedDoc
  <2>3. op.doc \in Documents
    BY <2>1, OpShape
  <2>4. call' = [call EXCEPT ![c] = None] /\ UNCHANGED <<hurt, calls>>
    BY <1>1, Writes
  <2>5. store' = store \/ store' = [store EXCEPT ![op.doc] = Changed(op, read)]
    BY <1>1, Writes
  <2> HIDE DEF op, read
  <2>6. DOMAIN store' = Documents /\ \A d \in Documents : IsDoc(d, store'[d])
    BY <2>2, <2>3, <2>5 DEF SettingsTyped
  <2>7. Bounded(store'["guild"].members)
    <3>1. store'["guild"] = store["guild"] \/ (op.doc = "guild" /\ store'["guild"] = Changed(op, read))
      BY <2>3, <2>5 DEF SettingsTyped, Documents
    <3> QED BY <2>2, <3>1 DEF SettingsTyped
  <2>8. \A d \in Handlers : Held(d)'
    BY <2>4 DEF SettingsTyped, Held
  <2> QED BY <2>4, <2>6, <2>7, <2>8 DEF SettingsTyped
<1>2. ASSUME NEW c \in Handlers, Fail(c) PROVE SettingsTyped'
  BY <1>2 DEF Fail, SettingsTyped, Held
<1>3. ASSUME NEW c \in Handlers, NEW op \in Ops, ReadSetting(c, op) PROVE SettingsTyped'
  <2>1. op.doc \in Documents
    BY OpShape
  <2>2. PICK read \in {store[op.doc], Blank(op.doc)} :
          call' = [call EXCEPT ![c] = [op |-> op, read |-> read]]
    BY <1>3 DEF ReadSetting
  <2>3. IsDoc(op.doc, read) /\ (op.doc = "guild" => Bounded(read.members))
    BY <2>1, <2>2, BlankDoc DEF SettingsTyped
  <2>4. \A d \in Handlers : Held(d)'
    BY <2>2, <2>3 DEF SettingsTyped, Held
  <2>5. store' = store /\ hurt' \subseteq Documents /\ calls' \in 0..MaxCalls
    BY <1>3, <2>1, SettingsAssumption DEF ReadSetting, SettingsTyped
  <2> QED BY <2>2, <2>4, <2>5 DEF SettingsTyped
<1>4. CASE UNCHANGED settingsVars
  BY <1>4 DEF settingsVars, SettingsTyped, Held
<1> QED BY <1>1, <1>2, <1>3, <1>4 DEF SettingsNext

LEMMA SettingsTypedInit == SettingsInit => SettingsTyped
<1> SUFFICES ASSUME SettingsInit PROVE SettingsTyped
  OBVIOUS
<1>1. \A d \in Documents : IsDoc(d, store[d])
  BY BlankDoc DEF SettingsInit, Documents
<1>2. Bounded(store["guild"].members)
  BY BlankDoc DEF SettingsInit, Documents
<1> QED BY <1>1, <1>2, SettingsAssumption DEF SettingsInit, SettingsTyped, Held, Documents

\* Settings keeps its types, whatever overlaps and fails.
THEOREM SettingsTypeCorrect == SettingsSpec => []SettingsTypeOK
<1>1. SettingsTyped => SettingsTypeOK
  BY DEF SettingsTyped, SettingsTypeOK, Documents, Held
<1> QED BY <1>1, SettingsTypedInit, SettingsTypedStep, PTL DEF SettingsSpec

-----------------------------------------------------------------------------
(* Documents that nothing hurt.                                             *)

\* On such a document one operation at most is under way, and it has read
\* what is stored.
Clean(d) ==
  /\ \A c \in Handlers : call[c] # None /\ call[c].op.doc = d => call[c].read = store[d]
  /\ \A c, e \in Handlers :
       call[c] # None /\ call[e] # None /\ call[c].op.doc = d /\ call[e].op.doc = d => c = e

SettingsInv ==
  /\ SettingsTyped
  /\ \A d \in Documents \ hurt : Clean(d)
  /\ GuildChoiceKept
  /\ MembersBounded

LEMMA CleanStep ==
  ASSUME SettingsInv, [SettingsNext]_settingsVars, NEW d \in Documents \ hurt'
  PROVE  Clean(d)' /\ d \notin hurt
<1>1. ASSUME NEW c \in Handlers, WriteSetting(c) PROVE Clean(d)' /\ d \notin hurt
  <2> DEFINE op == call[c].op  read == call[c].read
  <2>1. /\ call[c] # None /\ hurt' = hurt /\ call' = [call EXCEPT ![c] = None]
        /\ store' = store \/ store' = [store EXCEPT ![op.doc] = Changed(op, read)]
    BY <1>1, Writes DEF SettingsInv
  <2>2. Clean(d) /\ DOMAIN call = Handlers
    BY <2>1 DEF SettingsInv, SettingsTyped
  <2>3. CASE op.doc = d
    <3>1. \A e \in Handlers : call'[e] # None => call[e].op.doc # d /\ call'[e] = call[e]
      BY <2>1, <2>2, <2>3 DEF Clean
    <3> QED BY <2>1, <3>1 DEF Clean
  <2>4. CASE op.doc # d
    <3>1. store'[d] = store[d]
      BY <2>1, <2>4 DEF SettingsInv, SettingsTyped
    <3> HIDE DEF op, read
    <3> QED BY <2>1, <2>2, <3>1 DEF Clean
  <2> QED BY <2>3, <2>4
<1>2. ASSUME NEW c \in Handlers, Fail(c) PROVE Clean(d)' /\ d \notin hurt
  BY <1>2 DEF Fail, SettingsInv, SettingsTyped, Clean
<1>3. ASSUME NEW c \in Handlers, NEW op \in Ops, ReadSetting(c, op) PROVE Clean(d)' /\ d \notin hurt
  <2>1. d \notin hurt /\ store' = store /\ DOMAIN call = Handlers
    BY <1>3 DEF ReadSetting, SettingsInv, SettingsTyped
  <2>2. CASE op.doc = d
    <3>1. ~Busy(d) /\ call' = [call EXCEPT ![c] = [op |-> op, read |-> store[d]]]
      BY <1>3, <2>2 DEF ReadSetting
    <3> QED BY <2>1, <3>1 DEF Clean, Busy
  <2>3. CASE op.doc # d
    <3>1. PICK read : call' = [call EXCEPT ![c] = [op |-> op, read |-> read]]
      BY <1>3 DEF ReadSetting
    <3> QED BY <2>1, <2>3, <3>1 DEF Clean, SettingsInv
  <2> QED BY <2>2, <2>3
<1>4. CASE UNCHANGED settingsVars
  BY <1>4 DEF settingsVars, SettingsInv, Clean
<1> QED BY <1>1, <1>2, <1>3, <1>4 DEF SettingsNext

\* A write on a document of the guild that nothing hurt notes what it does.
LEMMA GuildWrite ==
  ASSUME SettingsInv, NEW c \in Handlers, WriteSetting(c), "guild" \notin hurt
  PROVE  (GuildChoiceKept /\ MembersBounded)'
<1> DEFINE op == call[c].op  read == call[c].read
<1>1. /\ op \in Ops /\ hurt' = hurt /\ call[c] # None
      /\ \/ Same(op, read) /\ UNCHANGED <<store, chosen, latest>>
         \/ ~Same(op, read) /\ store' = [store EXCEPT ![op.doc] = Changed(op, read)] /\ Note(op)
  BY Writes DEF SettingsInv
<1>2. IsDoc(op.doc, read) /\ (op.doc = "guild" => Bounded(read.members)) /\ DOMAIN store = Documents
  BY <1>1 DEF SettingsInv, SettingsTyped, Held
<1>3. op.doc = "guild" => read = store["guild"]
  BY <1>1 DEF SettingsInv, Clean, Documents
<1>4. CASE UNCHANGED <<store, chosen, latest>>
  BY <1>1, <1>4 DEF SettingsInv, GuildChoiceKept, MembersBounded
<1>5. CASE op.doc = "user" /\ store' = [store EXCEPT !["user"] = Changed(op, read)] /\ Note(op)
  <2>1. store'["guild"] = store["guild"] /\ chosen' = chosen /\ latest' = latest
    BY <1>1, <1>2, <1>5, OpShape DEF Note, Documents
  <2> QED BY <1>1, <2>1 DEF SettingsInv, GuildChoiceKept, MembersBounded
<1>6. CASE op.doc = "guild" /\ store' = [store EXCEPT !["guild"] = Changed(op, read)] /\ Note(op)
  <2>1. store'["guild"] = Changed(op, store["guild"])
    BY <1>2, <1>3, <1>6 DEF Documents
  <2>2. /\ \A f \in DOMAIN store["guild"] \ {op.field} : store'["guild"][f] = store["guild"][f]
        /\ op.field # "members" => store'["guild"][op.field] = op.value
        /\ op.field = "members" => op.value[1] \in Names(store'["guild"].members)
    BY <1>1, <1>2, <1>3, <1>6, <2>1, ChangedDoc
  <2>3. DOMAIN store["guild"] = {"locale", "members", "readonly"}
    BY <1>2, <1>3, <1>6 DEF IsDoc, Blank
  <2>4. Bounded(store'["guild"].members)
    BY <1>1, <1>2, <1>3, <1>6, <2>1, ChangedDoc
  <2>5. GuildChoiceKept'
    BY <1>1, <1>6, <2>2, <2>3 DEF Note, SettingsInv, GuildChoiceKept
  <2>6. latest' # None => latest' \in Names(store'["guild"].members)
    BY <1>1, <1>6, <2>2, <2>3 DEF Note, SettingsInv, MembersBounded
  <2> QED BY <2>4, <2>5, <2>6 DEF MembersBounded, Bounded
<1> QED BY <1>1, <1>4, <1>5, <1>6, OpShape DEF Documents

LEMMA InvStep == SettingsInv /\ [SettingsNext]_settingsVars => SettingsInv'
<1> SUFFICES ASSUME SettingsInv, [SettingsNext]_settingsVars PROVE SettingsInv'
  OBVIOUS
<1>1. SettingsTyped' /\ \A d \in (Documents \ hurt)' : Clean(d)'
  BY SettingsTypedStep, CleanStep DEF SettingsInv
<1>2. Bounded(store["guild"].members)'
  BY <1>1 DEF SettingsTyped
<1>3. CASE "guild" \in hurt'
  BY <1>1, <1>2, <1>3 DEF SettingsInv, GuildChoiceKept, MembersBounded, Bounded
<1>4. CASE "guild" \notin hurt'
  <2>1. "guild" \notin hurt
    BY <1>4, CleanStep DEF Documents
  <2>2. CASE \E c \in Handlers : WriteSetting(c)
    BY <1>1, <2>1, <2>2, GuildWrite DEF SettingsInv
  <2>3. CASE UNCHANGED <<store, chosen, latest>>
    BY <1>1, <2>1, <2>3 DEF SettingsInv, GuildChoiceKept, MembersBounded
  <2> QED BY <2>2, <2>3 DEF SettingsNext, Fail, ReadSetting, settingsVars
<1> QED BY <1>3, <1>4

LEMMA InvInit == SettingsInit => SettingsInv
<1> SUFFICES ASSUME SettingsInit PROVE SettingsInv
  OBVIOUS
<1>1. SettingsTyped /\ \A d \in Documents : Clean(d)
  BY SettingsTypedInit DEF SettingsInit, Clean
<1>2. store["guild"].locale = None /\ Bounded(store["guild"].members) /\ chosen = None /\ latest = None
  BY <1>1 DEF SettingsInit, SettingsTyped, Blank
<1> QED BY <1>1, <1>2 DEF SettingsInv, GuildChoiceKept, MembersBounded, Bounded

\* The guild's language is the one that was last picked, unless an operation
\* overlapped another on its document or a read of it failed.
THEOREM PickIsKept == SettingsSpec => []GuildChoiceKept
<1>1. SettingsInv => GuildChoiceKept
  BY DEF SettingsInv
<1> QED BY <1>1, InvInit, InvStep, PTL DEF SettingsSpec

\* The store of members' languages keeps its bound and names each member once,
\* always; the member seen last is in it unless the document was hurt.
THEOREM StoreIsBounded == SettingsSpec => []MembersBounded
<1>1. SettingsInv => MembersBounded
  BY DEF SettingsInv
<1> QED BY <1>1, InvInit, InvStep, PTL DEF SettingsSpec

\* A write on a document that nothing hurt changes the field of its operation.
THEOREM WritesOwnField == SettingsSpec => OnlyOwnField
<1> DEFINE Own == \A d \in DOMAIN store \ hurt : \A f \in DOMAIN store[d] :
       store'[d][f] # store[d][f] =>
         \E c \in Handlers : /\ call[c] # None /\ call'[c] = None
                            /\ call[c].op.doc = d /\ call[c].op.field = f
<1>1. ASSUME SettingsInv, [SettingsNext]_settingsVars PROVE Own
  <2> SUFFICES ASSUME NEW d \in DOMAIN store \ hurt, NEW f \in DOMAIN store[d], store'[d][f] # store[d][f]
               PROVE  \E c \in Handlers : /\ call[c] # None /\ call'[c] = None
                                         /\ call[c].op.doc = d /\ call[c].op.field = f
    OBVIOUS
  <2>1. PICK c \in Handlers : WriteSetting(c)
    BY <1>1 DEF SettingsNext, Fail, ReadSetting, settingsVars
  <2> DEFINE op == call[c].op  read == call[c].read
  <2>2. /\ op \in Ops /\ call[c] # None /\ call'[c] = None
        /\ store' = [store EXCEPT ![op.doc] = Changed(op, read)]
    BY <1>1, <2>1, Writes DEF SettingsInv, SettingsTyped
  <2>3. op.doc = d /\ store'[d] = Changed(op, read)
    BY <2>2
  <2>4. read = store[d]
    BY <1>1, <2>2, <2>3 DEF SettingsInv, SettingsTyped, Clean
  <2>5. IsDoc(op.doc, read) /\ (op.doc = "guild" => Bounded(read.members))
    BY <1>1, <2>2 DEF SettingsInv, SettingsTyped, Held
  <2>6. \A g \in DOMAIN read \ {op.field} : Changed(op, read)[g] = read[g]
    BY <2>2, <2>5, ChangedDoc
  <2>7. op.field = f
    BY <2>3, <2>4, <2>6
  <2> QED BY <2>2, <2>3, <2>7
<1>2. SettingsInv /\ [SettingsNext]_settingsVars => [Own]_settingsVars
  BY <1>1
<1> QED BY <1>2, InvInit, InvStep, PTL DEF SettingsSpec, OnlyOwnField

-----------------------------------------------------------------------------
(* THE BINDINGS OF PROFILES.                                                *)

USE DEF Kinds

-----------------------------------------------------------------------------
(* Type correctness.                                                        *)

\* The user and the profile of the next link.
LEMMA LinkType ==
  ASSUME RegistrationTypeOK, left # <<>>
  PROVE  User \in Users /\ Profile \in Profiles /\ Tail(left) \in Seq(Users \X Profiles)
<1>1. Head(left) \in Users \X Profiles /\ Tail(left) \in Seq(Users \X Profiles)
  BY HeadTailProperties DEF RegistrationTypeOK
<1> QED BY <1>1 DEF User, Profile

\* A step that writes a binding keeps their type.
LEMMA PutType ==
  ASSUME RegistrationTypeOK, NEW u \in Users, NEW p \in Profiles, NEW kind \in Kinds, Put(u, p, kind)
  PROVE  bindings' \in [Users -> [Profiles -> Kinds]]
BY DEF RegistrationTypeOK, Put

\* The import's pending states have a link at hand.
LinksLeft == pc \in {"owner", "delete", "write"} => left # <<>>
                                               /\ (pc = "delete" => owner \in Users)

\* RegistrationTypeOK and LinksLeft together are inductive.
RegistrationTyped == RegistrationTypeOK /\ LinksLeft

LEMMA RegistrationTypedInit == RegistrationInit => RegistrationTyped
<1> SUFFICES ASSUME RegistrationInit PROVE RegistrationTyped OBVIOUS
<1>1. crossed \in BOOLEAN BY DEF RegistrationInit
<1> QED BY <1>1, RegistrationAssumption DEF RegistrationInit, RegistrationTyped, RegistrationTypeOK, LinksLeft

\* An operation that begins notes whether another one is under way.
LEMMA EnterType == Enter => crossed' \in BOOLEAN
BY DEF Enter

LEMMA RegistrationTypedStep == RegistrationTyped /\ [RegistrationNext]_registrationVars => RegistrationTyped'
<1> SUFFICES ASSUME RegistrationTyped, [RegistrationNext]_registrationVars PROVE RegistrationTyped' OBVIOUS
<1> USE RegistrationAssumption DEF RegistrationTyped, LinksLeft
<1>1. ASSUME NEW u \in Users, NEW p \in Profiles, FindOwner(u, p) PROVE RegistrationTyped'
  BY <1>1, EnterType DEF FindOwner, RegistrationTypeOK, imports
<1>2. ASSUME NEW u \in Users, Upsert(u) PROVE RegistrationTyped'
  <2>1. task[u] \in Profiles BY <1>2 DEF Upsert, RegistrationTypeOK
  <2>2. bindings' \in [Users -> [Profiles -> Kinds]] BY <1>2, <2>1, PutType DEF Upsert
  <2> QED BY <1>2, <2>2 DEF Upsert, RegistrationTypeOK, imports
<1>3. ASSUME NEW u \in Users, NEW p \in Profiles, Unlink(u, p) PROVE RegistrationTyped'
  <2>1. bindings' \in [Users -> [Profiles -> Kinds]] BY <1>3, PutType DEF Unlink
  <2> QED BY <1>3, <2>1, EnterType DEF Unlink, RegistrationTypeOK, imports
<1>4. CASE BotRestarts
  BY <1>4 DEF BotRestarts, RegistrationTypeOK, imports
<1>5. ASSUME NEW f \in Files, Start(f) PROVE RegistrationTyped'
  BY <1>5, EnterType DEF Start, RegistrationTypeOK
<1>6. CASE FindOwn
  <2>1. bindings[User][Profile] \in Kinds BY <1>6, LinkType DEF FindOwn, RegistrationTypeOK
  <2> QED BY <1>6, <2>1 DEF FindOwn, RegistrationTypeOK
<1>7. CASE FindForeign
  <2>1. pc' \in {"write", "delete"} /\ UNCHANGED <<bindings, task, file, left, seen>> BY <1>7 DEF FindForeign
  <2>2. owner' \in Users \cup {NoUser} /\ (pc' = "delete" => owner' \in Users)
    BY <1>7 DEF FindForeign, Foreign, Owners, RegistrationTypeOK
  <2> QED BY <1>7, <2>1, <2>2 DEF RegistrationTypeOK, FindForeign
<1>8. CASE DeleteStale
  <2>1. bindings' \in [Users -> [Profiles -> Kinds]] BY <1>8, LinkType, PutType DEF DeleteStale
  <2> QED BY <1>8, <2>1 DEF DeleteStale, RegistrationTypeOK
<1>9. CASE Write
  <2>1. Merged \in Kinds BY DEF Merged
  <2>2. bindings' \in [Users -> [Profiles -> Kinds]] BY <1>9, <2>1, LinkType, PutType DEF Write
  <2> QED BY <1>9, <2>2, LinkType DEF Write, RegistrationTypeOK
<1>10. CASE Finish
  BY <1>10 DEF Finish, RegistrationTypeOK
<1>11. CASE Crash
  BY <1>11 DEF Crash, RegistrationTypeOK
<1>12. CASE UNCHANGED registrationVars
  BY <1>12 DEF registrationVars, RegistrationTypeOK
<1> QED
  BY <1>1, <1>2, <1>3, <1>4, <1>5, <1>6, <1>7, <1>8, <1>9, <1>10, <1>11, <1>12
  DEF RegistrationNext, Player, Import

\* Type correctness, for every set of users, profiles and files.
THEOREM RegistrationTypeCorrect == RegistrationSpec => []RegistrationTypeOK
<1>1. RegistrationTyped => RegistrationTypeOK BY DEF RegistrationTyped
<1> QED BY <1>1, RegistrationTypedInit, RegistrationTypedStep, PTL DEF RegistrationSpec

-----------------------------------------------------------------------------
(* One owner per profile when operations take turns.                        *)

\* At most one operation is under way.
OneAtATime ==
  /\ pc # "idle" => \A u \in Users : task[u] = NoProfile
  /\ \A u, v \in Users : task[u] # NoProfile /\ task[v] # NoProfile => u = v

\* What an operation has read still holds when it writes.
ReadsHold ==
  /\ \A u \in Users : task[u] # NoProfile => Owners(task[u]) \subseteq {u}
  /\ pc = "owner" => bindings[User][Profile] = "none"
  /\ pc = "delete" => owner \in Owners(Profile) /\ owner # User
  /\ pc = "write" => Owners(Profile) \subseteq {User}

TurnsInv == RegistrationTyped /\ Unique /\ OneAtATime /\ ReadsHold

LEMMA TurnsInit == RegistrationInit => TurnsInv
BY RegistrationTypedInit DEF RegistrationInit, TurnsInv, Unique, OneAtATime, ReadsHold, Owners

\* How the owners follow a write.
LEMMA OwnersAfterPut ==
  ASSUME RegistrationTypeOK, NEW u \in Users, NEW p \in Profiles, NEW kind \in Kinds, Put(u, p, kind),
         NEW q \in Profiles
  PROVE  Owners(q)' = IF q # p THEN Owners(q)
                      ELSE IF kind = "none" THEN Owners(p) \ {u} ELSE Owners(p) \cup {u}
BY DEF RegistrationTypeOK, Put, Owners

LEMMA TurnsStep == ~crossed' /\ TurnsInv /\ [RegistrationNext]_registrationVars => TurnsInv'
<1> SUFFICES ASSUME ~crossed', TurnsInv, [RegistrationNext]_registrationVars PROVE TurnsInv' OBVIOUS
<1>t. RegistrationTyped' BY RegistrationTypedStep DEF TurnsInv
<1>y. RegistrationTypeOK /\ LinksLeft BY DEF TurnsInv, RegistrationTyped
<1>1. ASSUME NEW u \in Users, NEW p \in Profiles, FindOwner(u, p) PROVE TurnsInv'
  <2>1. pc = "idle" /\ \A v \in Users : task[v] = NoProfile BY <1>1 DEF FindOwner, Enter, Quiet
  <2>2. Owners(p) \subseteq {u} BY <1>1 DEF FindOwner, Fit, TurnsInv, Unique
  <2>3. UNCHANGED <<bindings, pc, left, owner>> BY <1>1 DEF FindOwner, imports
  <2>4. task' = [v \in Users |-> IF v = u THEN p ELSE NoProfile] BY <1>1, <1>y, <2>1 DEF FindOwner, RegistrationTypeOK
  <2> QED BY <1>t, <2>1, <2>2, <2>3, <2>4 DEF TurnsInv, Unique, OneAtATime, ReadsHold, Owners
<1>2. ASSUME NEW u \in Users, Upsert(u) PROVE TurnsInv'
  <2>1. task[u] \in Profiles BY <1>2, <1>y DEF Upsert, RegistrationTypeOK
  <2>2. pc = "idle" /\ pc' = "idle" BY <1>2, <1>y DEF Upsert, TurnsInv, OneAtATime, RegistrationTypeOK, imports
  <2>3. \A v \in Users : task'[v] = NoProfile BY <1>2, <1>y DEF Upsert, TurnsInv, OneAtATime, RegistrationTypeOK
  <2>4. Owners(task[u]) \subseteq {u} BY <1>2 DEF Upsert, TurnsInv, ReadsHold
  <2>5. Unique'
    <3> SUFFICES ASSUME NEW q \in Profiles, NEW v \in Owners(q)', NEW w \in Owners(q)' PROVE v = w
      BY DEF Unique
    <3>1. Owners(q)' = IF q # task[u] THEN Owners(q) ELSE Owners(task[u]) \cup {u}
      BY <1>2, <1>y, <2>1, OwnersAfterPut DEF Upsert
    <3> QED BY <3>1, <2>4 DEF TurnsInv, Unique
  <2> QED BY <1>t, <2>2, <2>3, <2>5 DEF TurnsInv, OneAtATime, ReadsHold
<1>3. ASSUME NEW u \in Users, NEW p \in Profiles, Unlink(u, p) PROVE TurnsInv'
  <2>1. pc = "idle" /\ \A v \in Users : task[v] = NoProfile BY <1>3 DEF Unlink, Enter, Quiet
  <2>2. pc' = "idle" /\ \A v \in Users : task'[v] = NoProfile BY <1>3, <2>1 DEF Unlink, imports
  <2>3. \A q \in Profiles : Owners(q)' \subseteq Owners(q)
    BY <1>3, <1>y, OwnersAfterPut DEF Unlink
  <2>4. Unique' BY <2>3 DEF TurnsInv, Unique
  <2> QED BY <1>t, <2>2, <2>4 DEF TurnsInv, OneAtATime, ReadsHold
<1>4. CASE BotRestarts
  BY <1>4, <1>t DEF BotRestarts, TurnsInv, Unique, OneAtATime, ReadsHold, Owners, imports, User, Profile
<1>5. ASSUME NEW f \in Files, Start(f) PROVE TurnsInv'
  <2>1. \A v \in Users : task[v] = NoProfile BY <1>5 DEF Start, Enter, Quiet
  <2> QED BY <1>5, <1>t, <2>1 DEF Start, TurnsInv, Unique, OneAtATime, ReadsHold, Owners
<1>6. CASE FindOwn
  <2>1. User \in Users /\ Profile \in Profiles BY <1>6, <1>y, LinkType DEF FindOwn
  <2>2. seen' = "none" => bindings[User][Profile] = "none" BY <1>6 DEF FindOwn
  <2>3. seen' # "none" => Owners(Profile) \subseteq {User}
    BY <1>6, <2>1 DEF FindOwn, TurnsInv, Unique, Owners
  <2>4. /\ UNCHANGED <<bindings, task, left, owner>>
        /\ pc' = IF seen' = "none" THEN "owner" ELSE "write"
        /\ pc # "idle"
    BY <1>6 DEF FindOwn
  <2> QED
    BY <1>t, <2>2, <2>3, <2>4
    DEF TurnsInv, Unique, OneAtATime, ReadsHold, Owners, User, Profile
<1>7. CASE FindForeign
  <2>1. User \in Users /\ Profile \in Profiles BY <1>7, <1>y, LinkType DEF FindForeign, LinksLeft
  <2>2. pc' = "write" => Owners(Profile) \subseteq {User}
    BY <1>7, <2>1 DEF FindForeign, Foreign, TurnsInv, Unique
  <2>3. pc' = "delete" => owner' \in Owners(Profile) /\ owner' # User
    BY <1>7 DEF FindForeign, Foreign
  <2>4. UNCHANGED <<bindings, task, left>> /\ pc = "owner" /\ pc' \in {"write", "delete"} BY <1>7 DEF FindForeign
  <2> QED
    BY <1>t, <2>2, <2>3, <2>4
    DEF TurnsInv, Unique, OneAtATime, ReadsHold, Owners, User, Profile
<1>8. CASE DeleteStale
  <2>1. User \in Users /\ Profile \in Profiles /\ owner \in Users
    BY <1>8, <1>y, LinkType DEF DeleteStale, LinksLeft
  <2>2. \A q \in Profiles : Owners(q)' = IF q # Profile THEN Owners(q) ELSE Owners(Profile) \ {owner}
    BY <1>8, <1>y, <2>1, OwnersAfterPut DEF DeleteStale
  <2>3. owner \in Owners(Profile) BY <1>8 DEF DeleteStale, TurnsInv, ReadsHold
  <2>4. Owners(Profile) \subseteq {owner} BY <2>1, <2>3 DEF TurnsInv, Unique
  <2>5. Unique' BY <2>2 DEF TurnsInv, Unique
  <2>6. UNCHANGED <<User, Profile, task>> /\ pc = "delete" /\ pc' = "write"
    BY <1>8 DEF DeleteStale, User, Profile
  <2>7. Owners(Profile)' = {} BY <2>1, <2>2, <2>4, <2>6
  <2>8. OneAtATime' BY <2>6 DEF TurnsInv, OneAtATime
  <2>9. ReadsHold' BY <2>6, <2>7, <2>8 DEF ReadsHold, OneAtATime
  <2> QED BY <1>t, <2>5, <2>8, <2>9 DEF TurnsInv
<1>9. CASE Write
  <2>1. User \in Users /\ Profile \in Profiles BY <1>9, <1>y, LinkType DEF Write, LinksLeft
  <2>2. Merged \in Kinds \ {"none"} BY DEF Merged
  <2>3. \A q \in Profiles : Owners(q)' = IF q # Profile THEN Owners(q) ELSE Owners(Profile) \cup {User}
    BY <1>9, <1>y, <2>1, <2>2, OwnersAfterPut DEF Write
  <2>4. Owners(Profile) \subseteq {User} BY <1>9 DEF Write, TurnsInv, ReadsHold
  <2>5. Unique' BY <2>3, <2>4 DEF TurnsInv, Unique
  <2>6. pc = "write" /\ pc' = "next" /\ UNCHANGED task BY <1>9 DEF Write
  <2>7. \A v \in Users : task'[v] = NoProfile BY <2>6 DEF TurnsInv, OneAtATime
  <2> QED BY <1>t, <2>5, <2>6, <2>7 DEF TurnsInv, OneAtATime, ReadsHold
<1>10. CASE Finish
  BY <1>10, <1>t DEF Finish, TurnsInv, Unique, OneAtATime, ReadsHold, Owners
<1>11. CASE Crash
  BY <1>11, <1>t DEF Crash, TurnsInv, Unique, OneAtATime, ReadsHold, Owners
<1>12. CASE UNCHANGED registrationVars
  BY <1>12, <1>t DEF registrationVars, TurnsInv, Unique, OneAtATime, ReadsHold, Owners, User, Profile
<1> QED
  BY <1>1, <1>2, <1>3, <1>4, <1>5, <1>6, <1>7, <1>8, <1>9, <1>10, <1>11, <1>12
  DEF RegistrationNext, Player, Import

\* While operations take turns, crashes of the bot and of the import
\* included, no profile ever has two owners.
THEOREM TurnsKeepOneOwner == RegistrationSpec => []OneOwner
<1> DEFINE Inv == RegistrationTyped /\ (~crossed => TurnsInv)
<1>1. RegistrationInit => Inv BY RegistrationTypedInit, TurnsInit
<1>2. Inv /\ [RegistrationNext]_registrationVars => Inv'
  <2> SUFFICES ASSUME Inv, [RegistrationNext]_registrationVars PROVE Inv' OBVIOUS
  <2>1. ~crossed' => ~crossed
    BY DEF RegistrationNext, Player, FindOwner, Upsert, Unlink, BotRestarts, Import, Start, FindOwn,
           FindForeign, DeleteStale, Write, Finish, Crash, Enter, registrationVars
  <2> QED BY <2>1, RegistrationTypedStep, TurnsStep
<1>3. Inv => OneOwner BY DEF TurnsInv, OneOwner
<1> QED BY <1>1, <1>2, <1>3, PTL DEF RegistrationSpec

-----------------------------------------------------------------------------
(* The last import wins, when operations take turns.                        *)

\* The first n links of the file are done: the others are left, and each of
\* the profiles they name is owned by the user of its last link among them,
\* but for the profile whose owner the import is about to write.
Links(n) ==
  /\ Len(left) = Len(file) - n
  /\ \A i \in 1..Len(left) : left[i] = file[n + i]
LastRow(j, n) == \A k \in 1..n : file[k][2] = file[j][2] => k <= j
HasLast(n) == \A i \in 1..n : \E j \in 1..n : file[j][2] = file[i][2] /\ LastRow(j, n)
Settled(n) ==
  \A j \in 1..n : LastRow(j, n) =>
    (pc = "write" /\ file[j][2] = Profile) \/ Owners(file[j][2]) = {file[j][1]}
Imported == pc # "idle" => \E n \in 0..Len(file) : Links(n) /\ HasLast(n) /\ Settled(n)

\* One link after the other is done; nobody else writes meanwhile.
LEMMA ImportedStep ==
  ASSUME TurnsInv, Imported, ~crossed', [RegistrationNext]_registrationVars
  PROVE  Imported'
<1>y. RegistrationTypeOK /\ LinksLeft
  BY DEF TurnsInv, RegistrationTyped
<1> SUFFICES ASSUME pc' # "idle" PROVE \E n \in 0..Len(file') : (Links(n) /\ HasLast(n) /\ Settled(n))'
  BY DEF Imported
<1>1. ASSUME NEW f \in Files, Start(f)
      PROVE  \E n \in 0..Len(file') : (Links(n) /\ HasLast(n) /\ Settled(n))'
  <2>1. file' = f /\ left' = f /\ f \in Seq(Users \X Profiles)
    BY <1>1, RegistrationAssumption DEF Start
  <2>2. (Links(0) /\ HasLast(0) /\ Settled(0))' /\ 0 \in 0..Len(file')
    BY <2>1 DEF Links, HasLast, Settled
  <2> QED BY <2>2
<1>2. ASSUME UNCHANGED <<bindings, file, left>>, pc # "idle", pc = "write" => pc' = "write"
      PROVE  \E n \in 0..Len(file') : (Links(n) /\ HasLast(n) /\ Settled(n))'
  <2>1. PICK n \in 0..Len(file) : Links(n) /\ HasLast(n) /\ Settled(n)
    BY <1>2 DEF Imported
  <2>2. Links(n)' /\ HasLast(n)' /\ Settled(n)'
    BY <1>2, <2>1 DEF Links, HasLast, LastRow, Settled, Owners, Profile
  <2> QED BY <1>2, <2>2
<1>3. CASE DeleteStale
  <2>1. PICK n \in 0..Len(file) : Links(n) /\ HasLast(n) /\ Settled(n)
    BY <1>3 DEF Imported, DeleteStale
  <2>2. Profile \in Profiles /\ owner \in Users /\ UNCHANGED <<file, left>> /\ pc = "delete" /\ pc' = "write"
    BY <1>3, <1>y, LinkType DEF DeleteStale, LinksLeft
  <2>3. \A q \in Profiles : q # Profile => Owners(q)' = Owners(q)
    BY <1>3, <1>y, <2>2, OwnersAfterPut DEF DeleteStale
  <2>4. \A j \in 1..n : file[j][2] \in Profiles
    BY <1>y, <2>1 DEF RegistrationTypeOK
  <2>5. Links(n)' /\ HasLast(n)'
    BY <2>1, <2>2 DEF Links, HasLast, LastRow
  <2>6. Settled(n)'
    <3> SUFFICES ASSUME NEW j \in 1..n, LastRow(j, n)', file'[j][2] # Profile'
                 PROVE  Owners(file[j][2])' = {file[j][1]}
      BY <2>2 DEF Settled
    <3>1. LastRow(j, n) /\ file[j][2] # Profile
      BY <2>2 DEF LastRow, Profile
    <3>2. Owners(file[j][2]) = {file[j][1]}
      BY <2>1, <2>2, <3>1 DEF Settled
    <3>3. PICK q \in Profiles : q = file[j][2]
      BY <2>4
    <3> QED BY <2>2, <2>3, <3>1, <3>2, <3>3
  <2> QED BY <2>2, <2>5, <2>6
<1>4. CASE Write
  <2>1. PICK n \in 0..Len(file) : Links(n) /\ HasLast(n) /\ Settled(n)
    BY <1>4 DEF Imported, Write
  <2>2. /\ left # <<>> /\ left' = Tail(left) /\ file' = file /\ pc = "write" /\ pc' = "next"
        /\ User \in Users /\ Profile \in Profiles
    BY <1>4, <1>y, LinkType DEF Write, LinksLeft
  <2>3. /\ left \in Seq(Users \X Profiles) /\ file \in Seq(Users \X Profiles)
        /\ Len(left) \in Nat /\ Len(file) \in Nat /\ Len(left) > 0
    BY <1>y, <2>2 DEF RegistrationTypeOK
  <2>4. /\ Len(left') = Len(left) - 1
        /\ \A i \in 1..Len(left') : left'[i] = left[i + 1]
    BY <2>2, <2>3, HeadTailProperties
  <2>5. n + 1 \in 1..Len(file) /\ file[n + 1] = left[1] /\ file[n + 1][1] = User /\ file[n + 1][2] = Profile
    <3>1. left[1] = file[n + 1] /\ n + 1 \in 1..Len(file)
      BY <2>1, <2>3 DEF Links
    <3>2. Head(left) = left[1]
      BY <2>3
    <3> QED BY <3>1, <3>2 DEF User, Profile
  <2>6. Links(n + 1)'
    BY <2>1, <2>2, <2>3, <2>4 DEF Links
  <2>7. HasLast(n + 1)'
    <3> SUFFICES ASSUME NEW i \in 1..(n + 1)
                 PROVE  \E j \in 1..(n + 1) : file[j][2] = file[i][2] /\ LastRow(j, n + 1)
      BY <2>2 DEF HasLast, LastRow
    <3>1. CASE file[i][2] = Profile
      <4>1. LastRow(n + 1, n + 1)
        BY <2>1 DEF LastRow
      <4> QED BY <2>1, <2>5, <3>1, <4>1
    <3>2. CASE file[i][2] # Profile
      <4>1. i \in 1..n
        BY <2>1, <2>5, <3>2
      <4>2. PICK j \in 1..n : file[j][2] = file[i][2] /\ LastRow(j, n)
        BY <2>1, <4>1 DEF HasLast
      <4>3. LastRow(j, n + 1)
        BY <2>1, <2>5, <3>2, <4>2 DEF LastRow
      <4> QED BY <2>1, <4>2, <4>3
    <3> QED BY <3>1, <3>2
  <2>8. Settled(n + 1)'
    <3>1. Merged \in Kinds \ {"none"}
      BY DEF Merged
    <3>2. \A q \in Profiles : Owners(q)' = IF q # Profile THEN Owners(q) ELSE Owners(Profile) \cup {User}
      BY <1>4, <1>y, <2>2, <3>1, OwnersAfterPut DEF Write
    <3>3. Owners(Profile) \subseteq {User}
      BY <1>4 DEF Write, TurnsInv, ReadsHold
    <3> SUFFICES ASSUME NEW j \in 1..(n + 1), LastRow(j, n + 1)
                 PROVE  Owners(file[j][2])' = {file[j][1]}
      BY <2>2 DEF Settled, LastRow
    <3>4. CASE j = n + 1
      <4>1. PICK q \in Profiles : q = Profile
        BY <2>2
      <4>2. Owners(q)' = {User}
        BY <3>2, <3>3, <4>1
      <4> QED BY <2>2, <2>5, <3>4, <4>1, <4>2
    <3>5. CASE j # n + 1
      <4>1. j \in 1..n /\ LastRow(j, n) /\ file[j][2] # Profile
        BY <2>1, <2>5, <3>5 DEF LastRow
      <4>2. Owners(file[j][2]) = {file[j][1]}
        BY <2>1, <4>1 DEF Settled
      <4>3. file[j][2] \in Profiles
        BY <2>1, <2>3, <4>1
      <4> QED BY <2>2, <3>2, <4>1, <4>2, <4>3
    <3> QED BY <3>4, <3>5
  <2> QED BY <2>1, <2>2, <2>3, <2>5, <2>6, <2>7, <2>8
<1>5. CASE FindOwn \/ FindForeign
  BY <1>2, <1>5 DEF FindOwn, FindForeign
<1>6. CASE UNCHANGED registrationVars
  BY <1>2, <1>6 DEF registrationVars
<1>7. \A u \in Users : ~Player(u)
  BY <1>y DEF Player, Upsert, FindOwner, Unlink, Enter, Quiet, TurnsInv, OneAtATime, imports
<1>8. ~BotRestarts
  BY DEF BotRestarts, TurnsInv, OneAtATime, imports
<1>9. ~Finish /\ ~Crash
  BY DEF Finish, Crash
<1> QED BY <1>1, <1>3, <1>4, <1>5, <1>6, <1>7, <1>8, <1>9 DEF RegistrationNext, Import

\* While operations take turns, an import that reaches its end has given every
\* profile of its file to the user of the last link, whatever it found.
THEOREM TurnsLastWins == RegistrationSpec => []LastImportWins
<1> DEFINE Inv == RegistrationTyped /\ (~crossed => TurnsInv /\ Imported)
<1>1. RegistrationInit => Inv
  BY RegistrationTypedInit, TurnsInit DEF RegistrationInit, Imported
<1>2. Inv /\ [RegistrationNext]_registrationVars => Inv'
  <2> SUFFICES ASSUME Inv, [RegistrationNext]_registrationVars PROVE Inv' OBVIOUS
  <2>1. ~crossed' => ~crossed
    BY DEF RegistrationNext, Player, FindOwner, Upsert, Unlink, BotRestarts, Import, Start, FindOwn,
           FindForeign, DeleteStale, Write, Finish, Crash, Enter, registrationVars
  <2> QED BY <2>1, RegistrationTypedStep, TurnsStep, ImportedStep
<1>3. Inv => LastImportWins
  <2> SUFFICES ASSUME RegistrationTyped, Imported, pc = "next", left = <<>>, NEW i \in DOMAIN file
               PROVE  Owners(file[i][2]) = {Winner(file[i][2])}
    BY DEF LastImportWins
  <2>1. file \in Seq(Users \X Profiles) /\ DOMAIN file = 1..Len(file) /\ Len(file) \in Nat
    BY DEF RegistrationTyped, RegistrationTypeOK
  <2>2. HasLast(Len(file)) /\ Settled(Len(file))
    <3>1. PICK n \in 0..Len(file) : Links(n) /\ HasLast(n) /\ Settled(n)
      BY DEF Imported
    <3>2. Len(left) = 0
      OBVIOUS
    <3>3. Len(left) = Len(file) - n
      BY <3>1 DEF Links
    <3>4. n = Len(file)
      <4>1. \A l \in Nat : \A m \in 0..l : 0 = l - m => m = l
        OBVIOUS
      <4> QED BY <2>1, <3>2, <3>3, <4>1
    <3> QED BY <3>1, <3>4
  <2>3. PICK j \in 1..Len(file) : file[j][2] = file[i][2] /\ LastRow(j, Len(file))
    BY <2>1, <2>2 DEF HasLast
  <2> DEFINE p == file[i][2]
             rows == {k \in DOMAIN file : file[k][2] = p}
             Top(k) == k \in rows /\ \A l \in rows : l <= k
  <2>4. Top(j)
    BY <2>1, <2>3 DEF LastRow
  <2>5. \A k : Top(k) => k = j
    <3> SUFFICES ASSUME NEW k, Top(k) PROVE k = j
      OBVIOUS
    <3>1. k \in 1..Len(file) /\ k <= j /\ j <= k
      BY <2>1, <2>3, <2>4
    <3> QED BY <2>1, <3>1
  <2>6. (CHOOSE k \in rows : \A l \in rows : l <= k) = j
    BY <2>4, <2>5
  <2>7. Winner(p) = file[j][1]
    BY <2>6 DEF Winner
  <2> QED BY <2>2, <2>3, <2>7 DEF Settled
<1> QED BY <1>1, <1>2, <1>3, PTL DEF RegistrationSpec

-----------------------------------------------------------------------------
(* What the provider said survives the import, when operations take turns.  *)

\* The binding of the link at hand is the one that was read.
SeenHolds == pc \in {"owner", "delete", "write"} => bindings[User][Profile] = seen

LEMMA SeenStep ==
  ASSUME TurnsInv, SeenHolds, ~crossed', [RegistrationNext]_registrationVars
  PROVE  SeenHolds'
<1>y. RegistrationTypeOK /\ LinksLeft
  BY DEF TurnsInv, RegistrationTyped
<1>1. CASE pc = "idle" /\ \A f \in Files : ~Start(f)
  <2>1. pc' = "idle"
    BY <1>1 DEF RegistrationNext, Player, FindOwner, Upsert, Unlink, BotRestarts, Import, FindOwn,
                FindForeign, DeleteStale, Write, Finish, Crash, registrationVars, imports
  <2> QED BY <2>1 DEF SeenHolds
<1>2. CASE (\E f \in Files : Start(f)) \/ Write \/ Finish \/ Crash
  <2>1. pc' \in {"idle", "next"}
    BY <1>2 DEF Start, Write, Finish, Crash
  <2> QED BY <2>1 DEF SeenHolds
<1>3. CASE FindOwn
  BY <1>3 DEF FindOwn, SeenHolds, User, Profile
<1>4. CASE FindForeign
  BY <1>4 DEF FindForeign, SeenHolds, User, Profile
<1>5. CASE DeleteStale
  <2>1. /\ pc = "delete" /\ owner # User /\ owner \in Users /\ User \in Users /\ Profile \in Profiles
        /\ UNCHANGED <<left, seen>> /\ Put(owner, Profile, "none")
    BY <1>5, <1>y, LinkType DEF DeleteStale, TurnsInv, ReadsHold, LinksLeft
  <2>2. bindings'[User] = bindings[User]
    BY <2>1, <1>y DEF Put, RegistrationTypeOK
  <2> QED BY <2>1, <2>2 DEF SeenHolds, User, Profile
<1>6. CASE UNCHANGED registrationVars
  BY <1>6 DEF registrationVars, SeenHolds, User, Profile
<1>7. pc # "idle" => ~BotRestarts /\ \A u \in Users : ~Player(u)
  BY <1>y DEF Player, Upsert, FindOwner, Unlink, Enter, Quiet, BotRestarts, TurnsInv, OneAtATime
<1> QED BY <1>1, <1>2, <1>3, <1>4, <1>5, <1>6, <1>7 DEF RegistrationNext, Import

\* While operations take turns, an import never replaces a binding that holds
\* the provider's data by a bare one: what it read is what it overwrites.
THEOREM TurnsKeepNames == RegistrationSpec => NamesSurvive
<1> DEFINE Inv == RegistrationTyped /\ (~crossed => TurnsInv /\ SeenHolds)
           Survive == ~crossed' => \A u \in Users, p \in Profiles :
                        bindings[u][p] = "named" => bindings'[u][p] # "bare"
<1>0. [RegistrationNext]_registrationVars /\ ~crossed' => ~crossed
  BY DEF RegistrationNext, Player, FindOwner, Upsert, Unlink, BotRestarts, Import, Start, FindOwn,
         FindForeign, DeleteStale, Write, Finish, Crash, Enter, registrationVars
<1>1. RegistrationInit => Inv
  BY RegistrationTypedInit, TurnsInit DEF RegistrationInit, SeenHolds
<1>2. Inv /\ [RegistrationNext]_registrationVars => Inv'
  BY <1>0, RegistrationTypedStep, TurnsStep, SeenStep
<1>3. ASSUME Inv, [RegistrationNext]_registrationVars PROVE Survive
  <2> SUFFICES ASSUME ~crossed', NEW u \in Users, NEW p \in Profiles, bindings[u][p] = "named"
               PROVE  bindings'[u][p] # "bare"
    OBVIOUS
  <2>y. RegistrationTypeOK /\ LinksLeft /\ SeenHolds /\ bindings[u][p] # "bare"
    BY <1>0, <1>3 DEF RegistrationTyped
  <2>1. ASSUME NEW v, NEW q, NEW kind, Put(v, q, kind), kind = "bare" => v # u \/ q # p
        PROVE  bindings'[u][p] # "bare"
    BY <2>1, <2>y DEF Put, RegistrationTypeOK
  <2>2. CASE Write
    <3>1. Put(User, Profile, Merged) /\ pc = "write"
      BY <2>2 DEF Write
    <3>2. Merged = "bare" => User # u \/ Profile # p
      BY <2>y, <3>1 DEF Merged, SeenHolds
    <3> QED BY <2>1, <3>1, <3>2
  <2>3. ASSUME NEW v \in Users, Upsert(v) PROVE bindings'[u][p] # "bare"
    BY <2>1, <2>3 DEF Upsert
  <2>4. ASSUME NEW v \in Users, NEW q \in Profiles, Unlink(v, q) PROVE bindings'[u][p] # "bare"
    BY <2>1, <2>4 DEF Unlink
  <2>5. CASE DeleteStale
    BY <2>1, <2>5 DEF DeleteStale
  <2>6. CASE bindings' = bindings
    BY <2>y, <2>6
  <2> QED BY <1>3, <2>2, <2>3, <2>4, <2>5, <2>6
          DEF RegistrationNext, Player, FindOwner, BotRestarts, Import, Start, FindOwn,
              FindForeign, Finish, Crash, registrationVars
<1>4. Inv /\ [RegistrationNext]_registrationVars => [Survive]_registrationVars
  BY <1>3
<1> QED BY <1>1, <1>2, <1>4, PTL DEF RegistrationSpec, NamesSurvive

-----------------------------------------------------------------------------
(* THE PLAYERS PANELS.                                                      *)

Panes ==
  [at : {"closed", "members", "stats", "copy", "warm", "drawn", "labels"},
   unchecked : SUBSET Viewed, kept : SUBSET Viewed, todo : SUBSET Viewed,
   x : Viewed \cup {Nobody}, held : Nat]
Refreshes ==
  [at : {"none", "stats", "copy", "provider", "store", "warm"}, todo : SUBSET Viewed,
   x : Viewed \cup {Nobody}, held : Nat]
Fetches ==
  [by : Panels \cup {Nobody}, seen : SUBSET Viewed, answered : BOOLEAN, was : SUBSET Viewed,
   cached : BOOLEAN]

\* A profile is in hand between the look at Redis and the write of it; users
\* are left to check only while the roster is fetched for that; a panel reads no
\* statistics before the refresh it left behind is over.
PaneFits(v, j) ==
  /\ v.x # Nobody <=> v.at \in {"copy", "warm"}
  /\ v.unchecked # {} => v.at = "members"
  /\ j.at # "none" => v.at \in {"closed", "drawn", "labels"}
JobFits(j) == j.x # Nobody <=> j.at \in {"copy", "provider", "store", "warm"}
PanelsFit == \A p \in Panels : PaneFits(panel[p], job[p]) /\ JobFits(job[p])

GuildFits ==
  /\ members \subseteq Viewed /\ gateway \in Seq(Events) /\ roster \in Rosters /\ fetch \in Fetches
  /\ missed \subseteq Viewed /\ moves \in Nat /\ mishaps \in Nat
StatsFit ==
  /\ redis \in [Viewed -> Nat] /\ copy \in [Viewed -> [stats : Nat, old : BOOLEAN]]
  /\ played \in [Viewed -> Nat] /\ shared \subseteq Viewed
PanesFit == panel \in [Panels -> Panes] /\ job \in [Panels -> Refreshes]
PanelsTyped == GuildFits /\ StatsFit /\ PanesFit /\ PanelsFit

\* The last event of a user on its way tells where he is, and the sets that are
\* the roster or may become it are right of everybody else.
Follows(who) == \A u \in Viewed \ missed : ~ Pending(u) => (u \in who <=> u \in members)
RosterInv ==
  /\ \A u \in Viewed : Pending(u) => (Joining(u) <=> u \in members)
  /\ roster.age # "none" => Follows(roster.who)
  /\ fetch.answered => Follows(fetch.seen)

\* A profile not shared is in one hand at most; while it is, Redis has nothing
\* of it, and what is about to be put there is what MongoDB holds.
InHand(p, x) == panel[p].x = x \/ job[p].x = x
InOneHand == \A x \in Viewed \ shared : \A p, q \in Panels : InHand(p, x) /\ InHand(q, x) => p = q
Agrees(x) ==
  /\ redis[x] # Missing => redis[x] = copy[x].stats /\ \A p \in Panels : ~ InHand(p, x)
  /\ \A p \in Panels :
       /\ panel[p].x = x /\ panel[p].at = "warm" => panel[p].held = copy[x].stats
       /\ job[p].x = x /\ job[p].at = "warm" => job[p].held = copy[x].stats
StatsInv == InOneHand /\ \A x \in Viewed \ shared : Agrees(x)

\* Where a panel goes on is typed and fits; no fetch that begins is answered.
LEMMA ProceedFits ==
  ASSUME PlayersPanelAssumption, PanelsTyped, NEW p \in Panels,
         NEW U \in SUBSET Viewed, NEW K \in SUBSET Viewed, NEW r \in Rosters,
         panel[p].at \in {"closed", "members"} => job[p].at = "none",
         panel[p].at \in {"drawn", "labels"} => U = {},
         panel[p].at \in {"closed", "members", "drawn", "labels"},
         Proceed(p, U, K, r)
  PROVE  /\ fetch' \in Fetches /\ ~ fetch'.answered
         /\ \E v \in Panes :
              /\ panel' = [panel EXCEPT ![p] = v] /\ PaneFits(v, job[p]) /\ v.x = Nobody
<1> DEFINE asks == panel[p].at \in {"drawn", "labels"}
           all == K \cup Admitted(U, r.who)
<1>1. /\ panel[p] \in Panes /\ PaneFits(panel[p], job[p]) /\ panel[p].x = Nobody
      /\ panel \in [Panels -> Panes]
  BY DEF PanelsTyped, GuildFits, StatsFit, PanesFit, PanelsFit, PaneFits, Panes
<1>2. /\ NoFetch \in Fetches /\ ~ NoFetch.answered /\ Closed \in Panes
      /\ Closed.x = Nobody /\ Closed.at = "closed" /\ Closed.unchecked = {}
      /\ all \in SUBSET Viewed /\ r.who \in SUBSET Viewed /\ (r.age # "none") \in BOOLEAN
  BY DEF NoFetch, Fetches, Closed, Panes, Missing, Admitted, Rosters
<1>3. CASE asks /\ (r.age = "fresh" \/ panel[p].at = "labels")
  <2>1. panel' = [panel EXCEPT ![p] = Closed] /\ fetch' = NoFetch
    BY <1>3 DEF Proceed
  <2>2. PaneFits(Closed, job[p])
    BY <1>2 DEF PaneFits
  <2> QED BY <1>2, <2>1, <2>2
<1>4. CASE ~ asks /\ (U = {} \/ r.age = "fresh")
  <2> DEFINE v == [Closed EXCEPT !.at = "stats", !.kept = all, !.todo = all]
  <2>1. panel' = [panel EXCEPT ![p] = v] /\ fetch' = NoFetch
    BY <1>4 DEF Proceed
  <2>2. v \in Panes /\ v.x = Nobody /\ v.at = "stats" /\ v.unchecked = {}
    BY <1>2 DEF Closed, Panes, Missing
  <2>3. job[p].at = "none"
    BY <1>4
  <2>4. PaneFits(v, job[p])
    BY <2>2, <2>3 DEF PaneFits
  <2> QED BY <1>2, <2>1, <2>2, <2>4
<1>5. CASE ~ (asks /\ (r.age = "fresh" \/ panel[p].at = "labels"))
           /\ ~ (~ asks /\ (U = {} \/ r.age = "fresh"))
  <2> DEFINE v == [panel[p] EXCEPT !.at = IF asks THEN "labels" ELSE "members",
                                   !.unchecked = U, !.kept = K]
  <2>1. /\ panel' = [panel EXCEPT ![p].at = IF asks THEN "labels" ELSE "members",
                                  ![p].unchecked = U, ![p].kept = K]
        /\ fetch' = [NoFetch EXCEPT !.by = p, !.was = r.who, !.cached = r.age # "none"]
    BY <1>5 DEF Proceed
  <2>2. panel' = [panel EXCEPT ![p] = v]
    BY <1>1, <2>1 DEF Panes
  <2>3. fetch' \in Fetches /\ ~ fetch'.answered
    BY <1>2, <2>1 DEF NoFetch, Fetches
  <2>4. /\ v \in Panes /\ v.x = Nobody /\ v.unchecked = U
        /\ v.at = IF asks THEN "labels" ELSE "members"
    BY <1>1 DEF Panes
  <2>5. PaneFits(v, job[p])
    BY <1>5, <2>4 DEF PaneFits
  <2> QED BY <2>2, <2>3, <2>4, <2>5
<1> QED BY <1>3, <1>4, <1>5

\* One step of a panel: only its own line of the table changes.
PaneBecomes(p, v) ==
  /\ v \in Panes /\ panel' = [panel EXCEPT ![p] = v] /\ PaneFits(v, job[p])
PaneTurns(p) == \E v \in Panes : PaneBecomes(p, v) /\ v.x = Nobody

LEMMA AskTurns ==
  ASSUME PlayersPanelAssumption, PanelsTyped, NEW p \in Panels, Open(p) \/ Draw(p)
  PROVE  /\ PaneTurns(p) /\ fetch' \in Fetches
         /\ UNCHANGED fetch \/ ~ fetch'.answered
<1>1. /\ panel[p] \in Panes /\ fetch \in Fetches /\ roster \in Rosters
      /\ PaneFits(panel[p], job[p])
  BY DEF PanelsTyped, GuildFits, StatsFit, PanesFit, PanelsFit, Panes, Fetches
<1>2. \E U \in SUBSET Viewed :
        /\ AskRoster(p, U) /\ panel[p].at \in {"closed", "drawn"}
        /\ panel[p].at = "closed" => job[p].at = "none"
        /\ panel[p].at = "drawn" => U = {}
  BY DEF Open, Draw
<1>3. PICK U \in SUBSET Viewed :
        /\ AskRoster(p, U) /\ panel[p].at \in {"closed", "drawn"}
        /\ panel[p].at = "closed" => job[p].at = "none"
        /\ panel[p].at = "drawn" => U = {}
  BY <1>2
<1>4. CASE roster.age = "fresh" \/ fetch.by = Nobody
  <2>1. Proceed(p, U, {}, roster)
    BY <1>3, <1>4 DEF AskRoster
  <2>2. /\ panel[p].at \in {"closed", "members"} => job[p].at = "none"
        /\ panel[p].at \in {"drawn", "labels"} => U = {}
        /\ panel[p].at \in {"closed", "members", "drawn", "labels"}
    BY <1>3
  <2> QED BY <1>1, <2>1, <2>2, ProceedFits DEF PaneTurns, PaneBecomes
<1>5. CASE ~ (roster.age = "fresh" \/ fetch.by = Nobody)
  <2>1. panel' = [panel EXCEPT ![p] = Closed] /\ UNCHANGED fetch
    BY <1>3, <1>5 DEF AskRoster
  <2>2. Closed \in Panes /\ Closed.x = Nobody /\ PaneFits(Closed, job[p])
    BY DEF Closed, Panes, Missing, PaneFits
  <2> QED BY <1>1, <2>1, <2>2 DEF PaneTurns, PaneBecomes
<1> QED BY <1>4, <1>5

LEMMA ResumeTurns ==
  ASSUME PlayersPanelAssumption, PanelsTyped, NEW p \in Panels, NEW who \in SUBSET Viewed,
         NEW r \in Rosters, Resume(p, who, r)
  PROVE  PaneTurns(p) /\ fetch' \in Fetches /\ ~ fetch'.answered
<1>1. panel[p] \in Panes /\ PaneFits(panel[p], job[p])
  BY DEF PanelsTyped, GuildFits, StatsFit, PanesFit, PanelsFit, Panes
<1>2. CASE panel[p].at = "labels"
  <2>1. Proceed(p, {}, {}, r)
    BY <1>2 DEF Resume
  <2> QED BY <1>2, <2>1, ProceedFits DEF PaneTurns, PaneBecomes
<1>3. CASE panel[p].at # "labels"
  <2>1. PICK u \in panel[p].unchecked :
          Proceed(p, panel[p].unchecked \ {u}, panel[p].kept \cup Admitted({u}, who), r)
    BY <1>3 DEF Resume
  <2> DEFINE U == panel[p].unchecked \ {u}
             K == panel[p].kept \cup Admitted({u}, who)
  <2>2. /\ panel[p].unchecked \in SUBSET Viewed /\ panel[p].kept \in SUBSET Viewed
        /\ panel[p].unchecked # {}
    BY <1>1, <2>1 DEF Panes
  <2>3. U \in SUBSET Viewed /\ K \in SUBSET Viewed
    BY <2>2 DEF Admitted
  <2>4. panel[p].at = "members" /\ job[p].at = "none"
    <3>1. panel[p].at = "members"
      BY <1>1, <2>2 DEF PaneFits
    <3> QED BY <1>1, <3>1 DEF PaneFits
  <2>5. /\ panel[p].at \in {"closed", "members"} => job[p].at = "none"
        /\ panel[p].at \in {"drawn", "labels"} => U = {}
        /\ panel[p].at \in {"closed", "members", "drawn", "labels"}
    BY <2>4
  <2>6. Proceed(p, U, K, r)
    BY <2>1
  <2> HIDE DEF U, K
  <2> QED BY <2>3, <2>5, <2>6, ProceedFits DEF PaneTurns, PaneBecomes
<1> QED BY <1>2, <1>3

JobBecomes(p, w) ==
  /\ w \in Refreshes /\ job' = [job EXCEPT ![p] = w] /\ JobFits(w)
  /\ w.at # "none" => panel[p].at \in {"closed", "drawn", "labels"}

\* What a step of a panel on the statistics leaves of the profile in hand.
LEMMA PaneReads ==
  ASSUME PlayersPanelAssumption, PanelsTyped, NEW p \in Panels
  PROVE  /\ ReadOn(p) \in Panes /\ ReadOn(p).x = Nobody /\ ReadOn(p).at = "stats"
         /\ panel[p].at \in {"stats", "copy", "warm"} =>
              job[p].at = "none" /\ PaneFits(ReadOn(p), job[p])
<1>1. panel[p] \in Panes /\ PaneFits(panel[p], job[p])
  BY DEF PanelsTyped, GuildFits, StatsFit, PanesFit, PanelsFit, Panes
<1>2. /\ ReadOn(p) \in Panes /\ ReadOn(p).x = Nobody /\ ReadOn(p).at = "stats"
      /\ ReadOn(p).unchecked = panel[p].unchecked
  BY <1>1 DEF Panes, ReadOn, Missing
<1>3. ASSUME panel[p].at \in {"stats", "copy", "warm"}
      PROVE  job[p].at = "none" /\ PaneFits(ReadOn(p), job[p])
  BY <1>1, <1>2, <1>3 DEF PaneFits
<1> QED BY <1>2, <1>3

LEMMA ReadRedisTurns ==
  ASSUME PlayersPanelAssumption, PanelsTyped, NEW p \in Panels, NEW x \in Viewed,
         ReadRedis(p, x)
  PROVE  \/ PaneTurns(p) /\ UNCHANGED shared
         \/ /\ \E v \in Panes : PaneBecomes(p, v) /\ v.x = x /\ v.at = "copy"
            /\ redis[x] = Missing /\ Lapping(x, p)
<1>1. /\ panel[p] \in Panes /\ PaneFits(panel[p], job[p]) /\ panel[p].at = "stats"
      /\ panel[p].x = Nobody /\ panel[p].unchecked = {} /\ job[p].at = "none"
      /\ panel \in [Panels -> Panes]
  BY PaneReads DEF PanelsTyped, GuildFits, StatsFit, PanesFit, PanelsFit, Panes, PaneFits, ReadRedis
<1>2. CASE redis[x] # Missing
  <2> DEFINE v == [panel[p] EXCEPT !.todo = @ \ {x}]
  <2>1. panel' = [panel EXCEPT ![p] = v] /\ UNCHANGED shared
    BY <1>1, <1>2 DEF ReadRedis, Panes
  <2>2. v \in Panes /\ v.x = Nobody /\ v.at = "stats" /\ v.unchecked = {}
    BY <1>1 DEF Panes
  <2>3. PaneFits(v, job[p])
    BY <1>1, <2>2 DEF PaneFits
  <2> QED BY <2>1, <2>2, <2>3 DEF PaneTurns, PaneBecomes
<1>3. CASE redis[x] = Missing
  <2> DEFINE v == [panel[p] EXCEPT !.at = "copy", !.x = x]
  <2>1. panel' = [panel EXCEPT ![p] = v] /\ Lapping(x, p)
    BY <1>1, <1>3 DEF ReadRedis, Panes
  <2>2. v \in Panes /\ v.x = x /\ v.at = "copy" /\ v.unchecked = {}
    BY <1>1 DEF Panes
  <2>3. PaneFits(v, job[p])
    BY <1>1, <2>2 DEF PaneFits, PlayersPanelAssumption
  <2> QED BY <1>3, <2>1, <2>2, <2>3 DEF PaneBecomes
<1> QED BY <1>2, <1>3

LEMMA ReadCopyTurns ==
  ASSUME PlayersPanelAssumption, PanelsTyped, NEW p \in Panels, ReadCopy(p)
  PROVE  \/ PaneTurns(p)
         \/ \E v \in Panes :
              /\ PaneBecomes(p, v) /\ v.x = panel[p].x
              /\ v.held = copy[panel[p].x].stats
<1>1. /\ panel[p] \in Panes /\ PaneFits(panel[p], job[p]) /\ panel[p].at = "copy"
      /\ panel[p].x \in Viewed /\ panel[p].unchecked = {} /\ job[p].at = "none"
      /\ panel \in [Panels -> Panes] /\ copy[panel[p].x].stats \in Nat
  BY PaneReads DEF PanelsTyped, GuildFits, StatsFit, PanesFit, PanelsFit, Panes, PaneFits, ReadCopy
<1> DEFINE stored == copy[panel[p].x].stats
<1>2. CASE stored = Missing
  <2>1. panel' = [panel EXCEPT ![p] = ReadOn(p)]
    BY <1>1, <1>2 DEF ReadCopy
  <2> QED BY <1>1, <2>1, PaneReads DEF PaneTurns, PaneBecomes
<1>3. CASE stored # Missing
  <2> DEFINE v == [panel[p] EXCEPT !.at = "warm", !.held = stored]
  <2>1. panel' = [panel EXCEPT ![p] = v]
    BY <1>1, <1>3 DEF ReadCopy, Panes
  <2>2. v \in Panes /\ v.x = panel[p].x /\ v.at = "warm" /\ v.unchecked = {} /\ v.held = stored
    BY <1>1 DEF Panes
  <2>3. PaneFits(v, job[p])
    BY <1>1, <2>2 DEF PaneFits, PlayersPanelAssumption
  <2> QED BY <2>1, <2>2, <2>3 DEF PaneBecomes
<1> QED BY <1>2, <1>3

LEMMA WarmTurns ==
  ASSUME PlayersPanelAssumption, PanelsTyped, NEW p \in Panels, Warm(p)
  PROVE  PaneTurns(p)
BY PaneReads DEF Warm, PaneTurns, PaneBecomes

LEMMA ScheduleTurns ==
  ASSUME PlayersPanelAssumption, PanelsTyped, NEW p \in Panels, Schedule(p)
  PROVE  /\ \E v \in Panes :
              /\ v.x = Nobody /\ v.unchecked = {} /\ v.at = "drawn"
              /\ panel' = [panel EXCEPT ![p] = v]
         /\ \E w \in Refreshes :
              job' = [job EXCEPT ![p] = w] /\ JobFits(w) /\ w.x = Nobody
<1>1. panel[p].kept \in SUBSET Viewed
  BY DEF PanelsTyped, PanesFit, Panes
<1>2. [Closed EXCEPT !.at = "drawn"] \in Panes
  BY DEF Closed, Panes, Missing
<1> DEFINE w == [NoJob EXCEPT !.at = "stats", !.todo = panel[p].kept]
<1>3. w \in Refreshes /\ w.x = Nobody /\ w.at = "stats"
  BY <1>1 DEF NoJob, Refreshes, Missing
<1>4. JobFits(w)
  BY <1>3 DEF JobFits
<1>5. job' = [job EXCEPT ![p] = w]
  BY DEF Schedule
<1> HIDE DEF w
<1> QED BY <1>2, <1>3, <1>4, <1>5 DEF Schedule, Closed

\* The same of a refresh.
LEMMA JobKnown ==
  ASSUME PlayersPanelAssumption, PanelsTyped, NEW p \in Panels, job[p].at # "none"
  PROVE  /\ job[p] \in Refreshes /\ JobFits(job[p]) /\ job \in [Panels -> Refreshes]
         /\ panel[p].at \in {"closed", "drawn", "labels"} /\ panel[p].x = Nobody
         /\ JobBecomes(p, Skip(p)) <=> job' = [job EXCEPT ![p] = Skip(p)]
         /\ Skip(p) \in Refreshes /\ Skip(p).x = Nobody
<1>1. /\ job[p] \in Refreshes /\ JobFits(job[p]) /\ job \in [Panels -> Refreshes]
      /\ PaneFits(panel[p], job[p]) /\ panel[p] \in Panes
  BY DEF PanelsTyped, GuildFits, StatsFit, PanesFit, PanelsFit, Panes, Refreshes
<1>2. panel[p].at \in {"closed", "drawn", "labels"}
  BY <1>1 DEF PaneFits
<1>3. panel[p].x = Nobody
  BY <1>1, <1>2 DEF PaneFits
<1>4. Skip(p) \in Refreshes /\ Skip(p).x = Nobody /\ Skip(p).at = "stats"
  BY <1>1 DEF Skip, Refreshes, Missing
<1>5. JobFits(Skip(p))
  BY <1>4 DEF JobFits
<1> QED BY <1>1, <1>2, <1>3, <1>4, <1>5 DEF JobBecomes

JobTurns(p) == \E w \in Refreshes : JobBecomes(p, w) /\ w.x = Nobody

LEMMA JobLooksTurns ==
  ASSUME PlayersPanelAssumption, PanelsTyped, NEW p \in Panels, NEW x \in Viewed,
         JobLooks(p, x)
  PROVE  \/ JobTurns(p) /\ UNCHANGED shared
         \/ /\ \E w \in Refreshes : JobBecomes(p, w) /\ w.x = x /\ w.at = "copy"
            /\ redis[x] = Missing /\ Lapping(x, p) /\ job[p].x = Nobody
<1>1. /\ job[p] \in Refreshes /\ JobFits(job[p]) /\ job \in [Panels -> Refreshes]
      /\ panel[p].at \in {"closed", "drawn", "labels"} /\ job[p].at = "stats"
  BY JobKnown DEF JobLooks
<1>a. job[p].x = Nobody
  BY <1>1 DEF JobFits
<1>2. CASE redis[x] # Missing
  <2> DEFINE w == [job[p] EXCEPT !.todo = @ \ {x}]
  <2>1. job' = [job EXCEPT ![p] = w] /\ UNCHANGED shared
    BY <1>1, <1>2 DEF JobLooks, Refreshes
  <2>2. w \in Refreshes /\ w.x = Nobody /\ w.at = "stats"
    BY <1>1, <1>a DEF Refreshes
  <2>3. JobFits(w)
    BY <2>2 DEF JobFits
  <2> QED BY <1>1, <2>1, <2>2, <2>3 DEF JobTurns, JobBecomes
<1>3. CASE redis[x] = Missing
  <2> DEFINE w == [job[p] EXCEPT !.at = "copy", !.x = x]
  <2>1. job' = [job EXCEPT ![p] = w] /\ Lapping(x, p)
    BY <1>1, <1>3 DEF JobLooks, Refreshes
  <2>2. w \in Refreshes /\ w.x = x /\ w.at = "copy"
    BY <1>1 DEF Refreshes
  <2>3. JobFits(w)
    BY <2>2 DEF JobFits, PlayersPanelAssumption
  <2> QED BY <1>1, <1>3, <1>a, <2>1, <2>2, <2>3 DEF JobBecomes
<1> QED BY <1>2, <1>3

\* A profile once taken in hand stays there until Redis was written or nothing
\* came of it.
LEMMA JobHoldsOn ==
  ASSUME PlayersPanelAssumption, PanelsTyped, NEW p \in Panels,
         NEW w \in Refreshes, job[p].at # "none", job[p].x # Nobody,
         job' = [job EXCEPT ![p] = w], w.x = job[p].x,
         w.at \in {"copy", "provider", "store", "warm"}
  PROVE  JobBecomes(p, w)
<1>1. JobFits(w)
  BY DEF JobFits
<1> QED BY <1>1, JobKnown DEF JobBecomes

LEMMA JobReadsTurns ==
  ASSUME PlayersPanelAssumption, PanelsTyped, NEW p \in Panels, JobReads(p)
  PROVE  \E w \in Refreshes :
            /\ JobBecomes(p, w) /\ w.x = job[p].x
            /\ w.at = "warm" => w.held = copy[w.x].stats
<1>1. /\ job[p] \in Refreshes /\ JobFits(job[p]) /\ job \in [Panels -> Refreshes]
      /\ job[p].at = "copy"
  BY JobKnown DEF JobReads
<1>2. job[p].x \in Viewed /\ job[p].x # Nobody
  BY <1>1 DEF JobFits, Refreshes
<1>3. copy[job[p].x].stats \in Nat
  BY <1>2 DEF PanelsTyped, GuildFits, StatsFit, PanesFit
<1> DEFINE w == [job[p] EXCEPT !.at = IF copy[job[p].x].old THEN "provider" ELSE "warm",
                               !.held = copy[job[p].x].stats]
<1>4. job' = [job EXCEPT ![p] = w]
  BY <1>1 DEF JobReads, Refreshes
<1>5. /\ w \in Refreshes /\ w.x = job[p].x /\ w.at \in {"provider", "warm"}
      /\ w.held = copy[job[p].x].stats
  BY <1>1, <1>3 DEF Refreshes
<1> HIDE DEF w
<1>6. JobBecomes(p, w)
  BY <1>1, <1>2, <1>4, <1>5, JobHoldsOn
<1> QED BY <1>5, <1>6

LEMMA JobAsksTurns ==
  ASSUME PlayersPanelAssumption, PanelsTyped, NEW p \in Panels, JobAsks(p)
  PROVE  \/ JobTurns(p)
         \/ \E w \in Refreshes : JobBecomes(p, w) /\ w.x = job[p].x /\ w.at = "store"
<1>1. /\ job[p] \in Refreshes /\ JobFits(job[p]) /\ job \in [Panels -> Refreshes]
      /\ job[p].at = "provider"
  BY JobKnown DEF JobAsks
<1>2. job[p].x \in Viewed /\ job[p].x # Nobody
  BY <1>1 DEF JobFits, Refreshes
<1>3. CASE job' = [job EXCEPT ![p] = Skip(p)]
  BY <1>1, <1>3, JobKnown DEF JobTurns
<1>4. CASE job' = [job EXCEPT ![p].at = "store", ![p].held = played[job[p].x]]
  <2> DEFINE w == [job[p] EXCEPT !.at = "store", !.held = played[job[p].x]]
  <2>1. played[job[p].x] \in Nat
    BY <1>2 DEF PanelsTyped, GuildFits, StatsFit, PanesFit
  <2>2. job' = [job EXCEPT ![p] = w]
    BY <1>1, <1>4 DEF Refreshes
  <2>3. w \in Refreshes /\ w.x = job[p].x /\ w.at = "store"
    BY <1>1, <2>1 DEF Refreshes
  <2> HIDE DEF w
  <2>4. JobBecomes(p, w)
    BY <1>1, <1>2, <2>2, <2>3, JobHoldsOn
  <2> QED BY <2>3, <2>4
<1> QED BY <1>3, <1>4 DEF JobAsks

LEMMA JobStoresTurns ==
  ASSUME PlayersPanelAssumption, PanelsTyped, NEW p \in Panels, JobStores(p)
  PROVE  /\ job[p].x \in Viewed /\ job[p].held \in Nat
         /\ \E w \in Refreshes :
              /\ JobBecomes(p, w) /\ w.x = job[p].x
              /\ w.at = "warm" /\ w.held = job[p].held
<1>1. /\ job[p] \in Refreshes /\ JobFits(job[p]) /\ job \in [Panels -> Refreshes]
      /\ job[p].at = "store"
  BY JobKnown DEF JobStores
<1>2. job[p].x \in Viewed /\ job[p].x # Nobody /\ job[p].held \in Nat
  BY <1>1 DEF JobFits, Refreshes
<1> DEFINE w == [job[p] EXCEPT !.at = "warm"]
<1>3. job' = [job EXCEPT ![p] = w]
  BY <1>1 DEF JobStores, Refreshes
<1>4. w \in Refreshes /\ w.x = job[p].x /\ w.at = "warm" /\ w.held = job[p].held
  BY <1>1 DEF Refreshes
<1> HIDE DEF w
<1>5. JobBecomes(p, w)
  BY <1>1, <1>2, <1>3, <1>4, JobHoldsOn
<1> QED BY <1>2, <1>4, <1>5

LEMMA JobWarmsTurns ==
  ASSUME PlayersPanelAssumption, PanelsTyped, NEW p \in Panels, JobWarms(p)
  PROVE  JobTurns(p) /\ job[p].x \in Viewed /\ job[p].held \in Nat
<1>1. job[p] \in Refreshes /\ JobFits(job[p]) /\ job[p].at = "warm"
  BY JobKnown DEF JobWarms
<1>2. job[p].x \in Viewed /\ job[p].held \in Nat
  BY <1>1 DEF JobFits, Refreshes
<1> QED BY <1>1, <1>2, JobKnown DEF JobWarms, JobTurns

LEMMA JobEndsTurns ==
  ASSUME PlayersPanelAssumption, PanelsTyped, NEW p \in Panels, JobEnds(p)
  PROVE  JobTurns(p)
<1>1. NoJob \in Refreshes /\ NoJob.x = Nobody /\ NoJob.at = "none"
  BY DEF NoJob, Refreshes, Missing
<1>2. JobFits(NoJob)
  BY <1>1 DEF JobFits
<1> QED BY <1>1, <1>2 DEF JobEnds, JobTurns, JobBecomes

LEMMA PaneKept ==
  ASSUME PanelsTyped, NEW p \in Panels, NEW v \in Panes, PaneBecomes(p, v), UNCHANGED job
  PROVE  PanesFit' /\ PanelsFit'
<1>1. panel \in [Panels -> Panes] /\ job \in [Panels -> Refreshes]
  BY DEF PanelsTyped, PanesFit
<1>2. \A q \in Panels : panel'[q] = IF q = p THEN v ELSE panel[q]
  BY <1>1 DEF PaneBecomes
<1> QED BY <1>1, <1>2 DEF PaneBecomes, PanesFit, PanelsFit, PanelsTyped

LEMMA JobKept ==
  ASSUME PlayersPanelAssumption, PanelsTyped, NEW p \in Panels, NEW w \in Refreshes,
         JobBecomes(p, w), UNCHANGED panel
  PROVE  PanesFit' /\ PanelsFit'
<1>1. panel \in [Panels -> Panes] /\ job \in [Panels -> Refreshes]
  BY DEF PanelsTyped, PanesFit
<1>2. \A q \in Panels : job'[q] = IF q = p THEN w ELSE job[q]
  BY <1>1 DEF JobBecomes
<1>3. \A q \in Panels : PaneFits(panel[q], job[q]) /\ JobFits(job[q])
  BY DEF PanelsTyped, PanelsFit
<1>4. PaneFits(panel[p], w) /\ JobFits(w)
  BY <1>3 DEF PaneFits, JobBecomes
<1>5. \A q \in Panels : PaneFits(panel'[q], job'[q]) /\ JobFits(job'[q])
  BY <1>2, <1>3, <1>4
<1> QED BY <1>1, <1>5 DEF JobBecomes, PanesFit, PanelsFit

\* Discord, the players and time leave the panels as they are.
LEMMA SurroundingsFit ==
  ASSUME PlayersPanelAssumption, PanelsTyped,
         \/ Deliver \/ Reidentify \/ RosterAges \/ Answers
         \/ \E u \in Viewed : Move(u) \/ Expires(u) \/ CopyAges(u) \/ Play(u)
  PROVE  PanelsTyped'
<1>1. GuildFits /\ StatsFit /\ PanesFit /\ PanelsFit
  BY DEF PanelsTyped
<1>2. UNCHANGED <<panel, job>> => PanesFit' /\ PanelsFit'
  BY <1>1 DEF PanesFit, PanelsFit
<1>3. CASE Deliver
  <2>1. Head(gateway) \in Events /\ Tail(gateway) \in Seq(Events)
    BY <1>1, <1>3 DEF Deliver, GuildFits
  <2>2. \A S \in SUBSET Viewed : Moved(S, Head(gateway)) \in SUBSET Viewed
    BY <2>1 DEF Moved, Events
  <2>3. Head(gateway).who \in Viewed
    BY <2>1 DEF Events
  <2>4. roster' \in Rosters
    BY <1>1, <1>3, <2>2 DEF Deliver, GuildFits, Rosters
  <2>5. gateway' \in Seq(Events) /\ missed' \subseteq Viewed
    BY <1>1, <1>3, <2>1, <2>3 DEF Deliver, GuildFits
  <2>6. UNCHANGED <<members, fetch, moves, mishaps, statVars, panel, job>>
    BY <1>3 DEF Deliver
  <2>7. GuildFits'
    BY <1>1, <2>4, <2>5, <2>6 DEF GuildFits
  <2>8. StatsFit'
    BY <1>1, <2>6 DEF StatsFit, statVars
  <2> QED BY <1>2, <2>6, <2>7, <2>8 DEF PanelsTyped
<1>4. CASE Reidentify
  <2>1. \A i \in DOMAIN gateway : gateway[i].who \in Viewed
    <3>1. \A i \in DOMAIN gateway : gateway[i] \in Events
      BY <1>1, LenProperties, ElementOfSeq DEF GuildFits
    <3> QED BY <3>1 DEF Events
  <2>2. gateway' \in Seq(Events) /\ missed' \subseteq Viewed /\ mishaps' \in Nat
    BY <1>1, <1>4, <2>1 DEF Reidentify, GuildFits, Mishap
  <2>3. UNCHANGED <<members, roster, fetch, moves, statVars, panel, job>>
    BY <1>4 DEF Reidentify
  <2>4. GuildFits' /\ StatsFit'
    BY <1>1, <2>2, <2>3 DEF GuildFits, StatsFit, statVars
  <2> QED BY <1>2, <2>3, <2>4 DEF PanelsTyped
<1>5. CASE RosterAges
  <2>1. roster' \in Rosters
    BY <1>1, <1>5 DEF RosterAges, GuildFits, Rosters
  <2>2. GuildFits' /\ StatsFit' /\ UNCHANGED <<panel, job>>
    BY <1>1, <1>5, <2>1 DEF RosterAges, GuildFits, StatsFit, statVars
  <2> QED BY <1>2, <2>2 DEF PanelsTyped
<1>6. CASE Answers
  <2>1. fetch' \in Fetches
    BY <1>1, <1>6 DEF Answers, GuildFits, Fetches
  <2>2. GuildFits' /\ StatsFit' /\ UNCHANGED <<panel, job>>
    BY <1>1, <1>6, <2>1 DEF Answers, GuildFits, StatsFit, statVars
  <2> QED BY <1>2, <2>2 DEF PanelsTyped
<1>7. ASSUME NEW u \in Viewed, Move(u) \/ Expires(u) \/ CopyAges(u) \/ Play(u)
      PROVE  PanelsTyped'
  <2>1. UNCHANGED <<panel, job>>
    BY <1>7 DEF Move, Expires, CopyAges, Play
  <2>2. CASE Move(u)
    <3>1. [who |-> u, joins |-> u \notin members] \in Events
      BY DEF Events
    <3>2. /\ gateway' \in Seq(Events) /\ members' \subseteq Viewed /\ moves' \in Nat
          /\ UNCHANGED <<roster, fetch, missed, mishaps, statVars>>
      BY <1>1, <2>2, <3>1 DEF Move, GuildFits
    <3>3. GuildFits' /\ StatsFit'
      BY <1>1, <3>2 DEF GuildFits, StatsFit, statVars
    <3> QED BY <1>2, <2>1, <3>3 DEF PanelsTyped
  <2>3. CASE Expires(u) \/ CopyAges(u) \/ Play(u)
    <3>1. UNCHANGED <<memberVars, mishaps>>
      BY <2>3 DEF Expires, CopyAges, Play
    <3>2. GuildFits'
      BY <1>1, <3>1 DEF GuildFits, memberVars
    <3>3. StatsFit'
      <4>1. CASE Expires(u)
        BY <1>1, <4>1 DEF Expires, StatsFit, Missing
      <4>2. CASE CopyAges(u)
        BY <1>1, <4>2 DEF CopyAges, StatsFit
      <4>3. CASE Play(u)
        BY <1>1, <4>3 DEF Play, StatsFit
      <4> QED BY <2>3, <4>1, <4>2, <4>3
    <3> QED BY <1>2, <2>1, <3>2, <3>3 DEF PanelsTyped
  <2> QED BY <1>7, <2>2, <2>3
<1> QED BY <1>3, <1>4, <1>5, <1>6, <1>7

\* What the panels do with the roster.
LEMMA RosterFits ==
  ASSUME PlayersPanelAssumption, PanelsTyped, NEW p \in Panels,
         Open(p) \/ Draw(p) \/ Fetched(p) \/ FetchFails(p)
  PROVE  /\ PanelsTyped' /\ PaneTurns(p) /\ UNCHANGED <<statVars, job>>
         /\ UNCHANGED <<members, gateway, missed>>
         /\ \/ UNCHANGED roster
            \/ fetch.answered /\ roster' = [age |-> "fresh", who |-> fetch.seen]
         /\ UNCHANGED fetch \/ ~ fetch'.answered
<1>1. GuildFits /\ StatsFit /\ PanesFit /\ PanelsFit
  BY DEF PanelsTyped
<1>2. fetch.seen \in SUBSET Viewed /\ fetch.was \in SUBSET Viewed
  BY <1>1 DEF GuildFits, Fetches
<1>3. /\ PaneTurns(p) /\ fetch' \in Fetches /\ roster' \in Rosters
      /\ UNCHANGED fetch \/ ~ fetch'.answered
      /\ \/ UNCHANGED roster
         \/ fetch.answered /\ roster' = [age |-> "fresh", who |-> fetch.seen]
  <2>1. CASE Open(p) \/ Draw(p)
    BY <1>1, <2>1, AskTurns DEF Open, Draw, GuildFits
  <2>2. CASE Fetched(p)
    <3>1. roster' = roster \/ roster' = [age |-> "fresh", who |-> fetch.seen]
      BY <2>2 DEF Fetched
    <3>2. roster' \in Rosters
      BY <1>1, <1>2, <3>1 DEF GuildFits, Rosters
    <3>3. Resume(p, fetch.seen, roster') /\ fetch.answered
      BY <2>2 DEF Fetched
    <3> QED BY <1>2, <3>1, <3>2, <3>3, ResumeTurns
  <2>3. CASE FetchFails(p)
    <3>1. Resume(p, fetch.was, roster) /\ UNCHANGED roster
      BY <2>3 DEF FetchFails
    <3> QED BY <1>1, <1>2, <3>1, ResumeTurns DEF GuildFits
  <2> QED BY <2>1, <2>2, <2>3
<1>4. UNCHANGED <<members, gateway, missed, moves, statVars, job>> /\ mishaps' \in Nat
  BY <1>1 DEF Open, Draw, Fetched, FetchFails, Mishap, GuildFits
<1>5. GuildFits' /\ StatsFit'
  BY <1>1, <1>3, <1>4 DEF GuildFits, StatsFit, statVars
<1>6. PanesFit' /\ PanelsFit'
  BY <1>3, <1>4, PaneKept DEF PaneTurns
<1> QED BY <1>3, <1>4, <1>5, <1>6 DEF PanelsTyped

\* What the panels and their refreshes do with the statistics.
LEMMA StatPanesFit ==
  ASSUME PlayersPanelAssumption, PanelsTyped, NEW p \in Panels,
         ReadCopy(p) \/ Warm(p) \/ Schedule(p) \/ \E x \in Viewed : ReadRedis(p, x)
  PROVE  PanelsTyped'
<1>1. GuildFits /\ StatsFit /\ PanesFit /\ PanelsFit
  BY DEF PanelsTyped
<1>2. UNCHANGED memberVars /\ mishaps' \in Nat
  BY <1>1 DEF ReadCopy, Warm, Schedule, ReadRedis, Mishap, GuildFits
<1>3. GuildFits'
  BY <1>1, <1>2 DEF GuildFits, memberVars
<1>4. CASE ReadCopy(p) \/ Warm(p)
  <2>1. \E v \in Panes : PaneBecomes(p, v)
    BY <1>4, ReadCopyTurns, WarmTurns DEF PaneTurns
  <2>2. UNCHANGED job
    BY <1>4 DEF ReadCopy, Warm
  <2>3. PanesFit' /\ PanelsFit'
    BY <2>1, <2>2, PaneKept
  <2>4. StatsFit'
    <3>1. CASE ReadCopy(p)
      BY <1>1, <3>1 DEF ReadCopy, StatsFit, statVars
    <3>2. CASE Warm(p)
      <4>1. panel[p].held \in Nat
        BY <1>1 DEF PanesFit, Panes
      <4> QED BY <1>1, <3>2, <4>1 DEF Warm, StatsFit
    <3> QED BY <1>4, <3>1, <3>2
  <2> QED BY <1>3, <2>3, <2>4 DEF PanelsTyped
<1>5. CASE Schedule(p)
  <2>1. PICK v \in Panes :
          /\ v.x = Nobody /\ v.unchecked = {} /\ v.at = "drawn"
          /\ panel' = [panel EXCEPT ![p] = v]
    BY <1>5, ScheduleTurns
  <2>2. PICK w \in Refreshes : job' = [job EXCEPT ![p] = w] /\ JobFits(w) /\ w.x = Nobody
    BY <1>5, ScheduleTurns
  <2>3. PaneFits(v, w)
    BY <2>1 DEF PaneFits
  <2>4. PanesFit'
    BY <1>1, <2>1, <2>2 DEF PanesFit
  <2>5. ASSUME NEW q \in Panels PROVE PaneFits(panel'[q], job'[q]) /\ JobFits(job'[q])
    BY <1>1, <2>1, <2>2, <2>3 DEF PanesFit, PanelsFit
  <2>6. PanelsFit'
    BY <2>5 DEF PanelsFit
  <2>7. StatsFit'
    BY <1>1, <1>5 DEF Schedule, StatsFit, statVars
  <2> QED BY <1>3, <2>4, <2>6, <2>7 DEF PanelsTyped
<1>6. ASSUME NEW x \in Viewed, ReadRedis(p, x) PROVE PanelsTyped'
  <2>1. \E v \in Panes : PaneBecomes(p, v)
    BY <1>6, ReadRedisTurns DEF PaneTurns
  <2>2. UNCHANGED job
    BY <1>6 DEF ReadRedis
  <2>3. PanesFit' /\ PanelsFit'
    BY <2>1, <2>2, PaneKept
  <2>4. StatsFit'
    BY <1>1, <1>6 DEF ReadRedis, StatsFit, Lapping
  <2> QED BY <1>3, <2>3, <2>4 DEF PanelsTyped
<1> QED BY <1>4, <1>5, <1>6

LEMMA JobsFit ==
  ASSUME PlayersPanelAssumption, PanelsTyped, NEW p \in Panels, JobStep(p)
  PROVE  PanelsTyped'
<1>1. GuildFits /\ StatsFit /\ PanesFit /\ PanelsFit
  BY DEF PanelsTyped
<1>2. /\ UNCHANGED memberVars /\ UNCHANGED panel /\ mishaps' \in Nat
      /\ UNCHANGED played
  BY <1>1 DEF JobStep, JobReads, JobAsks, JobStores, JobWarms, JobEnds, JobLooks, Mishap, GuildFits,
     statVars
<1>3. GuildFits'
  BY <1>1, <1>2 DEF GuildFits, memberVars
<1>4. \E w \in Refreshes : JobBecomes(p, w)
  BY JobLooksTurns, JobReadsTurns, JobAsksTurns, JobStoresTurns, JobWarmsTurns, JobEndsTurns
  DEF JobStep, JobTurns
<1>5. PanesFit' /\ PanelsFit'
  BY <1>2, <1>4, JobKept
<1>6. StatsFit'
  <2>1. CASE JobReads(p) \/ JobAsks(p) \/ JobEnds(p)
    BY <1>1, <2>1 DEF JobReads, JobAsks, JobEnds, StatsFit, statVars
  <2>2. CASE JobStores(p)
    <3>1. job[p].x \in Viewed /\ job[p].held \in Nat
      BY <2>2, JobStoresTurns
    <3>2. [stats |-> job[p].held, old |-> FALSE] \in [stats : Nat, old : BOOLEAN]
      BY <3>1
    <3>3. /\ copy' = copy \/ copy' = [copy EXCEPT ![job[p].x] =
                                                 [stats |-> job[p].held, old |-> FALSE]]
          /\ shared' \in {shared, shared \cup {job[p].x}} /\ UNCHANGED redis
      BY <2>2 DEF JobStores
    <3>4. copy' \in [Viewed -> [stats : Nat, old : BOOLEAN]]
      BY <1>1, <3>2, <3>3 DEF StatsFit
    <3> QED BY <1>1, <1>2, <3>1, <3>3, <3>4 DEF StatsFit
  <2>3. CASE JobWarms(p)
    BY <1>1, <2>3, JobWarmsTurns DEF JobWarms, StatsFit
  <2>4. ASSUME NEW x \in Viewed, JobLooks(p, x) PROVE StatsFit'
    BY <1>1, <2>4 DEF JobLooks, StatsFit, Lapping
  <2> QED BY <2>1, <2>2, <2>3, <2>4 DEF JobStep
<1> QED BY <1>3, <1>5, <1>6 DEF PanelsTyped

LEMMA PanelsTypedInit == ASSUME PanelsInit PROVE PanelsTyped
<1>1. Closed \in Panes /\ NoJob \in Refreshes /\ NoFetch \in Fetches
  BY DEF Closed, NoJob, NoFetch, Panes, Refreshes, Fetches, Missing
<1>2. GuildFits
  BY <1>1 DEF PanelsInit, GuildFits, Rosters
<1>3. StatsFit /\ PanesFit
  BY <1>1 DEF PanelsInit, StatsFit, PanesFit, Missing
<1>4. PaneFits(Closed, NoJob) /\ JobFits(NoJob)
  BY DEF Closed, NoJob, PaneFits, JobFits
<1>5. PanelsFit
  BY <1>4 DEF PanelsInit, PanelsFit
<1> QED BY <1>2, <1>3, <1>5 DEF PanelsTyped

LEMMA PanelsTypedStep ==
  ASSUME PlayersPanelAssumption, PanelsTyped, [PanelsNext]_panelVars
  PROVE  PanelsTyped'
<1>1. CASE UNCHANGED panelVars
  BY <1>1 DEF panelVars, memberVars, statVars, PanelsTyped, GuildFits, StatsFit, PanesFit, PanelsFit
<1>2. CASE \/ Deliver \/ Reidentify \/ RosterAges \/ Answers
           \/ \E u \in Viewed : Move(u) \/ Expires(u) \/ CopyAges(u) \/ Play(u)
  BY <1>2, SurroundingsFit
<1>3. CASE Restart
  <2>1. Closed \in Panes /\ NoJob \in Refreshes /\ NoFetch \in Fetches
    BY DEF Closed, NoJob, NoFetch, Panes, Refreshes, Fetches, Missing
  <2>2. GuildFits'
    BY <1>3, <2>1 DEF Restart, Mishap, PanelsTyped, GuildFits, Rosters
  <2>3. StatsFit'
    BY <1>3 DEF Restart, PanelsTyped, StatsFit, statVars
  <2>4. PanesFit'
    BY <1>3, <2>1 DEF Restart, PanesFit
  <2>5. PaneFits(Closed, NoJob) /\ JobFits(NoJob)
    BY DEF Closed, NoJob, PaneFits, JobFits
  <2>6. PanelsFit'
    BY <1>3, <2>5 DEF Restart, PanelsFit
  <2> QED BY <2>2, <2>3, <2>4, <2>6 DEF PanelsTyped
<1>4. ASSUME NEW p \in Panels, PanelStep(p) PROVE PanelsTyped'
  BY <1>4, RosterFits, StatPanesFit DEF PanelStep
<1>5. ASSUME NEW p \in Panels, JobStep(p) PROVE PanelsTyped'
  BY <1>5, JobsFit
<1> QED BY <1>1, <1>2, <1>3, <1>4, <1>5 DEF PanelsNext

\* Every reachable state of the panels is well typed.
THEOREM PanelsTypeCorrect == PanelsSpec => []PanelsTypeOK
<1>1. PanelsInit => PanelsTyped
  BY PanelsTypedInit
<1>2. PanelsTyped /\ [PanelsNext]_panelVars => PanelsTyped'
  BY PanelsTypedStep, PlayersPanelAssumption
<1>3. PanelsTyped => PanelsTypeOK
  BY DEF PanelsTyped, PanelsTypeOK, GuildFits, StatsFit, PanesFit, Panes, Refreshes, Fetches
<1> QED BY <1>1, <1>2, <1>3, PTL DEF PanelsSpec

-----------------------------------------------------------------------------
(* The roster.                                                              *)

\* The events on their way after one more left, and after the first arrived.
LEMMA MoreEvents ==
  ASSUME NEW u \in Viewed, NEW b \in BOOLEAN, gateway \in Seq(Events),
         gateway' = Append(gateway, [who |-> u, joins |-> b])
  PROVE  /\ Pending(u)' /\ (Joining(u)' <=> b)
         /\ \A v \in Viewed \ {u} :
              (Pending(v)' <=> Pending(v)) /\ (Joining(v)' <=> Joining(v))
<1> DEFINE n == Len(gateway) e == [who |-> u, joins |-> b]
<1>1. /\ n \in Nat /\ DOMAIN gateway = 1..n /\ DOMAIN gateway' = 1..n + 1
      /\ \A i \in 1..n : gateway'[i] = gateway[i]
      /\ gateway'[n + 1] = e /\ e.who = u /\ e.joins = b
  BY AppendProperties, LenProperties DEF Events
<1> HIDE DEF n, e
<1>2. Pending(u)'
  BY <1>1 DEF Pending
<1>3. Joining(u)' <=> b
  <2>1. ASSUME b PROVE Joining(u)'
    <3>1. e = [who |-> u, joins |-> TRUE]
      BY <2>1 DEF e
    <3>2. \A j \in 1..n + 1 : ~ j > n + 1
      BY <1>1
    <3> QED BY <1>1, <3>1, <3>2 DEF Joining
  <2>2. ASSUME Joining(u)' PROVE b
    <3>1. PICK i \in DOMAIN gateway' :
            /\ gateway'[i] = [who |-> u, joins |-> TRUE]
            /\ \A j \in DOMAIN gateway' : j > i => gateway'[j].who # u
      BY <2>2 DEF Joining
    <3>2. i = n + 1
      <4>1. ASSUME i # n + 1 PROVE FALSE
        <5>1. n + 1 \in DOMAIN gateway' /\ n + 1 > i
          BY <1>1, <4>1
        <5> QED BY <1>1, <3>1, <5>1
      <4> QED BY <4>1
    <3> QED BY <1>1, <3>1, <3>2
  <2> QED BY <2>1, <2>2
<1>4. ASSUME NEW v \in Viewed \ {u}
      PROVE  (Pending(v)' <=> Pending(v)) /\ (Joining(v)' <=> Joining(v))
  <2>1. Pending(v)' <=> Pending(v)
    BY <1>1 DEF Pending
  <2>2. ASSUME Joining(v) PROVE Joining(v)'
    <3>1. PICK i \in DOMAIN gateway :
            /\ gateway[i] = [who |-> v, joins |-> TRUE]
            /\ \A j \in DOMAIN gateway : j > i => gateway[j].who # v
      BY <2>2 DEF Joining
    <3>2. i \in DOMAIN gateway' /\ gateway'[i] = gateway[i]
      BY <1>1
    <3>3. \A j \in DOMAIN gateway' : j > i => gateway'[j].who # v
      BY <1>1, <3>1
    <3> QED BY <3>1, <3>2, <3>3 DEF Joining
  <2>3. ASSUME Joining(v)' PROVE Joining(v)
    <3>1. PICK i \in DOMAIN gateway' :
            /\ gateway'[i] = [who |-> v, joins |-> TRUE]
            /\ \A j \in DOMAIN gateway' : j > i => gateway'[j].who # v
      BY <2>3 DEF Joining
    <3>2. i # n + 1
      BY <1>1, <3>1
    <3>3. i \in DOMAIN gateway /\ gateway[i] = [who |-> v, joins |-> TRUE]
      BY <1>1, <3>1, <3>2
    <3>4. \A j \in DOMAIN gateway : j > i => gateway[j].who # v
      BY <1>1, <3>1
    <3> QED BY <3>3, <3>4 DEF Joining
  <2> QED BY <2>1, <2>2, <2>3
<1> QED BY <1>2, <1>3, <1>4

LEMMA FewerEvents ==
  ASSUME gateway \in Seq(Events), gateway # <<>>, gateway' = Tail(gateway), NEW u \in Viewed
  PROVE  /\ Head(gateway) \in Events
         /\ Pending(u)' => Pending(u) /\ (Joining(u)' <=> Joining(u))
         /\ ~ Pending(u)' =>
              /\ Pending(u) <=> Head(gateway).who = u
              /\ Pending(u) => (Joining(u) <=> Head(gateway).joins)
<1> DEFINE n == Len(gateway)
<1>1. /\ n \in Nat \ {0} /\ DOMAIN gateway = 1..n /\ DOMAIN gateway' = 1..n - 1
      /\ \A i \in 1..n - 1 : gateway'[i] = gateway[i + 1]
      /\ gateway[1] = Head(gateway) /\ Head(gateway) \in Events
  <2>1. /\ n \in Nat \ {0} /\ DOMAIN gateway = 1..n /\ gateway' \in Seq(Events)
        /\ Len(gateway') = n - 1 /\ gateway[1] = Head(gateway) /\ Head(gateway) \in Events
        /\ \A i \in 1..n - 1 : gateway'[i] = gateway[i + 1]
    BY EmptySeq, LenProperties, HeadTailProperties
  <2>2. DOMAIN gateway' = 1..n - 1
    BY <2>1, LenProperties
  <2> QED BY <2>1, <2>2
<1> HIDE DEF n
<1>2. \A i \in DOMAIN gateway : gateway[i] \in Events
  BY ElementOfSeq, LenProperties
<1>3. \A i \in DOMAIN gateway \ {1} : i - 1 \in DOMAIN gateway' /\ gateway'[i - 1] = gateway[i]
  BY <1>1
<1>4. \A i \in DOMAIN gateway' : i + 1 \in DOMAIN gateway /\ gateway'[i] = gateway[i + 1]
  BY <1>1
<1>5. Pending(u)' <=> \E i \in DOMAIN gateway \ {1} : gateway[i].who = u
  <2>1. ASSUME NEW i \in DOMAIN gateway', gateway'[i].who = u
        PROVE  \E k \in DOMAIN gateway \ {1} : gateway[k].who = u
    <3>1. i + 1 \in DOMAIN gateway \ {1}
      BY <1>1
    <3> QED BY <1>4, <2>1, <3>1
  <2> QED BY <1>3, <2>1 DEF Pending
<1>6. ASSUME Pending(u)' PROVE Pending(u) /\ (Joining(u)' <=> Joining(u))
  <2>1. Pending(u)
    BY <1>5, <1>6 DEF Pending
  <2>2. ASSUME Joining(u)' PROVE Joining(u)
    <3>1. PICK i \in DOMAIN gateway' :
            /\ gateway'[i] = [who |-> u, joins |-> TRUE]
            /\ \A j \in DOMAIN gateway' : j > i => gateway'[j].who # u
      BY <2>2 DEF Joining
    <3>2. i + 1 \in DOMAIN gateway /\ gateway[i + 1] = [who |-> u, joins |-> TRUE]
      BY <1>4, <3>1
    <3>3. ASSUME NEW j \in DOMAIN gateway, j > i + 1 PROVE gateway[j].who # u
      <4>1. j - 1 \in DOMAIN gateway' /\ gateway'[j - 1] = gateway[j] /\ j - 1 > i
        BY <1>1, <1>3, <3>3
      <4> QED BY <3>1, <4>1
    <3> QED BY <3>2, <3>3 DEF Joining
  <2>3. ASSUME Joining(u) PROVE Joining(u)'
    <3>1. PICK i \in DOMAIN gateway :
            /\ gateway[i] = [who |-> u, joins |-> TRUE]
            /\ \A j \in DOMAIN gateway : j > i => gateway[j].who # u
      BY <2>3 DEF Joining
    <3>2. PICK k \in DOMAIN gateway \ {1} : gateway[k].who = u
      BY <1>5, <1>6
    <3>3. i # 1
      <4>1. i = 1 => k > i
        BY <1>1, <3>2
      <4> QED BY <3>1, <3>2, <4>1
    <3>4. i - 1 \in DOMAIN gateway' /\ gateway'[i - 1] = [who |-> u, joins |-> TRUE]
      BY <1>3, <3>1, <3>3
    <3>5. ASSUME NEW j \in DOMAIN gateway', j > i - 1 PROVE gateway'[j].who # u
      <4>1. j + 1 \in DOMAIN gateway /\ gateway'[j] = gateway[j + 1] /\ j + 1 > i
        BY <1>1, <1>4, <3>5
      <4> QED BY <3>1, <4>1
    <3> QED BY <3>4, <3>5 DEF Joining
  <2> QED BY <2>1, <2>2, <2>3
<1>7. ASSUME ~ Pending(u)'
      PROVE  /\ Pending(u) <=> Head(gateway).who = u
             /\ Pending(u) => (Joining(u) <=> Head(gateway).joins)
  <2>1. \A i \in DOMAIN gateway \ {1} : gateway[i].who # u
    BY <1>5, <1>7
  <2>2. 1 \in DOMAIN gateway
    BY <1>1
  <2>3. Pending(u) <=> Head(gateway).who = u
    BY <1>1, <2>1, <2>2 DEF Pending
  <2>4. ASSUME Head(gateway).who = u PROVE Joining(u) <=> Head(gateway).joins
    <3>1. Head(gateway) = [who |-> u, joins |-> Head(gateway).joins] /\ Head(gateway).joins \in BOOLEAN
      BY <1>1, <2>4 DEF Events
    <3>2. ASSUME Joining(u) PROVE Head(gateway).joins
      <4>1. PICK i \in DOMAIN gateway : gateway[i] = [who |-> u, joins |-> TRUE]
        BY <3>2 DEF Joining
      <4>2. i = 1
        BY <2>1, <4>1
      <4> QED BY <1>1, <4>1, <4>2
    <3>3. ASSUME Head(gateway).joins PROVE Joining(u)
      <4>1. gateway[1] = [who |-> u, joins |-> TRUE]
        BY <1>1, <3>1, <3>3
      <4>2. \A j \in DOMAIN gateway : j > 1 => gateway[j].who # u
        BY <1>1, <2>1
      <4> QED BY <2>2, <4>1, <4>2 DEF Joining
    <3> QED BY <3>2, <3>3
  <2> QED BY <2>3, <2>4
<1> QED BY <1>1, <1>6, <1>7

LEMMA RosterStep ==
  ASSUME PlayersPanelAssumption, PanelsTyped, RosterInv, [PanelsNext]_panelVars
  PROVE  RosterInv'
<1>1. gateway \in Seq(Events) /\ GuildFits
  BY DEF PanelsTyped, GuildFits
<1>2. CASE /\ UNCHANGED <<members, gateway, missed>>
           /\ roster.age # "none" => roster'.age = "none" \/ roster'.who = roster.who
           /\ (roster.age = "none" => roster'.age = "none") /\ (UNCHANGED fetch \/ ~ fetch'.answered)
  <2>1. UNCHANGED <<members, gateway, missed>>
    BY <1>2
  <2>2. \A u \in Viewed : (Pending(u)' <=> Pending(u)) /\ (Joining(u)' <=> Joining(u))
    BY <2>1 DEF Pending, Joining
  <2>3. \A S : Follows(S) => \A u \in Viewed \ missed' : ~ Pending(u)' => (u \in S <=> u \in members')
    BY <2>1, <2>2 DEF Follows
  <2>4. roster'.age # "none" => Follows(roster.who) /\ roster'.who = roster.who
    BY <1>2 DEF RosterInv
  <2>5. fetch'.answered => Follows(fetch.seen) /\ fetch'.seen = fetch.seen
    BY <1>2 DEF RosterInv
  <2> QED BY <2>1, <2>2, <2>3, <2>4, <2>5 DEF RosterInv, Follows
<1>3. ASSUME NEW u \in Viewed, Move(u) PROVE RosterInv'
  <2>1. /\ members' = IF u \in members THEN members \ {u} ELSE members \cup {u}
        /\ gateway' = Append(gateway, [who |-> u, joins |-> u \notin members])
        /\ UNCHANGED <<roster, fetch, missed>>
    BY <1>3 DEF Move
  <2>2. /\ Pending(u)' /\ (Joining(u)' <=> u \notin members)
        /\ \A v \in Viewed \ {u} :
             (Pending(v)' <=> Pending(v)) /\ (Joining(v)' <=> Joining(v))
    BY <1>1, <2>1, MoreEvents
  <2>3. \A v \in Viewed \ {u} : v \in members' <=> v \in members
    BY <2>1
  <2>4. u \in members' <=> u \notin members
    BY <2>1
  <2> QED BY <2>1, <2>2, <2>3, <2>4 DEF RosterInv, Follows
<1>4. CASE Deliver
  <2> DEFINE e == Head(gateway)
  <2>1. /\ gateway # <<>> /\ gateway' = Tail(gateway) /\ UNCHANGED <<members, fetch>>
        /\ roster' = IF roster.age = "none" THEN roster ELSE [roster EXCEPT !.who = Moved(@, e)]
        /\ missed' = IF fetch.answered /\ Moved(fetch.seen, e) # fetch.seen
                     THEN missed \cup {e.who} ELSE missed
    BY <1>4 DEF Deliver
  <2>2. e \in Events /\ members' = members
    BY <1>1, <2>1, HeadTailProperties
  <2>3. \A u \in Viewed :
          /\ Pending(u)' => Pending(u) /\ (Joining(u)' <=> Joining(u))
          /\ ~ Pending(u)' =>
               /\ Pending(u) <=> e.who = u
               /\ Pending(u) => (Joining(u) <=> e.joins)
    BY <1>1, <2>1, FewerEvents
  <2> HIDE DEF e
  <2>4. \A u \in Viewed : Pending(u)' => (Joining(u)' <=> u \in members')
    BY <2>1, <2>3 DEF RosterInv
  <2>5. \A S : \A u \in Viewed : u \in Moved(S, e) <=> IF u = e.who THEN e.joins ELSE u \in S
    BY <2>2 DEF Moved, Events
  <2>6. \A u \in Viewed : ~ Pending(u)' /\ e.who = u => (e.joins <=> u \in members)
    BY <2>3 DEF RosterInv
  <2>7. (roster.age # "none" => Follows(roster.who))'
    <3>1. SUFFICES ASSUME roster'.age # "none", NEW u \in Viewed \ missed', ~ Pending(u)'
                   PROVE  u \in roster'.who <=> u \in members'
      BY DEF Follows
    <3>2. roster.age # "none" /\ roster'.who = Moved(roster.who, e) /\ u \notin missed
      BY <1>1, <2>1, <3>1 DEF GuildFits, Rosters
    <3>3. CASE e.who = u
      BY <2>1, <2>5, <2>6, <3>1, <3>2, <3>3
    <3>4. CASE e.who # u
      <4>1. ~ Pending(u) /\ (u \in roster.who <=> u \in members)
        BY <2>3, <3>1, <3>2, <3>4 DEF RosterInv, Follows
      <4> QED BY <2>1, <2>5, <3>1, <3>2, <3>4, <4>1
    <3> QED BY <3>3, <3>4
  <2>8. (fetch.answered => Follows(fetch.seen))'
    <3>1. SUFFICES ASSUME fetch'.answered, NEW u \in Viewed \ missed', ~ Pending(u)'
                   PROVE  u \in fetch'.seen <=> u \in members'
      BY DEF Follows
    <3>2. fetch.answered /\ fetch'.seen = fetch.seen /\ u \notin missed
      BY <2>1, <3>1
    <3>3. CASE e.who = u
      <4>1. Moved(fetch.seen, e) = fetch.seen
        BY <2>1, <3>1, <3>2, <3>3
      <4> QED BY <2>1, <2>5, <2>6, <3>1, <3>2, <3>3, <4>1
    <3>4. CASE e.who # u
      <4>1. ~ Pending(u) /\ (u \in fetch.seen <=> u \in members)
        BY <2>3, <3>1, <3>2, <3>4 DEF RosterInv, Follows
      <4> QED BY <2>2, <3>2, <4>1
    <3> QED BY <3>3, <3>4
  <2> QED BY <2>4, <2>7, <2>8 DEF RosterInv
<1>5. CASE Reidentify
  <2>1. /\ gateway' = <<>> /\ UNCHANGED <<members, roster, fetch>>
        /\ missed' = missed \cup {gateway[i].who : i \in DOMAIN gateway}
    BY <1>5 DEF Reidentify
  <2>2. \A u \in Viewed : ~ Pending(u)'
    BY <2>1 DEF Pending
  <2>3. \A u \in Viewed \ missed' : ~ Pending(u) /\ u \notin missed
    BY <2>1 DEF Pending
  <2> QED BY <2>1, <2>2, <2>3 DEF RosterInv, Follows
<1>6. CASE Answers
  <2>1. /\ fetch' = [fetch EXCEPT !.seen = members, !.answered = TRUE]
        /\ UNCHANGED <<members, gateway, roster, missed>>
    BY <1>6 DEF Answers
  <2>2. fetch'.seen = members
    BY <1>1, <2>1 DEF GuildFits, Fetches
  <2>3. \A u \in Viewed : (Pending(u)' <=> Pending(u)) /\ (Joining(u)' <=> Joining(u))
    BY <2>1 DEF Pending, Joining
  <2> QED BY <2>1, <2>2, <2>3 DEF RosterInv, Follows
<1>7. CASE Restart
  <2>1. gateway' = <<>> /\ roster'.age = "none" /\ ~ fetch'.answered
    BY <1>7 DEF Restart, NoFetch
  <2>2. \A u \in Viewed : ~ Pending(u)'
    BY <2>1 DEF Pending
  <2> QED BY <2>1, <2>2 DEF RosterInv
<1>8. ASSUME NEW p \in Panels, Open(p) \/ Draw(p) \/ Fetched(p) \/ FetchFails(p)
      PROVE  RosterInv'
  <2>1. /\ UNCHANGED <<members, gateway, missed>>
        /\ UNCHANGED fetch \/ ~ fetch'.answered
        /\ UNCHANGED roster \/ (fetch.answered /\ roster' = [age |-> "fresh", who |-> fetch.seen])
    BY <1>8, RosterFits
  <2>2. CASE UNCHANGED roster
    BY <1>2, <2>1, <2>2
  <2>3. CASE fetch.answered /\ roster' = [age |-> "fresh", who |-> fetch.seen]
    <3>1. \A u \in Viewed : (Pending(u)' <=> Pending(u)) /\ (Joining(u)' <=> Joining(u))
      BY <2>1 DEF Pending, Joining
    <3>2. roster'.who = fetch.seen
      BY <2>3
    <3>3. fetch'.answered => fetch'.seen = fetch.seen
      BY <2>1
    <3>4. Follows(fetch.seen)
      BY <2>3 DEF RosterInv
    <3>5. \A S : S = fetch.seen =>
            \A u \in Viewed \ missed' : ~ Pending(u)' => (u \in S <=> u \in members')
      BY <2>1, <3>1, <3>4 DEF Follows
    <3>6. \A u \in Viewed : Pending(u)' => (Joining(u)' <=> u \in members')
      BY <2>1, <3>1 DEF RosterInv
    <3> QED BY <3>2, <3>3, <3>5, <3>6 DEF RosterInv, Follows
  <2> QED BY <2>1, <2>2, <2>3
<1>9. CASE RosterAges
  <2>1. /\ UNCHANGED <<members, gateway, missed, fetch>>
        /\ roster.age = "fresh" /\ roster' = [roster EXCEPT !.age = "old"]
    BY <1>9 DEF RosterAges
  <2>2. roster'.who = roster.who
    BY <1>1, <2>1 DEF GuildFits, Rosters
  <2> QED BY <1>2, <2>1, <2>2
<1>10. CASE UNCHANGED memberVars
  BY <1>2, <1>10 DEF memberVars
<1>11. ASSUME NEW p \in Panels, PanelStep(p) \/ JobStep(p) PROVE RosterInv'
  BY <1>8, <1>10, <1>11
  DEF PanelStep, JobStep, ReadCopy, Warm, Schedule, ReadRedis, JobReads, JobAsks, JobStores,
      JobWarms, JobEnds, JobLooks
<1>12. ASSUME NEW u \in Viewed, Expires(u) \/ CopyAges(u) \/ Play(u) PROVE RosterInv'
  BY <1>10, <1>12 DEF Expires, CopyAges, Play
<1>13. CASE UNCHANGED panelVars
  BY <1>10, <1>13 DEF panelVars
<1> QED BY <1>3, <1>4, <1>5, <1>6, <1>7, <1>9, <1>11, <1>12, <1>13 DEF PanelsNext

-----------------------------------------------------------------------------
(* The statistics.                                                          *)

\* What the step of one panel, or of its refresh, has to respect.
Takes(p, x) == InHand(p, x) \/ (redis[x] = Missing /\ \A q \in Panels : ~ InHand(q, x))
WarmRight(p, x) ==
  /\ panel[p].x = x /\ panel[p].at = "warm" => panel[p].held = copy[x].stats
  /\ job[p].x = x /\ job[p].at = "warm" => job[p].held = copy[x].stats
WritesRight(p, x) ==
  \/ redis'[x] \in {redis[x], Missing} /\ copy'[x].stats = copy[x].stats
  \/ redis'[x] = redis[x] /\ InHand(p, x)
  \/ /\ redis'[x] = copy[x].stats /\ copy'[x].stats = copy[x].stats
     /\ InHand(p, x) /\ ~ InHand(p, x)'
OthersStay(p) == \A q \in Panels \ {p} : panel'[q] = panel[q] /\ job'[q] = job[q]

LEMMA StatsKept ==
  ASSUME StatsInv, NEW p \in Panels, OthersStay(p), shared \subseteq shared',
         \A x \in Viewed \ shared' :
            (InHand(p, x)' => Takes(p, x)) /\ WritesRight(p, x) /\ WarmRight(p, x)'
  PROVE  StatsInv'
<1>1. ASSUME NEW x \in Viewed \ shared'
      PROVE  /\ \A q, r \in Panels : InHand(q, x)' /\ InHand(r, x)' => q = r
             /\ Agrees(x)'
  <2>1. /\ x \in Viewed \ shared /\ (InHand(p, x)' => Takes(p, x))
        /\ WritesRight(p, x) /\ WarmRight(p, x)'
    BY <1>1
  <2>2. \A q, r \in Panels : InHand(q, x) /\ InHand(r, x) => q = r
    BY <2>1 DEF StatsInv, InOneHand
  <2>3. Agrees(x)
    BY <2>1 DEF StatsInv
  <2>4. \A q \in Panels \ {p} : InHand(q, x)' <=> InHand(q, x)
    BY DEF OthersStay, InHand
  <2>5. \A q \in Panels \ {p} : InHand(p, x)' => ~ InHand(q, x)'
    BY <2>1, <2>2, <2>4 DEF Takes
  <2>6. \A q, r \in Panels : InHand(q, x)' /\ InHand(r, x)' => q = r
    BY <2>2, <2>4, <2>5
  <2>7. ASSUME redis'[x] # Missing
        PROVE  redis'[x] = copy'[x].stats /\ \A q \in Panels : ~ InHand(q, x)'
    <3>1. CASE redis'[x] \in {redis[x], Missing} /\ copy'[x].stats = copy[x].stats
      <4>1. redis[x] # Missing /\ redis'[x] = redis[x]
        BY <2>7, <3>1
      <4>2. redis[x] = copy[x].stats /\ \A q \in Panels : ~ InHand(q, x)
        BY <2>3, <4>1 DEF Agrees
      <4>3. ~ InHand(p, x)'
        BY <2>1, <4>1, <4>2 DEF Takes
      <4> QED BY <2>4, <3>1, <4>1, <4>2, <4>3
    <3>2. CASE redis'[x] = redis[x] /\ InHand(p, x)
      BY <2>3, <2>7, <3>2 DEF Agrees
    <3>3. CASE /\ redis'[x] = copy[x].stats /\ copy'[x].stats = copy[x].stats
               /\ InHand(p, x) /\ ~ InHand(p, x)'
      BY <2>2, <2>4, <3>3
    <3> QED BY <2>1, <3>1, <3>2, <3>3 DEF WritesRight
  <2>8. ASSUME NEW q \in Panels PROVE WarmRight(q, x)'
    <3>1. CASE q = p
      BY <2>1, <3>1
    <3>2. CASE q # p
      <4>1. WarmRight(q, x) /\ panel'[q] = panel[q] /\ job'[q] = job[q]
        BY <2>3, <3>2 DEF Agrees, WarmRight, OthersStay
      <4>2. InHand(q, x) => copy'[x].stats = copy[x].stats
        BY <2>1, <2>2, <3>2 DEF WritesRight
      <4>3. (panel[q].x = x => InHand(q, x)) /\ (job[q].x = x => InHand(q, x))
        BY DEF InHand
      <4> QED BY <4>1, <4>2, <4>3 DEF WarmRight
    <3> QED BY <3>1, <3>2
  <2>9. Agrees(x)'
    BY <2>7, <2>8 DEF Agrees, WarmRight
  <2> QED BY <2>6, <2>9
<1> QED BY <1>1 DEF StatsInv, InOneHand

\* A step that lets go of everything, and one that only reads or holds on.
LEMMA TurnsKeep ==
  ASSUME PlayersPanelAssumption, PanelsTyped, StatsInv, NEW p \in Panels,
         UNCHANGED <<redis, copy>>, shared \subseteq shared',
         \/ PaneTurns(p) /\ UNCHANGED job
         \/ JobTurns(p) /\ UNCHANGED panel
  PROVE  StatsInv'
<1>1. panel \in [Panels -> Panes] /\ job \in [Panels -> Refreshes]
  BY DEF PanelsTyped, PanesFit
<1>2. OthersStay(p)
  BY <1>1 DEF PaneTurns, PaneBecomes, JobTurns, JobBecomes, OthersStay
<1>3. \/ panel'[p].x = Nobody /\ job'[p] = job[p]
      \/ job'[p].x = Nobody /\ panel'[p] = panel[p]
  BY <1>1 DEF PaneTurns, PaneBecomes, JobTurns, JobBecomes
<1>4. ASSUME NEW x \in Viewed \ shared'
      PROVE  (InHand(p, x)' => Takes(p, x)) /\ WritesRight(p, x) /\ WarmRight(p, x)'
  <2>1. x # Nobody /\ WarmRight(p, x)
    BY DEF PlayersPanelAssumption, StatsInv, Agrees, WarmRight
  <2>2. InHand(p, x)' => Takes(p, x)
    BY <1>3, <2>1 DEF InHand, Takes
  <2>3. WarmRight(p, x)'
    BY <1>3, <2>1 DEF WarmRight
  <2>4. WritesRight(p, x)
    BY DEF WritesRight
  <2> QED BY <2>2, <2>3, <2>4
<1> QED BY <1>2, <1>4, StatsKept

LEMMA NothingInHand ==
  ASSUME PanelsTyped, PlayersPanelAssumption, NEW p \in Panels
  PROVE  /\ panel[p].at \in {"stats", "copy", "warm"} => job[p].x = Nobody
         /\ panel[p].at = "stats" => panel[p].x = Nobody
         /\ job[p].at # "none" => panel[p].x = Nobody
         /\ job[p].at = "stats" => job[p].x = Nobody
<1>1. PaneFits(panel[p], job[p]) /\ JobFits(job[p])
  BY DEF PanelsTyped, PanelsFit
<1> QED BY <1>1 DEF PaneFits, JobFits

\* A profile nobody has in hand is taken; so is one that is shared from now on.
LEMMA TakesKeep ==
  ASSUME PlayersPanelAssumption, PanelsTyped, StatsInv, NEW p \in Panels, NEW x \in Viewed,
         UNCHANGED <<redis, copy>>, Lapping(x, p), redis[x] = Missing,
         \/ /\ panel[p].at = "stats" /\ UNCHANGED job
            /\ \E v \in Panes : PaneBecomes(p, v) /\ v.x = x /\ v.at = "copy"
         \/ /\ job[p].at = "stats" /\ UNCHANGED panel
            /\ \E w \in Refreshes : JobBecomes(p, w) /\ w.x = x /\ w.at = "copy"
  PROVE  StatsInv'
<1>1. panel \in [Panels -> Panes] /\ job \in [Panels -> Refreshes]
  BY DEF PanelsTyped, PanesFit
<1>2. OthersStay(p) /\ shared \subseteq shared'
  BY <1>1 DEF PaneBecomes, JobBecomes, OthersStay, Lapping
<1>3. panel[p].x = Nobody /\ job[p].x = Nobody
  <2>1. CASE panel[p].at = "stats"
    BY <2>1, NothingInHand
  <2>2. CASE job[p].at = "stats"
    BY <2>2, NothingInHand
  <2> QED BY <2>1, <2>2
<1>4. \/ panel'[p].x = x /\ panel'[p].at = "copy" /\ job'[p].x = Nobody
      \/ job'[p].x = x /\ job'[p].at = "copy" /\ panel'[p].x = Nobody
  BY <1>1, <1>3 DEF PaneBecomes, JobBecomes
<1>5. ASSUME NEW y \in Viewed \ shared'
      PROVE  (InHand(p, y)' => Takes(p, y)) /\ WritesRight(p, y) /\ WarmRight(p, y)'
  <2>1. y # Nobody
    BY DEF PlayersPanelAssumption
  <2>2. InHand(p, y)' => y = x
    BY <1>4, <2>1 DEF InHand
  <2>3. y = x => Takes(p, y)
    <3>1. ASSUME y = x PROVE \A q \in Panels : ~ InHand(q, x)
      <4>1. ~ Shared(x, p)
        BY <1>5, <3>1 DEF Lapping
      <4>2. ~ InHand(p, x)
        BY <1>3, <2>1, <3>1 DEF InHand
      <4> QED BY <4>1, <4>2 DEF Shared, InHand
    <3> QED BY <3>1 DEF Takes
  <2>4. WarmRight(p, y)'
    BY <1>4, <2>1 DEF WarmRight
  <2>5. WritesRight(p, y)
    BY DEF WritesRight
  <2> QED BY <2>2, <2>3, <2>4, <2>5
<1> QED BY <1>2, <1>5, StatsKept

LEMMA PanesKeep ==
  ASSUME PlayersPanelAssumption, PanelsTyped, StatsInv, NEW p \in Panels, PanelStep(p)
  PROVE  StatsInv'
<1>1. CASE Open(p) \/ Draw(p) \/ Fetched(p) \/ FetchFails(p)
  <2>1. PaneTurns(p) /\ UNCHANGED <<statVars, job>>
    BY <1>1, RosterFits
  <2> QED BY <2>1, TurnsKeep DEF statVars
<1>2. ASSUME NEW x \in Viewed, ReadRedis(p, x) PROVE StatsInv'
  <2>1. UNCHANGED <<redis, copy, job>> /\ panel[p].at = "stats"
    BY <1>2 DEF ReadRedis
  <2>2. CASE PaneTurns(p) /\ UNCHANGED shared
    BY <2>1, <2>2, TurnsKeep
  <2>3. CASE /\ \E v \in Panes : PaneBecomes(p, v) /\ v.x = x /\ v.at = "copy"
             /\ redis[x] = Missing /\ Lapping(x, p)
    BY <2>1, <2>3, TakesKeep
  <2> QED BY <1>2, <2>2, <2>3, ReadRedisTurns
<1>3. CASE ReadCopy(p)
  <2>1. UNCHANGED <<redis, copy, shared, job>> /\ panel[p].at = "copy"
    BY <1>3 DEF ReadCopy, statVars
  <2>2. CASE PaneTurns(p)
    BY <2>1, <2>2, TurnsKeep
  <2>3. ASSUME NEW v \in Panes, PaneBecomes(p, v), v.x = panel[p].x,
               v.held = copy[panel[p].x].stats
        PROVE  StatsInv'
    <3>1. panel \in [Panels -> Panes] /\ job[p].x = Nobody
      BY <2>1, NothingInHand DEF PanelsTyped, PanesFit
    <3>2. OthersStay(p) /\ panel'[p] = v /\ job'[p] = job[p]
      BY <2>1, <2>3, <3>1 DEF PaneBecomes, OthersStay
    <3>3. ASSUME NEW x \in Viewed \ shared'
          PROVE  (InHand(p, x)' => Takes(p, x)) /\ WritesRight(p, x) /\ WarmRight(p, x)'
      <4>1. x # Nobody
        BY DEF PlayersPanelAssumption
      <4>2. InHand(p, x)' => Takes(p, x)
        BY <2>3, <3>2 DEF InHand, Takes
      <4>3. WarmRight(p, x)'
        BY <2>1, <2>3, <3>1, <3>2, <4>1 DEF WarmRight
      <4> QED BY <2>1, <4>2, <4>3 DEF WritesRight
    <3> QED BY <2>1, <3>2, <3>3, StatsKept
  <2> QED BY <1>3, <2>2, <2>3, ReadCopyTurns
<1>4. CASE Warm(p)
  <2>1. /\ UNCHANGED <<copy, shared, job>> /\ panel[p].at = "warm"
        /\ redis' = redis \/ redis' = [redis EXCEPT ![panel[p].x] = panel[p].held]
    BY <1>4 DEF Warm
  <2>2. PaneTurns(p) /\ panel \in [Panels -> Panes] /\ job[p].x = Nobody /\ StatsFit
    BY <1>4, <2>1, WarmTurns, NothingInHand DEF PanelsTyped, PanesFit
  <2>3. OthersStay(p) /\ panel'[p].x = Nobody /\ job'[p].x = Nobody
    BY <2>1, <2>2 DEF PaneTurns, PaneBecomes, OthersStay
  <2>4. ASSUME NEW x \in Viewed \ shared'
        PROVE  (InHand(p, x)' => Takes(p, x)) /\ WritesRight(p, x) /\ WarmRight(p, x)'
    <3>1. x # Nobody /\ WarmRight(p, x)
      BY <2>1 DEF PlayersPanelAssumption, StatsInv, Agrees, WarmRight
    <3>2. ~ InHand(p, x)' /\ WarmRight(p, x)'
      BY <2>3, <3>1 DEF InHand, WarmRight
    <3>3. WritesRight(p, x)
      <4>1. CASE panel[p].x = x
        <5>1. InHand(p, x) /\ panel[p].held = copy[x].stats
          BY <2>1, <3>1, <4>1 DEF InHand, WarmRight
        <5>2. redis'[x] \in {redis[x], panel[p].held}
          BY <2>1, <2>2, <4>1 DEF StatsFit
        <5> QED BY <2>1, <3>2, <5>1, <5>2 DEF WritesRight
      <4>2. CASE panel[p].x # x
        BY <2>1, <2>2, <4>2 DEF WritesRight, StatsFit
      <4> QED BY <4>1, <4>2
    <3> QED BY <3>2, <3>3
  <2> QED BY <2>1, <2>3, <2>4, StatsKept
<1>5. CASE Schedule(p)
  <2>1. UNCHANGED <<redis, copy, shared>>
    BY <1>5 DEF Schedule, statVars
  <2>2. panel \in [Panels -> Panes] /\ job \in [Panels -> Refreshes]
    BY DEF PanelsTyped, PanesFit
  <2>3. OthersStay(p) /\ panel'[p].x = Nobody /\ job'[p].x = Nobody
    BY <1>5, <2>2, ScheduleTurns DEF OthersStay
  <2>4. ASSUME NEW x \in Viewed \ shared'
        PROVE  (InHand(p, x)' => Takes(p, x)) /\ WritesRight(p, x) /\ WarmRight(p, x)'
    <3>1. x # Nobody
      BY DEF PlayersPanelAssumption
    <3> QED BY <2>1, <2>3, <3>1 DEF InHand, WritesRight, WarmRight
  <2> QED BY <2>1, <2>3, <2>4, StatsKept
<1> QED BY <1>1, <1>2, <1>3, <1>4, <1>5 DEF PanelStep

\* A refresh that holds on to its profile, and may store the copy of it.
LEMMA JobHoldsKeep ==
  ASSUME PlayersPanelAssumption, PanelsTyped, StatsInv, NEW p \in Panels, NEW w \in Refreshes,
         JobBecomes(p, w), w.x = job[p].x, job[p].at # "none", UNCHANGED <<redis, panel>>,
         shared \subseteq shared',
         \A x \in Viewed \ shared' :
            /\ copy'[x].stats = copy[x].stats \/ x = job[p].x
            /\ w.x = x /\ w.at = "warm" => w.held = copy'[x].stats
  PROVE  StatsInv'
<1>1. job \in [Panels -> Refreshes] /\ panel[p].x = Nobody
  BY NothingInHand DEF PanelsTyped, PanesFit
<1>2. OthersStay(p) /\ job'[p] = w /\ panel'[p].x = Nobody
  BY <1>1 DEF JobBecomes, OthersStay
<1>3. ASSUME NEW x \in Viewed \ shared'
      PROVE  (InHand(p, x)' => Takes(p, x)) /\ WritesRight(p, x) /\ WarmRight(p, x)'
  <2>1. x # Nobody
    BY DEF PlayersPanelAssumption
  <2>2. InHand(p, x)' => InHand(p, x)
    BY <1>2, <2>1 DEF InHand
  <2>3. WarmRight(p, x)'
    BY <1>2, <2>1 DEF WarmRight
  <2>4. WritesRight(p, x)
    BY <1>3 DEF WritesRight, InHand
  <2> QED BY <2>2, <2>3, <2>4 DEF Takes
<1> QED BY <1>2, <1>3, StatsKept

LEMMA JobsKeep ==
  ASSUME PlayersPanelAssumption, PanelsTyped, StatsInv, NEW p \in Panels, JobStep(p)
  PROVE  StatsInv'
<1>1. UNCHANGED panel
  BY DEF JobStep, JobReads, JobAsks, JobStores, JobWarms, JobEnds, JobLooks
<1>2. ASSUME NEW x \in Viewed, JobLooks(p, x) PROVE StatsInv'
  <2>1. UNCHANGED <<redis, copy, panel>> /\ job[p].at = "stats"
    BY <1>2 DEF JobLooks
  <2>2. CASE JobTurns(p) /\ UNCHANGED shared
    BY <2>1, <2>2, TurnsKeep
  <2>3. CASE /\ \E w \in Refreshes : JobBecomes(p, w) /\ w.x = x /\ w.at = "copy"
             /\ redis[x] = Missing /\ Lapping(x, p)
    BY <2>1, <2>3, TakesKeep
  <2> QED BY <1>2, <2>2, <2>3, JobLooksTurns
<1>3. CASE JobReads(p)
  <2>1. UNCHANGED <<redis, copy, shared>> /\ job[p].at = "copy"
    BY <1>3 DEF JobReads, statVars
  <2>2. PICK w \in Refreshes :
          /\ JobBecomes(p, w) /\ w.x = job[p].x
          /\ w.at = "warm" => w.held = copy[w.x].stats
    BY <1>3, JobReadsTurns
  <2> QED BY <1>1, <2>1, <2>2, JobHoldsKeep
<1>4. CASE JobAsks(p)
  <2>1. UNCHANGED <<redis, copy, shared>> /\ job[p].at = "provider"
    BY <1>4 DEF JobAsks, statVars
  <2>2. CASE JobTurns(p)
    BY <1>1, <2>1, <2>2, TurnsKeep
  <2>3. ASSUME NEW w \in Refreshes, JobBecomes(p, w), w.x = job[p].x, w.at = "store"
        PROVE  StatsInv'
    BY <1>1, <2>1, <2>3, JobHoldsKeep
  <2> QED BY <1>4, <2>2, <2>3, JobAsksTurns
<1>5. CASE JobStores(p)
  <2>1. /\ UNCHANGED redis /\ job[p].at = "store"
        /\ \/ /\ copy' = [copy EXCEPT ![job[p].x] = [stats |-> job[p].held, old |-> FALSE]]
              /\ UNCHANGED shared
           \/ shared' = shared \cup {job[p].x} /\ UNCHANGED copy
    BY <1>5 DEF JobStores
  <2>2. PICK w \in Refreshes :
          /\ JobBecomes(p, w) /\ w.x = job[p].x
          /\ w.at = "warm" /\ w.held = job[p].held
    BY <1>5, JobStoresTurns
  <2>3. StatsFit
    BY DEF PanelsTyped
  <2>4. ASSUME NEW x \in Viewed \ shared'
        PROVE  /\ copy'[x].stats = copy[x].stats \/ x = job[p].x
               /\ w.x = x => w.held = copy'[x].stats
    <3>1. CASE UNCHANGED copy /\ shared' = shared \cup {job[p].x}
      BY <2>2, <2>4, <3>1
    <3>2. CASE copy' = [copy EXCEPT ![job[p].x] = [stats |-> job[p].held, old |-> FALSE]]
      BY <2>2, <2>3, <3>2 DEF StatsFit
    <3> QED BY <2>1, <3>1, <3>2
  <2>5. shared \subseteq shared'
    BY <2>1
  <2> QED BY <1>1, <2>1, <2>2, <2>4, <2>5, JobHoldsKeep
<1>6. CASE JobWarms(p)
  <2>1. /\ UNCHANGED <<copy, shared>> /\ job[p].at = "warm"
        /\ redis' = redis \/ redis' = [redis EXCEPT ![job[p].x] = job[p].held]
    BY <1>6 DEF JobWarms
  <2>2. JobTurns(p) /\ job \in [Panels -> Refreshes] /\ panel[p].x = Nobody /\ StatsFit
    BY <1>6, <2>1, JobWarmsTurns, NothingInHand DEF PanelsTyped, PanesFit
  <2>3. OthersStay(p) /\ job'[p].x = Nobody /\ panel'[p].x = Nobody
    BY <1>1, <2>2 DEF JobTurns, JobBecomes, OthersStay
  <2>4. ASSUME NEW x \in Viewed \ shared'
        PROVE  (InHand(p, x)' => Takes(p, x)) /\ WritesRight(p, x) /\ WarmRight(p, x)'
    <3>1. x # Nobody /\ WarmRight(p, x)
      BY <2>1 DEF PlayersPanelAssumption, StatsInv, Agrees, WarmRight
    <3>2. ~ InHand(p, x)' /\ WarmRight(p, x)'
      BY <2>3, <3>1 DEF InHand, WarmRight
    <3>3. WritesRight(p, x)
      <4>1. CASE job[p].x = x
        <5>1. InHand(p, x) /\ job[p].held = copy[x].stats
          BY <2>1, <3>1, <4>1 DEF InHand, WarmRight
        <5>2. redis'[x] \in {redis[x], job[p].held}
          BY <2>1, <2>2, <4>1 DEF StatsFit
        <5> QED BY <2>1, <3>2, <5>1, <5>2 DEF WritesRight
      <4>2. CASE job[p].x # x
        BY <2>1, <2>2, <4>2 DEF WritesRight, StatsFit
      <4> QED BY <4>1, <4>2
    <3> QED BY <3>2, <3>3
  <2> QED BY <2>1, <2>3, <2>4, StatsKept
<1>7. CASE JobEnds(p)
  <2>1. UNCHANGED <<redis, copy, shared>>
    BY <1>7 DEF JobEnds, statVars
  <2> QED BY <1>1, <1>7, <2>1, JobEndsTurns, TurnsKeep
<1> QED BY <1>2, <1>3, <1>4, <1>5, <1>6, <1>7 DEF JobStep

\* Nobody's step: entries expire, copies grow old, all hands are emptied.
LEMMA NobodyKeeps ==
  ASSUME StatsInv, UNCHANGED shared,
         \A x \in Viewed : redis'[x] \in {redis[x], Missing} /\ copy'[x].stats = copy[x].stats,
         \A q \in Panels :
            \/ panel'[q] = panel[q] /\ job'[q] = job[q]
            \/ \A x \in Viewed : ~ InHand(q, x)'
  PROVE  StatsInv'
<1>1. \A q \in Panels, x \in Viewed : InHand(q, x)' => InHand(q, x)
  BY DEF InHand
<1>2. ASSUME NEW x \in Viewed \ shared PROVE Agrees(x)'
  <2>1. Agrees(x)
    BY DEF StatsInv
  <2>2. redis'[x] # Missing => redis'[x] = copy'[x].stats /\ \A q \in Panels : ~ InHand(q, x)'
    BY <1>1, <2>1 DEF Agrees
  <2>3. ASSUME NEW q \in Panels PROVE WarmRight(q, x)'
    <3>1. CASE panel'[q] = panel[q] /\ job'[q] = job[q]
      BY <2>1, <3>1 DEF Agrees, WarmRight
    <3>2. CASE ~ InHand(q, x)'
      BY <3>2 DEF InHand, WarmRight
    <3> QED BY <3>1, <3>2
  <2> QED BY <2>2, <2>3 DEF Agrees, WarmRight
<1>3. InOneHand'
  BY <1>1 DEF StatsInv, InOneHand
<1> QED BY <1>2, <1>3 DEF StatsInv

LEMMA StatsStep ==
  ASSUME PlayersPanelAssumption, PanelsTyped, StatsInv, [PanelsNext]_panelVars
  PROVE  StatsInv'
<1>1. CASE UNCHANGED <<redis, copy, shared, panel, job>>
  BY <1>1, NobodyKeeps
<1>2. CASE Restart
  <2>1. /\ UNCHANGED <<redis, copy, shared>> /\ Nobody \notin Viewed
        /\ \A q \in Panels : panel'[q] = Closed /\ job'[q] = NoJob
    BY <1>2 DEF Restart, statVars, PlayersPanelAssumption
  <2>2. \A q \in Panels, x \in Viewed : ~ InHand(q, x)'
    BY <2>1 DEF InHand, Closed, NoJob
  <2> QED BY <2>1, <2>2, NobodyKeeps
<1>3. ASSUME NEW u \in Viewed, Expires(u) \/ CopyAges(u) PROVE StatsInv'
  <2>1. UNCHANGED <<shared, panel, job>> /\ StatsFit
    BY <1>3 DEF Expires, CopyAges, PanelsTyped
  <2>2. ASSUME NEW x \in Viewed
        PROVE  redis'[x] \in {redis[x], Missing} /\ copy'[x].stats = copy[x].stats
    <3>1. CASE Expires(u)
      BY <2>1, <3>1 DEF Expires, StatsFit
    <3>2. CASE CopyAges(u)
      BY <2>1, <3>2 DEF CopyAges, StatsFit
    <3> QED BY <1>3, <3>1, <3>2
  <2> QED BY <2>1, <2>2, NobodyKeeps
<1>4. ASSUME NEW u \in Viewed, Move(u) \/ Play(u) PROVE StatsInv'
  BY <1>1, <1>4 DEF Move, Play, statVars
<1>5. CASE Deliver \/ Reidentify \/ RosterAges \/ Answers
  BY <1>1, <1>5 DEF Deliver, Reidentify, RosterAges, Answers, statVars
<1>6. CASE UNCHANGED panelVars
  BY <1>1, <1>6 DEF panelVars, statVars
<1>7. ASSUME NEW p \in Panels, PanelStep(p) \/ JobStep(p) PROVE StatsInv'
  BY <1>7, PanesKeep, JobsKeep
<1> QED BY <1>2, <1>3, <1>4, <1>5, <1>6, <1>7 DEF PanelsNext

LEMMA PanelsInvInit == ASSUME PlayersPanelAssumption, PanelsInit PROVE RosterInv /\ StatsInv
<1>1. RosterInv
  BY DEF PanelsInit, RosterInv, Pending, NoFetch
<1>2. \A p \in Panels, x \in Viewed : ~ InHand(p, x)
  BY DEF PanelsInit, InHand, Closed, NoJob, PlayersPanelAssumption
<1>3. \A x \in Viewed : redis[x] = Missing
  BY DEF PanelsInit
<1>4. StatsInv
  BY <1>2, <1>3 DEF StatsInv, InOneHand, Agrees, InHand
<1> QED BY <1>1, <1>4

\* Whatever overlaps, fails or is restarted (member_cache, ProfileStatsService):
\* the cached roster is that of the guild once the events under way arrived, for
\* every user none of whose events fell into a fetch or was lost; and Redis
\* serves the statistics that MongoDB holds of every profile that two readers
\* never worked on at once and whose writes succeeded.
THEOREM PanelsFollowSources == PanelsSpec => []PanelsFollow
<1> DEFINE Inv == PanelsTyped /\ RosterInv /\ StatsInv
<1>1. PanelsInit => Inv
  BY PanelsTypedInit, PanelsInvInit, PlayersPanelAssumption
<1>2. Inv /\ [PanelsNext]_panelVars => Inv'
  BY PanelsTypedStep, RosterStep, StatsStep, PlayersPanelAssumption
<1>3. Inv => PanelsFollow
  <2>1. ASSUME Inv PROVE RosterFollows
    BY <2>1 DEF RosterFollows, RosterInv, Follows, Heard
  <2>2. ASSUME Inv PROVE StatsAgree
    <3>1. DOMAIN redis = Viewed
      BY <2>2 DEF PanelsTyped, StatsFit
    <3> QED BY <2>2, <3>1 DEF StatsAgree, StatsInv, Agrees
  <2> QED BY <2>1, <2>2 DEF PanelsFollow
<1> QED BY <1>1, <1>2, <1>3, PTL DEF PanelsSpec

=============================================================================
