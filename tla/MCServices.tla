----------------------------- MODULE MCServices -----------------------------
(***************************************************************************)
(* Model-checking instance of three components that must settle: the sync  *)
(* of the enrollments, the live feed and a managed channel.  They share no *)
(* state, so each behaviour is one of a single component, the other two    *)
(* keeping their initial states.                                           *)
(***************************************************************************)
EXTENDS EnrollmentSync, LiveFeed, ManagedChannel

VARIABLE running   \* the component whose behaviour this is

allVars == <<syncVars, feedVars, channelVars, running>>

Init ==
  /\ SyncInit /\ FeedInit /\ ChannelInit
  /\ running \in {"sync", "feed", "channel"}

Next ==
  /\ UNCHANGED running
  /\ \/ running = "sync" /\ SyncNext /\ UNCHANGED <<feedVars, channelVars>>
     \/ running = "feed" /\ FeedNext /\ UNCHANGED <<syncVars, channelVars>>
     \/ running = "channel" /\ ChannelNext /\ UNCHANGED <<syncVars, feedVars>>

\* The fairness of each component, in its own behaviours.
Sync(A) == running = "sync" /\ A
Feed(A) == running = "feed" /\ A
Channel(A) == running = "channel" /\ A

Spec ==
  /\ Init /\ [][Next]_allVars
  /\ WF_syncVars(Sync(Load)) /\ WF_syncVars(Sync(Rest)) /\ WF_syncVars(Sync(Push))
  /\ WF_syncVars(Sync(Subscribed)) /\ WF_syncVars(Sync(SessionOpens))
  /\ WF_feedVars(Feed(Connect)) /\ WF_feedVars(Feed(Shake)) /\ WF_feedVars(Feed(Subscribe))
  /\ WF_feedVars(Feed(Handle)) /\ WF_feedVars(Feed(Written)) /\ WF_feedVars(Feed(ProviderUp))
  /\ WF_channelVars(Channel(Expire)) /\ \A c \in Callers : WF_channelVars(Channel(Continue(c)))

-----------------------------------------------------------------------------
\* The sync brings the bindings to the game service and to the provider.
SyncSettles == running = "sync" => BindingsFollow
=============================================================================
