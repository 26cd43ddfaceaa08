---------------------------- MODULE MCLiveCards -----------------------------
(* LiveCards with every player in every guild. *)
EXTENDS LiveCards

AllMembers == [g \in Guilds |-> Players]
=============================================================================
