--------------------------- MODULE MCLobbyAdapter ---------------------------
(* Model-checking instances of LobbyAdapter.                                 *)
EXTENDS LobbyAdapter
CONSTANTS p1, p2, m1, m2

MCBounds == [snapshots |-> [matches |-> {m1, m2}, players |-> {p1, p2}, moves |-> 5],
             everything |-> [matches |-> {m1}, players |-> {p1}, moves |-> 3]]
=============================================================================
