----------------------------- MODULE MCGameData -----------------------------
(* GameData with one caller.                                                 *)
EXTENDS GameData

=============================================================================
