---------------------------- MODULE MCMapSource ----------------------------
(***************************************************************************)
(* Model-checking instance of the source of the maps, for what the code    *)
(* says of its open circuit: two callers, an import and an enrichment.     *)
(***************************************************************************)
EXTENDS MapSource

OneRequest == [import |-> <<"parse">>, sync |-> <<"query">>]
TwoAndOne == [parse |-> 2, query |-> 1]
=============================================================================
