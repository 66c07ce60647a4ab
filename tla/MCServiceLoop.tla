--------------------------- MODULE MCServiceLoop ----------------------------
(* TLC instance of ServiceLoop: two addresses, of which the second matches   *)
(* two targets of one configuration and none of the other.                   *)
EXTENDS ServiceLoop

CONSTANTS x, y
MCPatterns == {(x :> 1) @@ (y :> n) : n \in {0, 2}}
MCBacklog == {<<y>>}
=============================================================================
