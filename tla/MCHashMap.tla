----------------------------- MODULE MCHashMap -----------------------------
(* TLC instance of HashMap: two keys share a bucket, one of them holds two   *)
(* items, and five nodes outgrow the four slots a bucket begins with; a      *)
(* third key is only asked for.                                              *)
EXTENDS HashMap, TLC

CONSTANTS x, y, n1, n2, n3, n4, n5
MCKeys == {"a", "b", "c"}
MCHash == [k \in MCKeys |-> IF k = "c" THEN 1 ELSE 2]
\* Each address always gets the same pair: which one malloc() returns is
\* all the same to the table.
MCInserts ==
  {<<"a", x, n1>>, <<"a", x, n2>>, <<"a", y, n3>>, <<"b", x, n4>>, <<"b", x, n5>>}
Id == [a \in {n1, n2, n3, n4, n5} |-> a]
Symmetry ==
  {[a \in {n1, n2, n3, n4, n5} |-> p[q[a]]] :
     p \in {[Id EXCEPT ![n1] = n2, ![n2] = n1], Id},
     q \in {[Id EXCEPT ![n4] = n5, ![n5] = n4], Id}}
=============================================================================
