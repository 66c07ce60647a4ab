---------------------------- MODULE MCBlockRun -----------------------------
(* TLC instances of BlockRun: MCBlockBatches has one run and more addresses  *)
(* of each family than a command takes; MCBlockConcurrent has two runs.      *)
EXTENDS BlockRun, TLC

CONSTANTS a1, a2, a3, b1, b2, b3

\* One offense is allowed to all but one address, which is whitelisted.
MCAllowed == [a \in Addrs |-> IF a = a3 THEN -1 ELSE 1]
Symmetry == {p @@ q : p \in Permutations({a1, a2}), q \in Permutations({b1, b2, b3})}
=============================================================================
