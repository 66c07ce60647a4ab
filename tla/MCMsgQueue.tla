----------------------------- MODULE MCMsgQueue -----------------------------
(* TLC instance of MsgQueue: three threads, two message values and three    *)
(* slots, so that the ring wraps, fills, drains and refills at every offset *)
(* while callers wait for the mutex.                                        *)
EXTENDS MsgQueue, TLC

Symmetry == Permutations(Threads) \cup Permutations(Msgs)
=============================================================================
