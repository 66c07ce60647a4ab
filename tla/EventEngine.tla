---------------------------- MODULE EventEngine ----------------------------
(***************************************************************************)
(* The part of es.c through which threads reach one another: Unix signals  *)
(* noted by a handler in a thread-local set, ES_run()'s poll loop that     *)
(* tests the set only after poll() has returned, and virtual signals: a    *)
(* bounded queue of numbers per thread, multiplexed on SIGUSR2.            *)
(*                                                                         *)
(* The module gives the steps of a thread in terms of its program counter. *)
(* A module that EXTENDS it adds the callbacks and composes the steps into *)
(* a specification; Pdns does.  The queue is the FIFO that MsgQueue is     *)
(* proved to implement.                                                    *)
(***************************************************************************)
EXTENDS Integers, Sequences

CONSTANTS None,       \* "no thread", "no entry"
          VsigMax     \* VSIG_QUEUE_MAX

VARIABLES pc,         \* where each thread is
          sigs,       \* TS.sigsRaised of each thread: signals noted, not yet served
          mq,         \* TS.vsig.mq of each thread
          registered, \* the threads in S.vsig.thrd_ts_map
          vsigMtx,    \* the thread that holds S.vsig.mtx inside ES_VSignal(), or None
          call        \* the ES_VSignal() call each thread is in

esVars == <<pc, sigs, mq, registered, vsigMtx, call>>

\* A thread outside ES_VSignal(), and one that calls it from a handler which
\* continues at ret.
NoCall == [to |-> None, vsig |-> -1, ret |-> "none"]
VSignalTo(d, v, ret) == [to |-> d, vsig |-> v, ret |-> ret]

---------------------------------------------------------------------------
(* Unix signals.  The handler only notes the signal; if it interrupted     *)
(* poll(), poll() fails with EINTR and ES_run() goes on to serve signals.  *)
(* A signal that arrives at any other point wakes nobody.                  *)

Woken(pcs, t) == IF pcs[t] = "poll" THEN [pcs EXCEPT ![t] = "usr2"] ELSE pcs

\* UnixSignalHandler() runs in thread d while the sender goes to pcs.
Raise(pcs, d, s) ==
  /\ sigs' = [sigs EXCEPT ![d] = @ \cup {s}]
  /\ pc' = Woken(pcs, d)

At(t, to) == [pc EXCEPT ![t] = to]

\* abort() ends every thread.
Aborted == [t \in DOMAIN pc |-> "aborted"]

---------------------------------------------------------------------------
(* ES_run(): enter poll(), then serve SIGUSR2 (12) before SIGTERM (15).    *)

\* Nothing is tested between the end of one round and poll().
EnterPoll(t) ==
  /\ pc[t] = "run"
  /\ pc' = At(t, "poll")
  /\ UNCHANGED <<sigs, mq, registered, vsigMtx, call>>

\* SIGUSR2 is cleared before its handler runs, so that one raised meanwhile
\* is served by another round of the while loop.
ServeUsr2(t) ==
  /\ pc[t] = "usr2"
  /\ "USR2" \in sigs[t]
  /\ sigs' = [sigs EXCEPT ![t] = @ \ {"USR2"}]
  /\ pc' = At(t, "drain")
  /\ UNCHANGED <<mq, registered, vsigMtx, call>>

PassUsr2(t, next) ==
  /\ pc[t] = "usr2"
  /\ "USR2" \notin sigs[t]
  /\ pc' = At(t, next)
  /\ UNCHANGED <<sigs, mq, registered, vsigMtx, call>>

\* sigusr2_h() finds its queue empty and returns 0.
DrainEmpty(t) ==
  /\ pc[t] = "drain"
  /\ mq[t] = <<>>
  /\ pc' = At(t, "usr2")
  /\ UNCHANGED <<sigs, mq, registered, vsigMtx, call>>

\* sigusr2_h() extracts v and calls the callback that starts at to.
Drain(t, v, to) ==
  /\ pc[t] = "drain"
  /\ mq[t] # <<>>
  /\ v = Head(mq[t])
  /\ mq' = [mq EXCEPT ![t] = Tail(@)]
  /\ pc' = At(t, to)

---------------------------------------------------------------------------
(* ES_VSignal(): under S.vsig.mtx find the target's queue, submit, and     *)
(* pthread_kill(SIGUSR2).  Here and wherever else a queue is submitted to, *)
(* a full queue aborts the process.                                        *)

VSignalNotFound(t) ==
  /\ pc[t] = "vsig"
  /\ vsigMtx = None
  /\ call[t].to \notin registered
  /\ pc' = At(t, call[t].ret)
  /\ call' = [call EXCEPT ![t] = NoCall]
  /\ UNCHANGED <<sigs, mq, registered, vsigMtx>>

VSignalSubmit(t) ==
  /\ pc[t] = "vsig"
  /\ vsigMtx = None
  /\ call[t].to \in registered
  /\ mq' = [mq EXCEPT ![call[t].to] = Append(@, call[t].vsig)]
  /\ vsigMtx' = t
  /\ pc' = IF Len(mq[call[t].to]) < VsigMax THEN At(t, "kill") ELSE Aborted
  /\ UNCHANGED <<sigs, registered, call>>

VSignalKill(t) ==
  /\ pc[t] = "kill"
  /\ Raise(At(t, call[t].ret), call[t].to, "USR2")
  /\ vsigMtx' = None
  /\ call' = [call EXCEPT ![t] = NoCall]
  /\ UNCHANGED <<mq, registered>>

---------------------------------------------------------------------------
(* A thread's TS enters the map when the thread first uses the engine and  *)
(* leaves it in ES_cleanup(), which destroys the thread's queue.           *)

Register(t) ==
  /\ vsigMtx = None
  /\ registered' = registered \cup {t}

Cleanup(t) ==
  /\ pc[t] = "cleanup"
  /\ vsigMtx = None
  /\ registered' = registered \ {t}
  /\ mq' = [mq EXCEPT ![t] = <<>>]
  /\ pc' = At(t, "done")
  /\ UNCHANGED <<sigs, vsigMtx, call>>
=============================================================================
