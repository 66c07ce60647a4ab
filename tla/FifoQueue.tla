----------------------------- MODULE FifoQueue -----------------------------
(***************************************************************************)
(* What a message queue promises its callers: a bounded first-in-first-out *)
(* sequence on which threads submit, extract and inspect messages one at a *)
(* time, each call taking effect at a single instant.  MsgQueue is shown   *)
(* to implement it; EventEngine and Pdns use it in place of the ring.      *)
(***************************************************************************)
EXTENDS Naturals, Sequences

CONSTANTS Threads,    \* the callers
          Msgs,       \* the messages they may submit
          MaxItems    \* the queue's length

VARIABLES items,      \* the messages in the queue, oldest first
          result      \* what each thread's last call returned

fifoVars == <<items, result>>

\* A call returns 0 or EOF, and extract and check may hand out messages.
Ok == [rc |-> "0", msg |-> <<>>]
Eof == [rc |-> "EOF", msg |-> <<>>]
Got(m) == [rc |-> "0", msg |-> <<m>>]

FifoInit ==
  /\ items = <<>>
  /\ result = [t \in Threads |-> Ok]

Reply(t, r) == result' = [result EXCEPT ![t] = r]

Put(t, m) ==
  /\ Len(items) < MaxItems
  /\ items' = Append(items, m)
  /\ Reply(t, Ok)

PutFull(t) ==
  /\ Len(items) = MaxItems
  /\ Reply(t, Eof)
  /\ UNCHANGED items

Get(t) ==
  /\ items # <<>>
  /\ items' = Tail(items)
  /\ Reply(t, Got(Head(items)))

GetEmpty(t) ==
  /\ items = <<>>
  /\ Reply(t, Eof)
  /\ UNCHANGED items

\* The oldest message in P, or none of them when no message is in P.
Find(t, P) ==
  /\ \/ /\ \A k \in 1 .. Len(items) : items[k] \notin P
        /\ Reply(t, Ok)
     \/ \E k \in 1 .. Len(items) :
          /\ items[k] \in P
          /\ \A j \in 1 .. k - 1 : items[j] \notin P
          /\ Reply(t, Got(items[k]))
  /\ UNCHANGED items

FifoNext ==
  \E t \in Threads :
    \/ \E m \in Msgs : Put(t, m)
    \/ PutFull(t)
    \/ Get(t)
    \/ GetEmpty(t)
    \/ \E P \in SUBSET Msgs : Find(t, P)

FifoSpec == FifoInit /\ [][FifoNext]_fifoVars
=============================================================================
