------------------------------ MODULE MsgQueue ------------------------------
(***************************************************************************)
(* msgqueue.c: a ring of MaxItems message slots shared by threads.  Every  *)
(* call locks mtx, works on numItems, head, tail and the slots in several  *)
(* steps, and unlocks.  The ring keeps head = tail when it drains, so the  *)
(* next submit reuses the slot just read instead of advancing.             *)
(***************************************************************************)
EXTENDS Integers, Sequences

CONSTANTS Threads,    \* threads that share the queue
          Msgs,       \* message values
          MaxItems,   \* queueLen given to the constructor
          Garbage,    \* what malloc() leaves in a slot
          None        \* "no thread"

ASSUME MaxItemsAssumption == MaxItems \in Nat \ {0}
ASSUME MsgsAssumption == Garbage \notin Msgs
ASSUME ThreadsAssumption == None \notin Threads

VARIABLES buff,       \* the slots: buff_ptr
          head,       \* index of the oldest message
          tail,       \* index of the newest message
          numItems,   \* messages in the ring
          mtx,        \* the thread that holds mtx, or None
          pc,         \* where each thread is in a call
          result      \* what each thread's last call returned

vars == <<buff, head, tail, numItems, mtx, pc, result>>

Ok == [rc |-> "0", msg |-> <<>>]
Eof == [rc |-> "EOF", msg |-> <<>>]
Got(m) == [rc |-> "0", msg |-> <<m>>]

\* The slot k places after head.
Slot(k) == (head + k) % MaxItems

\* MSGQUEUE_constructor(): the slots are fresh heap memory.
Init ==
  /\ buff = [k \in 0 .. MaxItems - 1 |-> Garbage]
  /\ head = 0 /\ tail = 0 /\ numItems = 0
  /\ mtx = None
  /\ pc = [t \in Threads |-> "idle"]
  /\ result = [t \in Threads |-> Ok]

Goto(t, from, to) == pc[t] = from /\ pc' = [pc EXCEPT ![t] = to]
Return(t, r) == result' = [result EXCEPT ![t] = r]

---------------------------------------------------------------------------
(* A call begins by taking the mutex.                                      *)

\* Mutant: the mutex excludes nobody.
MayLock_no_mutex == TRUE
MayLock == mtx = None

Lock(t, to) ==
  /\ MayLock
  /\ Goto(t, "idle", to)
  /\ mtx' = t
  /\ UNCHANGED <<buff, head, tail, numItems, result>>

Unlock(t) ==
  /\ Goto(t, "unlock", "idle")
  /\ mtx' = None
  /\ UNCHANGED <<buff, head, tail, numItems, result>>

---------------------------------------------------------------------------
(* MSGQUEUE_submitMsg(): refuse when full, else advance tail unless the    *)
(* ring is empty, then copy the message in and count it.                   *)

\* Mutant: the ring accepts one message too many.
IsFull_off_by_one == numItems > MaxItems
IsFull == numItems = MaxItems

SubmitFull(t) ==
  /\ IsFull
  /\ Goto(t, "submit", "unlock")
  /\ Return(t, Eof)
  /\ UNCHANGED <<buff, head, tail, numItems, mtx>>

SubmitAdvance(t) ==
  /\ ~IsFull
  /\ Goto(t, "submit", "copy_in")
  /\ tail' = IF numItems > 0 THEN (tail + 1) % MaxItems ELSE tail
  /\ UNCHANGED <<buff, head, numItems, mtx, result>>

SubmitCopy(t, m) ==
  /\ Goto(t, "copy_in", "unlock")
  /\ buff' = [buff EXCEPT ![tail] = m]
  /\ numItems' = numItems + 1
  /\ Return(t, Ok)
  /\ UNCHANGED <<head, tail, mtx>>

---------------------------------------------------------------------------
(* MSGQUEUE_extractMsg(): count the message out, copy it, and advance head *)
(* unless the ring has drained.                                            *)

ExtractEmpty(t) ==
  /\ numItems = 0
  /\ Goto(t, "extract", "unlock")
  /\ Return(t, Eof)
  /\ UNCHANGED <<buff, head, tail, numItems, mtx>>

ExtractCount(t) ==
  /\ numItems > 0
  /\ Goto(t, "extract", "copy_out")
  /\ numItems' = numItems - 1
  /\ UNCHANGED <<buff, head, tail, mtx, result>>

\* Mutant: head advances past the last message too.
NextHead_always_advances == Slot(1)
NextHead == IF numItems > 0 THEN Slot(1) ELSE head

ExtractCopy(t) ==
  /\ Goto(t, "copy_out", "unlock")
  /\ Return(t, Got(buff[head]))
  /\ head' = NextHead
  /\ UNCHANGED <<buff, tail, numItems, mtx>>

---------------------------------------------------------------------------
(* MSGQUEUE_checkQueue(): walk from head until check() returns non-zero;   *)
(* here check() accepts the messages of P.         *)

Hits(P) == {k \in 0 .. numItems - 1 : buff[Slot(k)] \in P}

CheckQueue(t, P) ==
  /\ Goto(t, "check", "unlock")
  /\ \/ Hits(P) = {} /\ Return(t, Ok)
     \/ \E k \in Hits(P) :
          /\ \A j \in Hits(P) : k <= j
          /\ Return(t, Got(buff[Slot(k)]))
  /\ UNCHANGED <<buff, head, tail, numItems, mtx>>

---------------------------------------------------------------------------

Call(t) == \E op \in {"submit", "extract", "check"} : Lock(t, op)

Step(t) ==
  \/ SubmitFull(t) \/ SubmitAdvance(t) \/ \E m \in Msgs : SubmitCopy(t, m)
  \/ ExtractEmpty(t) \/ ExtractCount(t) \/ ExtractCopy(t)
  \/ \E P \in SUBSET Msgs : CheckQueue(t, P)
  \/ Unlock(t)

Next == \E t \in Threads : Call(t) \/ Step(t)

Spec == Init /\ [][Next]_vars

---------------------------------------------------------------------------
(* Properties                                                              *)

Replies == {Ok, Eof} \cup {Got(m) : m \in Msgs}
InCall == {"submit", "copy_in", "extract", "copy_out", "check", "unlock"}

\* Every variable has its type: in particular head and tail stay inside the
\* ring and no call has ever returned the content of a slot nobody wrote.
TypeOK ==
  /\ buff \in [0 .. MaxItems - 1 -> Msgs \cup {Garbage}]
  /\ head \in 0 .. MaxItems - 1
  /\ tail \in 0 .. MaxItems - 1
  /\ numItems \in 0 .. MaxItems
  /\ mtx \in Threads \cup {None}
  /\ pc \in [Threads -> {"idle"} \cup InCall]
  /\ result \in [Threads -> Replies]

\* The messages between head and tail, the one being copied out included.
Count == IF \E t \in Threads : pc[t] = "copy_out" THEN numItems + 1 ELSE numItems

\* Only the thread that holds mtx is inside a call.
MutualExclusion == \A t \in Threads : pc[t] \in InCall <=> mtx = t

\* tail is where the ring's shape says: on the newest message, on head when the
\* ring is empty (so that the next submit reuses the slot), and on the first
\* free slot while a message is copied in.
TailShape ==
  IF \E t \in Threads : pc[t] = "copy_in"
  THEN numItems < MaxItems /\ tail = Slot(numItems)
  ELSE tail = IF Count = 0 THEN head ELSE Slot(Count - 1)

\* Every slot between head and tail holds a message somebody submitted.
Filled == Count <= MaxItems /\ \A k \in 0 .. Count - 1 : buff[Slot(k)] \in Msgs

\* The ring is never torn: although head, tail and numItems are each written by
\* several threads, in steps that leave them out of line with one another, they
\* always delimit the submitted messages that have not been extracted.
RingInv == MutualExclusion /\ TailShape /\ Filled

\* The ring as the sequence its callers think of; a slot is given up when its
\* message has been copied out, a message is in when it has been counted.
Contents == [k \in 1 .. Count |-> buff[Slot(k - 1)]]

\* The ring implements the bounded FIFO queue: messages come out in the order
\* they went in, none twice, none lost, across every wrap-around, drain and
\* refill, whatever the interleaving of the callers.
Fifo == INSTANCE FifoQueue WITH items <- Contents
ImplementsFifo == Fifo!FifoSpec
=============================================================================
