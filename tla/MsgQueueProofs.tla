--------------------------- MODULE MsgQueueProofs ---------------------------
(***************************************************************************)
(* For every set of threads and messages and every queue length: the ring  *)
(* of MsgQueue keeps its type and its shape, and implements FifoQueue.     *)
(***************************************************************************)
EXTENDS MsgQueue, TLAPS

\* Slots fewer than MaxItems apart are different slots of the ring.
LEMMA SlotDistinct ==
  ASSUME NEW h \in 0 .. MaxItems - 1,
         NEW j \in 0 .. MaxItems - 1, NEW k \in 0 .. MaxItems - 1, j # k
  PROVE  /\ (h + j) % MaxItems \in 0 .. MaxItems - 1
         /\ (h + j) % MaxItems # (h + k) % MaxItems
  <1>1. (h + j) % MaxItems = IF h + j < MaxItems THEN h + j ELSE h + j - MaxItems
    BY MaxItemsAssumption
  <1>2. (h + k) % MaxItems = IF h + k < MaxItems THEN h + k ELSE h + k - MaxItems
    BY MaxItemsAssumption
  <1> QED
    BY <1>1, <1>2, MaxItemsAssumption

\* Advancing head by one moves every slot number down by one.
LEMMA SlotShift ==
  ASSUME NEW h \in 0 .. MaxItems - 1, NEW k \in 0 .. MaxItems - 2
  PROVE  /\ (h + 1) % MaxItems \in 0 .. MaxItems - 1
         /\ (((h + 1) % MaxItems) + k) % MaxItems = (h + (k + 1)) % MaxItems
  <1>1. (h + 1) % MaxItems = IF h + 1 < MaxItems THEN h + 1 ELSE 0
    BY MaxItemsAssumption
  <1>2. (h + (k + 1)) % MaxItems = IF h + k + 1 < MaxItems THEN h + k + 1 ELSE h + k + 1 - MaxItems
    BY MaxItemsAssumption
  <1>3. CASE h + 1 < MaxItems
    BY <1>1, <1>2, <1>3, MaxItemsAssumption
  <1>4. CASE h + 1 = MaxItems
    <2>1. (0 + k) % MaxItems = k
      BY MaxItemsAssumption
    <2> QED
      BY <1>1, <1>2, <1>4, <2>1, MaxItemsAssumption
  <1> QED
    BY <1>3, <1>4, MaxItemsAssumption

\* The slot after slot k is slot k + 1.
LEMMA SlotNext ==
  ASSUME NEW h \in 0 .. MaxItems - 1, NEW k \in 0 .. MaxItems - 1
  PROVE  (((h + k) % MaxItems) + 1) % MaxItems = (h + (k + 1)) % MaxItems
  <1>1. (h + k) % MaxItems = IF h + k < MaxItems THEN h + k ELSE h + k - MaxItems
    BY MaxItemsAssumption
  <1>2. (h + (k + 1)) % MaxItems =
          IF h + k + 1 < MaxItems THEN h + k + 1 ELSE h + k + 1 - MaxItems
    BY MaxItemsAssumption
  <1>3. ASSUME NEW j \in 0 .. MaxItems - 1
        PROVE  (j + 1) % MaxItems = IF j + 1 < MaxItems THEN j + 1 ELSE 0
    BY MaxItemsAssumption
  <1> QED
    BY <1>1, <1>2, <1>3, MaxItemsAssumption

\* An index inside the ring is its own slot.
LEMMA SlotZero ==
  ASSUME NEW h \in 0 .. MaxItems - 1
  PROVE  (h + 0) % MaxItems = h
  BY MaxItemsAssumption

---------------------------------------------------------------------------

IInv == TypeOK /\ RingInv

\* The thread inside a call decides how many messages the ring counts.
LEMMA CountInCall ==
  ASSUME MutualExclusion, NEW t \in Threads, pc[t] \in InCall
  PROVE  /\ \A u \in Threads : pc[u] \in InCall => u = t
         /\ Count = IF pc[t] = "copy_out" THEN numItems + 1 ELSE numItems
         /\ (\E u \in Threads : pc[u] = "copy_in") <=> pc[t] = "copy_in"
  BY DEF MutualExclusion, Count, InCall

\* With no thread in a call the ring counts what numItems says.
LEMMA CountIdle ==
  ASSUME \A u \in Threads : pc[u] \notin InCall
  PROVE  Count = numItems /\ ~ \E u \in Threads : pc[u] = "copy_in"
  BY DEF Count, InCall

THEOREM InitInv == Init => IInv
  <1> SUFFICES ASSUME Init PROVE IInv
    OBVIOUS
  <1>1. TypeOK
    BY MaxItemsAssumption DEF Init, TypeOK, Replies, Ok
  <1>2. Count = 0 /\ ~ \E u \in Threads : pc[u] = "copy_in"
    BY CountIdle DEF Init, InCall
  <1>3. MutualExclusion
    BY ThreadsAssumption DEF Init, MutualExclusion, InCall
  <1>4. TailShape /\ Filled
    BY <1>2, MaxItemsAssumption DEF Init, TailShape, Filled
  <1> QED
    BY <1>1, <1>3, <1>4 DEF IInv, RingInv

\* A step inside a call is taken by the thread that holds the mutex.
LEMMA TypeStep ==
  ASSUME IInv, NEW t \in Threads, Call(t) \/ Step(t)
  PROVE  TypeOK'
  <1> USE DEF IInv, TypeOK, Replies, InCall, Goto
  <1>1. ASSUME NEW op \in {"submit", "extract", "check"}, Lock(t, op) PROVE TypeOK'
    BY <1>1 DEF Lock
  <1>2. ASSUME SubmitFull(t) PROVE TypeOK'
    BY <1>2 DEF SubmitFull, Return
  <1>3. ASSUME SubmitAdvance(t) PROVE TypeOK'
    BY <1>3, MaxItemsAssumption DEF SubmitAdvance
  <1>4. ASSUME NEW m \in Msgs, SubmitCopy(t, m) PROVE TypeOK'
    <2>1. numItems < MaxItems
      BY <1>4 DEF SubmitCopy, RingInv, TailShape
    <2> QED
      BY <1>4, <2>1, MaxItemsAssumption DEF SubmitCopy, Return
  <1>5. ASSUME ExtractEmpty(t) PROVE TypeOK'
    BY <1>5 DEF ExtractEmpty, Return
  <1>6. ASSUME ExtractCount(t) PROVE TypeOK'
    BY <1>6, MaxItemsAssumption DEF ExtractCount
  <1>7. ASSUME ExtractCopy(t) PROVE TypeOK'
    <2>1. Count = numItems + 1
      BY <1>7 DEF ExtractCopy, Count
    <2>2. buff[head] \in Msgs
      <3>1. 0 \in 0 .. Count - 1 /\ Slot(0) = head
        BY <2>1, SlotZero, MaxItemsAssumption DEF Slot
      <3> QED
        BY <3>1 DEF RingInv, Filled
    <2>3. NextHead \in 0 .. MaxItems - 1
      BY MaxItemsAssumption DEF NextHead, Slot
    <2> QED
      BY <1>7, <2>2, <2>3 DEF ExtractCopy, Return
  <1>8. ASSUME NEW P \in SUBSET Msgs, CheckQueue(t, P) PROVE TypeOK'
    <2>1. \A k \in Hits(P) : buff[Slot(k)] \in Msgs
      BY DEF Hits
    <2> QED
      BY <1>8, <2>1 DEF CheckQueue, Return
  <1>9. ASSUME Unlock(t) PROVE TypeOK'
    BY <1>9 DEF Unlock
  <1> QED
    BY <1>1, <1>2, <1>3, <1>4, <1>5, <1>6, <1>7, <1>8, <1>9 DEF Call, Step

\* Only the holder of the mutex moves inside a call, and it stays the holder.
LEMMA MutexStep ==
  ASSUME IInv, NEW t \in Threads, Call(t) \/ Step(t)
  PROVE  MutualExclusion'
  <1> USE ThreadsAssumption DEF IInv, TypeOK, RingInv, MutualExclusion, InCall, Goto
  <1>1. ASSUME NEW op \in {"submit", "extract", "check"}, Lock(t, op) PROVE MutualExclusion'
    BY <1>1 DEF Lock, MayLock
  <1>2. ASSUME Unlock(t) PROVE MutualExclusion'
    BY <1>2 DEF Unlock
  <1>3. ASSUME mtx' = mtx, NEW from \in InCall, NEW to \in InCall, Goto(t, from, to)
        PROVE  MutualExclusion'
    BY <1>3
  <1>4. \/ \E op \in {"submit", "extract", "check"} : Lock(t, op)
        \/ Unlock(t)
        \/ /\ mtx' = mtx
           /\ \E from, to \in InCall : Goto(t, from, to)
    BY DEF Call, Step, SubmitFull, SubmitAdvance, SubmitCopy, ExtractEmpty, ExtractCount,
           ExtractCopy, CheckQueue
  <1> QED
    BY <1>1, <1>2, <1>3, <1>4

\* The ring's shape survives each step of the thread that holds the mutex.
LEMMA ShapeStep ==
  ASSUME IInv, NEW t \in Threads, Call(t) \/ Step(t)
  PROVE  TailShape' /\ Filled'
  <1>1. TypeOK' /\ MutualExclusion'
    BY TypeStep, MutexStep
  <1>2. TypeOK /\ MutualExclusion /\ TailShape /\ Filled
    BY DEF IInv, RingInv
  <1> DEFINE Copying == \E u \in Threads : pc[u] = "copy_in"
  <1>3. pc \in [Threads -> {"idle"} \cup InCall] /\ numItems \in 0 .. MaxItems
        /\ head \in 0 .. MaxItems - 1 /\ tail \in 0 .. MaxItems - 1
    BY <1>2 DEF TypeOK
  <1>4. ASSUME pc[t] \in InCall
        PROVE  /\ Count = IF pc[t] = "copy_out" THEN numItems + 1 ELSE numItems
               /\ Copying <=> pc[t] = "copy_in"
    BY <1>2, <1>4, CountInCall
  <1>5. ASSUME pc'[t] \in InCall
        PROVE  /\ Count' = IF pc'[t] = "copy_out" THEN numItems' + 1 ELSE numItems'
               /\ Copying' <=> pc'[t] = "copy_in"
    BY <1>1, <1>5 DEF MutualExclusion, Count, InCall
  <1>6. ASSUME buff' = buff, head' = head, tail' = tail, Count' = Count, ~Copying, ~Copying'
        PROVE  TailShape' /\ Filled'
    BY <1>2, <1>6 DEF TailShape, Filled, Slot
  <1> HIDE DEF Copying
  <1> USE <1>3 DEF InCall, Goto
  <1>7. ASSUME NEW op \in {"submit", "extract", "check"}, Lock(t, op)
        PROVE  TailShape' /\ Filled'
    <2>1. \A u \in Threads : pc[u] \notin InCall
      BY <1>2, <1>7, ThreadsAssumption DEF Lock, MayLock, MutualExclusion
    <2>2. Count = numItems /\ ~Copying
      BY <2>1, CountIdle DEF Copying
    <2> QED
      BY <1>5, <1>6, <1>7, <2>2 DEF Lock
  <1>8. ASSUME Unlock(t) PROVE TailShape' /\ Filled'
    <2>1. \A u \in Threads : pc'[u] \notin InCall
      BY <1>1, <1>8, ThreadsAssumption DEF Unlock, MutualExclusion
    <2>2. Count' = numItems' /\ ~Copying'
      BY <2>1 DEF Copying, Count
    <2> QED
      BY <1>4, <1>6, <1>8, <2>2 DEF Unlock
  <1>9. ASSUME SubmitFull(t) PROVE TailShape' /\ Filled'
    BY <1>4, <1>5, <1>6, <1>9 DEF SubmitFull
  <1>10. ASSUME SubmitAdvance(t) PROVE TailShape' /\ Filled'
    <2>1. Count = numItems /\ Count' = numItems /\ ~Copying /\ Copying'
      BY <1>4, <1>5, <1>10 DEF SubmitAdvance
    <2>2. tail' = Slot(numItems)
      <3>1. CASE numItems = 0
        BY <1>2, <1>10, <2>1, <3>1, SlotZero DEF SubmitAdvance, TailShape, Slot, Copying
      <3>2. CASE numItems > 0
        <4>1. tail = Slot(numItems - 1) /\ tail' = (tail + 1) % MaxItems
          BY <1>2, <1>10, <2>1, <3>2 DEF SubmitAdvance, TailShape, Copying
        <4>2. numItems - 1 \in 0 .. MaxItems - 1 /\ (numItems - 1) + 1 = numItems
          BY <3>2, MaxItemsAssumption
        <4> QED
          BY <4>1, <4>2, SlotNext DEF Slot
      <3> QED
        BY <3>1, <3>2
    <2>3. numItems < MaxItems
      BY <1>10, MaxItemsAssumption DEF SubmitAdvance, IsFull
    <2> QED
      BY <1>2, <1>10, <2>1, <2>2, <2>3 DEF SubmitAdvance, TailShape, Filled, Slot, Copying
  <1>11. ASSUME NEW m \in Msgs, SubmitCopy(t, m) PROVE TailShape' /\ Filled'
    <2>1. Count = numItems /\ Count' = numItems + 1 /\ Copying /\ ~Copying'
      BY <1>4, <1>5, <1>11 DEF SubmitCopy
    <2>2. numItems < MaxItems /\ tail = Slot(numItems) /\ tail' = tail /\ head' = head
      BY <1>2, <1>11, <2>1 DEF TailShape, SubmitCopy, Copying
    <2>3. TailShape'
      BY <2>1, <2>2 DEF TailShape, Slot, Copying
    <2>4. \A k \in 0 .. numItems : buff'[Slot(k)] \in Msgs
      <3>1. buff' = [buff EXCEPT ![tail] = m] /\ buff \in [0 .. MaxItems - 1 -> Msgs \cup {Garbage}]
        BY <1>2, <1>11 DEF SubmitCopy, TypeOK
      <3>2. buff'[Slot(numItems)] = m
        BY <2>2, <3>1
      <3>3. ASSUME NEW k \in 0 .. numItems - 1 PROVE buff'[Slot(k)] = buff[Slot(k)]
        <4>1. Slot(k) \in 0 .. MaxItems - 1 /\ Slot(k) # Slot(numItems)
          BY <2>2, SlotDistinct, MaxItemsAssumption DEF Slot
        <4> QED
          BY <2>2, <3>1, <4>1
      <3> QED
        BY <1>2, <2>1, <3>2, <3>3 DEF Filled
    <2>5. Count' <= MaxItems /\ Count' - 1 = numItems
      BY <2>1, <2>2, MaxItemsAssumption
    <2> QED
      BY <2>2, <2>3, <2>4, <2>5 DEF Filled, Slot
  <1>12. ASSUME ExtractEmpty(t) PROVE TailShape' /\ Filled'
    BY <1>4, <1>5, <1>6, <1>12 DEF ExtractEmpty
  <1>13. ASSUME ExtractCount(t) PROVE TailShape' /\ Filled'
    BY <1>4, <1>5, <1>6, <1>13, MaxItemsAssumption DEF ExtractCount
  <1>14. ASSUME ExtractCopy(t) PROVE TailShape' /\ Filled'
    <2>1. Count = numItems + 1 /\ Count' = numItems /\ ~Copying /\ ~Copying'
      BY <1>4, <1>5, <1>14 DEF ExtractCopy
    <2>2. Count # 0 /\ Count - 1 = numItems /\ UNCHANGED <<tail, buff, numItems>>
      BY <1>14, <2>1 DEF ExtractCopy
    <2>3. tail = Slot(numItems) /\ numItems < MaxItems
      BY <1>2, <2>1, <2>2, MaxItemsAssumption DEF TailShape, Filled, Copying
    <2>4. CASE numItems = 0
      <3>1. head' = head
        BY <1>14, <2>4 DEF ExtractCopy, NextHead
      <3> QED
        BY <2>1, <2>2, <2>3, <2>4, <3>1, SlotZero, MaxItemsAssumption
           DEF TailShape, Filled, Slot, Copying
    <2>5. CASE numItems > 0
      <3>1. head' = (head + 1) % MaxItems
        BY <1>14, <2>5 DEF ExtractCopy, NextHead, Slot
      <3>2. ASSUME NEW k \in 0 .. numItems - 1
            PROVE  (head' + k) % MaxItems = (head + (k + 1)) % MaxItems
        <4>1. k \in 0 .. MaxItems - 2
          BY <2>3, MaxItemsAssumption
        <4> QED
          BY <3>1, <4>1, SlotShift
      <3>3. tail' = (head' + (numItems - 1)) % MaxItems
        <4>1. numItems - 1 \in 0 .. numItems - 1 /\ (numItems - 1) + 1 = numItems
          BY <2>5
        <4> QED
          BY <2>2, <2>3, <3>2, <4>1 DEF Slot
      <3>4. \A k \in 0 .. numItems - 1 : buff[(head + (k + 1)) % MaxItems] \in Msgs
        BY <1>2, <2>2 DEF Filled, Slot
      <3>5. TailShape'
        BY <2>1, <2>2, <2>5, <3>3 DEF TailShape, Slot, Copying
      <3>6. \A k \in 0 .. numItems - 1 : buff'[(head' + k) % MaxItems] \in Msgs
        BY <2>2, <3>2, <3>4
      <3>7. Count' <= MaxItems /\ Count' - 1 = numItems - 1
        BY <2>1, <2>2, <2>3, MaxItemsAssumption
      <3> QED
        BY <3>5, <3>6, <3>7 DEF Filled, Slot
    <2> QED
      BY <2>4, <2>5
  <1>15. ASSUME NEW P \in SUBSET Msgs, CheckQueue(t, P) PROVE TailShape' /\ Filled'
    BY <1>4, <1>5, <1>6, <1>15 DEF CheckQueue
  <1> QED
    BY <1>7, <1>8, <1>9, <1>10, <1>11, <1>12, <1>13, <1>14, <1>15 DEF Call, Step

\* The inductive invariant survives every step of the queue.
THEOREM StepInv == IInv /\ [Next]_vars => IInv'
  <1> SUFFICES ASSUME IInv, [Next]_vars PROVE IInv'
    OBVIOUS
  <1>1. ASSUME NEW t \in Threads, Call(t) \/ Step(t) PROVE IInv'
    BY <1>1, TypeStep, MutexStep, ShapeStep DEF IInv, RingInv
  <1>2. CASE UNCHANGED vars
    BY <1>2 DEF vars, IInv, TypeOK, Replies, InCall, RingInv, MutualExclusion, TailShape,
       Filled, Count, Slot
  <1> QED
    BY <1>1, <1>2 DEF Next

\* head, tail and numItems stay in range and no call returns the content of a
\* slot nobody wrote, in every reachable state of every queue.
THEOREM TypeCorrect == Spec => []TypeOK
  BY InitInv, StepInv, PTL DEF Spec, IInv

\* The ring is never torn: between its head and its tail lie exactly the
\* messages submitted and not extracted, whatever the interleaving of callers.
THEOREM RingCorrect == Spec => []RingInv
  BY InitInv, StepInv, PTL DEF Spec, IInv

---------------------------------------------------------------------------

\* The ring seen as a sequence: Count elements, oldest at head.
ContentsSeq ==
  /\ Contents \in Seq(Msgs)
  /\ Len(Contents) = Count
  /\ Count \in 0 .. MaxItems
  /\ \A k \in 1 .. Count : Contents[k] = buff[Slot(k - 1)]

\* A ring in good shape is a sequence of messages.
LEMMA ContentsIsSeq == IInv => ContentsSeq
  <1> SUFFICES ASSUME IInv PROVE ContentsSeq
    OBVIOUS
  <1>1. Count \in 0 .. MaxItems
    BY MaxItemsAssumption DEF IInv, RingInv, TypeOK, Filled, Count
  <1>2. \A k \in 1 .. Count : buff[Slot(k - 1)] \in Msgs
    <2> SUFFICES ASSUME NEW k \in 1 .. Count PROVE buff[Slot(k - 1)] \in Msgs
      OBVIOUS
    <2>1. k - 1 \in 0 .. Count - 1
      BY <1>1, MaxItemsAssumption
    <2> QED
      BY <2>1 DEF IInv, RingInv, Filled
  <1> QED
    BY <1>1, <1>2, MaxItemsAssumption DEF Contents, ContentsSeq

\* Steps that neither finish a call's effect nor move head leave the sequence.
LEMMA ContentsUnchanged ==
  ASSUME UNCHANGED <<buff, head>>, Count' = Count
  PROVE  Contents' = Contents
  BY DEF Contents, Slot

\* Every step of the ring is a step of the FIFO queue, or invisible to it.
LEMMA StepRefines ==
  ASSUME IInv, IInv', NEW t \in Threads, Call(t) \/ Step(t)
  PROVE  [Fifo!FifoNext]_<<Contents, result>>
  <1> DEFINE FNext == Fifo!FifoNext
  <1>0. /\ TypeOK /\ MutualExclusion /\ TailShape /\ Filled
        /\ TypeOK' /\ MutualExclusion' /\ TailShape' /\ Filled'
    BY DEF IInv, RingInv
  <1>1. ContentsSeq /\ ContentsSeq'
    BY ContentsIsSeq, PTL
  <1>2. /\ \A u \in Threads : pc[u] \in InCall => u = t
        /\ pc[t] \in InCall => Count = IF pc[t] = "copy_out" THEN numItems + 1 ELSE numItems
        /\ pc[t] \notin InCall /\ mtx = None => Count = numItems
    BY <1>0, ThreadsAssumption DEF MutualExclusion, Count, InCall, Call, Step, Lock, MayLock, Goto,
       SubmitFull, SubmitAdvance, SubmitCopy, ExtractEmpty, ExtractCount, ExtractCopy,
       CheckQueue, Unlock
  <1>3. (\A u \in Threads : u # t => pc'[u] # "copy_out")
          => Count' = IF pc'[t] = "copy_out" THEN numItems' + 1 ELSE numItems'
    BY DEF Count
  <1>4. /\ \A u \in Threads : u # t => pc'[u] # "copy_out"
        /\ numItems \in 0 .. MaxItems
        /\ pc \in [Threads -> {"idle"} \cup InCall]
    BY <1>0, <1>2 DEF TypeOK, InCall, Call, Step, Lock, MayLock, Goto,
       SubmitFull, SubmitAdvance, SubmitCopy, ExtractEmpty, ExtractCount, ExtractCopy,
       CheckQueue, Unlock
  <1>5. Count' = IF pc'[t] = "copy_out" THEN numItems' + 1 ELSE numItems'
    BY <1>3, <1>4
  <1> USE DEF InCall, Goto
  <1> DEFINE Refines == Fifo!FifoNext \/ UNCHANGED <<Contents, result>>
  <1>6. ASSUME NEW op \in {"submit", "extract", "check"}, Lock(t, op) PROVE Refines
    BY <1>2, <1>4, <1>5, <1>6, ContentsUnchanged DEF Lock, MayLock
  <1>7. ASSUME Unlock(t) PROVE Refines
    BY <1>2, <1>4, <1>5, <1>7, ContentsUnchanged DEF Unlock
  <1>8. ASSUME SubmitFull(t) PROVE Refines
    <2>1. Contents' = Contents /\ Len(Contents) = MaxItems
      BY <1>1, <1>2, <1>4, <1>5, <1>8, ContentsUnchanged DEF SubmitFull, IsFull, ContentsSeq
    <2>2. Fifo!PutFull(t)
      BY <1>8, <2>1 DEF SubmitFull, Return, Eof, Fifo!PutFull, Fifo!Reply, Fifo!Eof
    <2> QED
      BY <2>2 DEF Fifo!FifoNext
  <1>9. ASSUME SubmitAdvance(t) PROVE Refines
    BY <1>2, <1>4, <1>5, <1>9, ContentsUnchanged DEF SubmitAdvance
  <1>10. ASSUME NEW m \in Msgs, SubmitCopy(t, m) PROVE Refines
    <2>1. /\ Count = numItems /\ Count' = numItems + 1
          /\ UNCHANGED <<head, tail>> /\ buff' = [buff EXCEPT ![tail] = m]
      BY <1>2, <1>4, <1>5, <1>10 DEF SubmitCopy
    <2>2. numItems < MaxItems /\ tail = Slot(numItems)
      BY <1>0, <1>10 DEF SubmitCopy, TailShape
    <2>3. \A k \in 1 .. Count : Contents'[k] = Contents[k]
      <3> SUFFICES ASSUME NEW k \in 1 .. Count PROVE Contents'[k] = Contents[k]
        OBVIOUS
      <3>1. /\ k - 1 \in 0 .. MaxItems - 1 /\ numItems \in 0 .. MaxItems - 1 /\ k - 1 # numItems
            /\ k \in 1 .. Count'
        BY <1>4, <2>1, <2>2, MaxItemsAssumption
      <3>2. Slot(k - 1) \in 0 .. MaxItems - 1 /\ Slot(k - 1) # Slot(numItems)
        BY <1>0, <3>1, SlotDistinct DEF TypeOK, Slot
      <3>3. Contents'[k] = buff'[Slot(k - 1)]
        BY <1>1, <2>1, <3>1 DEF ContentsSeq, Slot
      <3> QED
        BY <1>0, <1>1, <2>1, <2>2, <3>2, <3>3 DEF TypeOK, ContentsSeq
    <2>4. Contents'[Count + 1] = m
      <3>1. Contents'[Count + 1] = buff'[Slot(Count)]
        BY <1>1, <1>4, <2>1, MaxItemsAssumption DEF ContentsSeq, Slot
      <3> QED
        BY <1>0, <2>1, <2>2, <3>1 DEF TypeOK
    <2>5. Contents' = Append(Contents, m)
      <3>1. Len(Contents') = Count + 1 /\ Len(Contents) = Count /\ Count \in Nat
            /\ Contents \in Seq(Msgs) /\ Contents' \in Seq(Msgs)
        BY <1>1, <1>4, <2>1, MaxItemsAssumption DEF ContentsSeq
      <3> QED
        BY <2>3, <2>4, <3>1
    <2>6. Fifo!Put(t, m)
      BY <1>1, <1>10, <2>1, <2>2, <2>5
         DEF SubmitCopy, Return, Ok, ContentsSeq, Fifo!Put, Fifo!Reply, Fifo!Ok
    <2> QED
      BY <2>6 DEF Fifo!FifoNext
  <1>11. ASSUME ExtractEmpty(t) PROVE Refines
    <2>1. Contents' = Contents /\ Contents = <<>>
      BY <1>1, <1>2, <1>4, <1>5, <1>11, ContentsUnchanged DEF ExtractEmpty, ContentsSeq
    <2>2. Fifo!GetEmpty(t)
      BY <1>11, <2>1 DEF ExtractEmpty, Return, Eof, Fifo!GetEmpty, Fifo!Reply, Fifo!Eof
    <2> QED
      BY <2>2 DEF Fifo!FifoNext
  <1>12. ASSUME ExtractCount(t) PROVE Refines
    BY <1>2, <1>4, <1>5, <1>12, ContentsUnchanged DEF ExtractCount
  <1>13. ASSUME ExtractCopy(t) PROVE Refines
    <2>1. Count = numItems + 1 /\ Count' = numItems /\ UNCHANGED <<buff, numItems>>
          /\ head' = NextHead
      BY <1>2, <1>4, <1>5, <1>13 DEF ExtractCopy
    <2>2. Contents # <<>> /\ Head(Contents) = buff[head]
      <3>1. Len(Contents) >= 1 /\ Contents \in Seq(Msgs) /\ Contents[1] = buff[Slot(0)]
        BY <1>1, <1>4, <2>1, MaxItemsAssumption DEF ContentsSeq
      <3>2. Slot(0) = head
        BY <1>0, SlotZero DEF TypeOK, Slot
      <3> QED
        BY <3>1, <3>2
    <2>3. \A k \in 1 .. numItems : Contents'[k] = Contents[k + 1]
      <3> SUFFICES ASSUME NEW k \in 1 .. numItems PROVE Contents'[k] = Contents[k + 1]
        OBVIOUS
      <3>1. /\ k - 1 \in 0 .. MaxItems - 2 /\ (k - 1) + 1 = k
            /\ k + 1 \in 1 .. Count /\ k \in 1 .. Count'
            /\ (k + 1) - 1 = k
        BY <1>1, <1>4, <2>1, MaxItemsAssumption DEF ContentsSeq
      <3>2. head' = (head + 1) % MaxItems
        BY <1>4, <2>1, MaxItemsAssumption DEF NextHead, Slot
      <3>3. (head' + (k - 1)) % MaxItems = (head + k) % MaxItems
        BY <1>0, <3>1, <3>2, SlotShift DEF TypeOK
      <3>4. Contents'[k] = buff[(head' + (k - 1)) % MaxItems]
        BY <1>1, <2>1, <3>1 DEF ContentsSeq, Slot
      <3>5. Contents[k + 1] = buff[(head + k) % MaxItems]
        BY <1>1, <3>1 DEF ContentsSeq, Slot
      <3> QED
        BY <3>3, <3>4, <3>5
    <2>4. Contents' = Tail(Contents)
      <3>1. Len(Contents') = numItems /\ Len(Contents) = numItems + 1 /\ numItems \in Nat
            /\ Contents \in Seq(Msgs) /\ Contents' \in Seq(Msgs)
        BY <1>1, <1>4, <2>1, MaxItemsAssumption DEF ContentsSeq
      <3> QED
        BY <2>3, <3>1
    <2>5. Fifo!Get(t)
      BY <1>13, <2>2, <2>4 DEF ExtractCopy, Return, Got, Fifo!Get, Fifo!Reply, Fifo!Got
    <2> QED
      BY <2>5 DEF Fifo!FifoNext
  <1>14. ASSUME NEW P \in SUBSET Msgs, CheckQueue(t, P) PROVE Refines
    <2>1. Contents' = Contents /\ Count = numItems
      BY <1>2, <1>4, <1>5, <1>14, ContentsUnchanged DEF CheckQueue
    <2>2. CASE Hits(P) = {} /\ Return(t, Ok)
      <3>1. ASSUME NEW k \in 1 .. Len(Contents) PROVE Contents[k] \notin P
        <4>1. k - 1 \in 0 .. numItems - 1 /\ Contents[k] = buff[Slot(k - 1)]
          BY <1>1, <1>4, <2>1, MaxItemsAssumption DEF ContentsSeq
        <4> QED
          BY <2>2, <4>1 DEF Hits
      <3>2. Fifo!Find(t, P)
        BY <2>1, <2>2, <3>1 DEF Return, Ok, Fifo!Find, Fifo!Reply, Fifo!Ok
      <3> QED
        BY <3>2 DEF Fifo!FifoNext
    <2>3. ASSUME NEW k \in Hits(P), \A j \in Hits(P) : k <= j, Return(t, Got(buff[Slot(k)]))
          PROVE  Refines
      <3>1. /\ k \in 0 .. numItems - 1 /\ buff[Slot(k)] \in P
            /\ k + 1 \in 1 .. Len(Contents) /\ (k + 1) - 1 = k
        BY <1>1, <1>4, <2>1, MaxItemsAssumption DEF Hits, ContentsSeq
      <3>2. Contents[k + 1] = buff[Slot(k)]
        BY <1>1, <3>1 DEF ContentsSeq
      <3>3. ASSUME NEW j \in 1 .. (k + 1) - 1 PROVE Contents[j] \notin P
        <4>1. j - 1 \in 0 .. numItems - 1 /\ j - 1 < k /\ Contents[j] = buff[Slot(j - 1)]
          BY <1>1, <1>4, <2>1, <3>1, MaxItemsAssumption DEF ContentsSeq
        <4> QED
          BY <2>3, <3>1, <4>1 DEF Hits
      <3>4. Fifo!Find(t, P)
        BY <2>1, <2>3, <3>1, <3>2, <3>3 DEF Return, Got, Fifo!Find, Fifo!Reply, Fifo!Got
      <3> QED
        BY <3>4 DEF Fifo!FifoNext
    <2> QED
      BY <1>14, <2>2, <2>3 DEF CheckQueue
  <1> QED
    BY <1>6, <1>7, <1>8, <1>9, <1>10, <1>11, <1>12, <1>13, <1>14 DEF Call, Step

\* The ring implements the bounded FIFO queue: over every interleaving of the
\* callers, messages come out once each and in the order they went in.
THEOREM RingIsFifo == Spec => ImplementsFifo
  <1>1. Init => Fifo!FifoInit
    <2> SUFFICES ASSUME Init PROVE Fifo!FifoInit
      OBVIOUS
    <2>1. Count = 0
      BY CountIdle DEF Init, InCall
    <2>2. Contents = <<>>
      BY <2>1, InitInv, ContentsIsSeq DEF ContentsSeq
    <2> QED
      BY <2>2 DEF Init, Ok, Fifo!FifoInit, Fifo!Ok
  <1>2. IInv /\ IInv' /\ [Next]_vars => [Fifo!FifoNext]_(Fifo!fifoVars)
    <2> SUFFICES ASSUME IInv, IInv', [Next]_vars PROVE [Fifo!FifoNext]_(Fifo!fifoVars)
      OBVIOUS
    <2>1. CASE UNCHANGED vars
      BY <2>1 DEF vars, Fifo!fifoVars, Contents, Count, Slot
    <2>2. CASE Next
      BY <2>2, StepRefines DEF Next, Fifo!fifoVars
    <2> QED
      BY <2>1, <2>2
  <1> QED
    BY <1>1, <1>2, InitInv, StepInv, PTL DEF Spec, ImplementsFifo, Fifo!FifoSpec
=============================================================================
