----------------------------- MODULE PdnsProofs -----------------------------
(***************************************************************************)
(* Proofs about Pdns, for every number of entries and workers, every size  *)
(* of the virtual signal queue and every set of answers: the types, the    *)
(* hand-over of tasks (OneTaskEach) and the match of prompts and tasks     *)
(* (NoUninitialisedReport).  The three hold together or not at all: an     *)
(* inbox contains only entries because a worker that reports holds one,    *)
(* it holds one because its prompt found one, and the prompt found one     *)
(* because a worker has at most one task and at most one prompt.           *)
(***************************************************************************)
EXTENDS Pdns, TLAPS

---------------------------------------------------------------------------
(* The inductive invariant                                                 *)

\* The manager prompts workers; a worker reports to the manager or asks it to be
\* joined.
CallInv ==
  /\ pc[Mgr] \in {"vsig", "kill"} =>
       /\ call[Mgr].to \in Workers /\ call[Mgr].vsig = CheckInbox
       /\ call[Mgr].ret \in {"dispatch", "inbox"}
  /\ \A w \in Workers : pc[w] \in {"vsig", "kill"} =>
       call[w] \in {VSignalTo(Mgr, CheckInbox, "drain"), VSignalTo(Mgr, w, "cleanup")}

\* The worker that starts is the one its parent waits for; those after it are
\* not born.
SpawnInv ==
  \A w \in Workers :
    /\ pc[w] = "starting" => pc[Mgr] = "await" /\ w = spawned
    /\ w > spawned \/ (w = spawned /\ pc[Mgr] = "spawn") => pc[w] = "unborn" \/ pc[Mgr] = "aborted"

\* A worker holds a task only in worker_check_inbox_f(), and looks up only what
\* it holds.
HoldInv ==
  \A w \in Workers :
    /\ pc[w] \notin {"check", "extract", "lookup", "post", "report", "aborted"} =>
         task[w] = None
    /\ pc[w] = "lookup" => task[w] # None

\* The three stages of a prompt: about to be submitted, queued, and served while
\* its task is not yet taken.
Sending(w) == pc[Mgr] = "vsig" /\ call[Mgr].to = w
Queued(w) == mq[w] # <<>>
Prompted(w) == pc[w] \in {"check", "extract"} /\ task[w] = None

\* A worker has one prompt at a time, and its task waits for it in the inbox.
PromptInv ==
  \A w \in Workers :
    /\ Len(mq[w]) <= 1
    /\ Sending(w) \/ Queued(w) \/ Prompted(w) => winbox[w] # <<>>
    /\ ~(Sending(w) /\ Queued(w))
    /\ ~(Sending(w) /\ Prompted(w))
    /\ ~(Queued(w) /\ Prompted(w))

\* Entries not yet handed out are with nobody.
FreshInv == \A w \in Workers : \A e \in Entries(w) : e < processed

\* Until the first entries have all been handed out, worker number processed
\* and those after it have none.
Early ==
  \/ pc[Mgr] \in {"spawn", "await", "dispatch"}
  \/ pc[Mgr] \in {"vsig", "kill"} /\ call[Mgr].ret = "dispatch"
EarlyInv == Early => \A w \in Workers : w >= processed => Entries(w) = {}

Inv ==
  /\ TypeOK /\ CallInv /\ SpawnInv /\ HoldInv /\ PromptInv
  /\ FreshInv /\ EarlyInv /\ OneTaskEach /\ NoUninitialisedReport

---------------------------------------------------------------------------
\* What the assumptions say of the names.
LEMMA Names ==
  /\ NThreads \in Nat /\ NThreads >= 1 /\ NThreads <= NItems /\ NItems \in Nat
  /\ MaxThreads \in Nat /\ NThreads <= MaxThreads
  /\ Mgr \notin Workers /\ Mgr # None /\ None \notin Items /\ None \notin Workers
  /\ Workers \subseteq Int /\ Items \subseteq Int /\ Workers \subseteq Items
  /\ CheckInbox \in Int /\ CheckInbox \notin Workers
  /\ Threads = Workers \cup {Mgr}
  BY NItemsAssumption, MaxThreadsAssumption, NamesAssumption
     DEF NThreads, Workers, Items, CheckInbox, Threads

---------------------------------------------------------------------------
(* Types                                                                   *)

CallType == [to : Threads \cup {None}, vsig : Workers \cup {CheckInbox, -1},
             ret : {"dispatch", "inbox", "drain", "cleanup", "none"}]

\* Raising a signal keeps the types.
LEMMA RaiseType ==
  ASSUME TypeOK, NEW pcs \in [Threads -> Pcs], NEW d \in Threads, NEW s \in {"USR2", "TERM"},
         Raise(pcs, d, s)
  PROVE  pc' \in [Threads -> Pcs] /\ sigs' \in [Threads -> SUBSET {"USR2", "TERM"}]
  BY DEF TypeOK, Raise, Woken, Pcs

\* Extracting a virtual signal keeps the types.
LEMMA DrainType ==
  ASSUME TypeOK, NEW t \in Threads, NEW v, NEW to \in Pcs, Drain(t, v, to)
  PROVE  pc' \in [Threads -> Pcs] /\ mq' \in [Threads -> Seq(Workers \cup {CheckInbox})]
  BY DEF TypeOK, Drain, At

\* The first message of a queue.
LEMMA HeadTail ==
  ASSUME NEW S, NEW s \in Seq(S), s # <<>>
  PROVE  /\ Head(s) \in S /\ Head(s) = s[1] /\ 1 \in 1 .. Len(s)
         /\ Tail(s) \in Seq(S)
  OBVIOUS

\* The manager's inbox holds reports.
LEMMA HeadOfInbox ==
  ASSUME TypeOK, inbox # <<>>
  PROVE  /\ Head(inbox) \in [e : Items, w : Workers]
         /\ Head(inbox).e \in Items /\ Head(inbox).w \in Workers
         /\ Head(inbox) = inbox[1] /\ 1 \in 1 .. Len(inbox)
         /\ Tail(inbox) \in Seq([e : Items, w : Workers])
  <1>1. inbox \in Seq([e : Items, w : Workers])
    BY DEF TypeOK
  <1>2. /\ Head(inbox) \in [e : Items, w : Workers]
        /\ Head(inbox) = inbox[1] /\ 1 \in 1 .. Len(inbox)
        /\ Tail(inbox) \in Seq([e : Items, w : Workers])
    BY <1>1, HeadTail
  <1> QED BY <1>2

\* Handing out an entry keeps the types.
LEMMA AssignType ==
  ASSUME TypeOK, NEW w \in Workers, NEW e \in Items, NEW ret \in {"dispatch", "inbox"},
         Assign(w, e, ret)
  PROVE  /\ pc' \in [Threads -> Pcs]
         /\ winbox' \in [Workers -> Seq(Items)]
         /\ call' \in [Threads -> CallType]
  <1>1. pc' \in [Threads -> Pcs]
    BY Names DEF TypeOK, Assign, At, Aborted, Pcs
  <1>2. winbox' \in [Workers -> Seq(Items)]
    BY DEF TypeOK, Assign
  <1>3. VSignalTo(w, CheckInbox, ret) \in CallType
    BY Names DEF VSignalTo, CallType
  <1>4. call' \in [Threads -> CallType]
    BY <1>3 DEF TypeOK, Assign, CallType
  <1> QED BY <1>1, <1>2, <1>4

\* Recording an outcome keeps the types.
LEMMA LookedType ==
  ASSUME TypeOK, NEW w \in Workers, NEW outcome \in SUBSET DnsFlags, Looked(w, outcome)
  PROVE  TypeOK'
  BY Names DEF TypeOK, Looked, At, Pcs, mgrVars, timeVars

\* A step keeps the types.
LEMMA TypeStep ==
  ASSUME TypeOK, CallInv, SpawnInv, NoUninitialisedReport, [Next]_vars
  PROVE  TypeOK'
  <1>1. CASE Spawn
    BY <1>1, Names DEF TypeOK, Pcs, At, mgrVars, timeVars, taskVars, Spawn
  <1>2. CASE SpawnDone
    BY <1>2, Names DEF TypeOK, Pcs, At, mgrVars, timeVars, taskVars, SpawnDone
  <1>3. CASE Dispatch
    <2>1. processed \in Workers /\ processed \in Items /\ processed' \in 0 .. NItems
      BY <1>3, Names, HeadOfInbox DEF TypeOK, Dispatch, Workers, Items
    <2>2. /\ pc' \in [Threads -> Pcs]
          /\ winbox' \in [Workers -> Seq(Items)]
          /\ call' \in [Threads -> CallType]
      BY <1>3, <2>1, AssignType DEF Dispatch
    <2> QED BY <1>3, <2>1, <2>2, Names, HeadOfInbox DEF Dispatch, AfterNext, CallType, TypeOK,
         mgrVars, timeVars, taskVars
  <1>4. CASE DispatchDone
    BY <1>4, Names DEF TypeOK, Pcs, At, mgrVars, timeVars, taskVars, DispatchDone
  <1>5. CASE MgrCheckInbox
    <2>1. pc' \in [Threads -> Pcs] /\ mq' \in [Threads -> Seq(Workers \cup {CheckInbox})]
      BY <1>5, Names, DrainType DEF MgrCheckInbox, Pcs
    <2> QED BY <1>5, <2>1 DEF MgrCheckInbox, TypeOK, mgrVars, timeVars, taskVars
  <1>6. CASE MgrInboxEmpty
    BY <1>6, Names DEF TypeOK, Pcs, At, mgrVars, timeVars, taskVars, MgrInboxEmpty
  <1>7. CASE MgrPrune
    <2>1. Head(inbox).w \in Threads /\ inbox' \in Seq([e : Items, w : Workers])
      BY <1>7, Names, HeadOfInbox DEF MgrPrune, Extracted
    <2>2. pc' \in [Threads -> Pcs] /\ sigs' \in [Threads -> SUBSET {"USR2", "TERM"}]
      BY <1>7, <2>1, RaiseType DEF TypeOK, MgrPrune
    <2> QED BY <1>7, <2>1, <2>2 DEF MgrPrune, TypeOK, mgrVars, timeVars, taskVars
  <1>8. CASE MgrNext
    <2>1. Head(inbox).w \in Workers /\ processed \in Items /\ processed' \in 0 .. NItems
      <3>1. Head(inbox).w \in Workers
        BY <1>8, HeadOfInbox DEF MgrNext, Extracted
      <3>2. processed \in Items /\ processed' \in 0 .. NItems
        BY <1>8, Names DEF TypeOK, MgrNext, NoneLeft, AfterNext, Items
      <3> QED BY <3>1, <3>2
    <2>2. /\ pc' \in [Threads -> Pcs]
          /\ winbox' \in [Workers -> Seq(Items)]
          /\ call' \in [Threads -> CallType]
      BY <1>8, <2>1, AssignType DEF MgrNext
    <2> QED BY <1>8, <2>1, <2>2, Names, HeadOfInbox DEF MgrNext, Extracted, AfterNext, CallType,
         TypeOK, mgrVars, timeVars, taskVars
  <1>9. CASE MgrForward
    <2>1. Head(inbox).w \in Workers /\ Head(inbox).e \in Items
      BY <1>9, Names, HeadOfInbox DEF TypeOK, MgrForward, Extracted, Workers, Items
    <2>2. /\ pc' \in [Threads -> Pcs]
          /\ winbox' \in [Workers -> Seq(Items)]
          /\ call' \in [Threads -> CallType]
      BY <1>9, <2>1, AssignType DEF MgrForward
    <2> QED BY <1>9, <2>1, <2>2, Names, HeadOfInbox DEF MgrForward, Extracted, AfterNext,
         CallType, TypeOK, mgrVars, timeVars, taskVars
  <1>10. ASSUME NEW w \in Workers, MgrJoin(w) PROVE TypeOK'
    <2>1. pc' \in [Threads -> Pcs] /\ mq' \in [Threads -> Seq(Workers \cup {CheckInbox})]
      BY <1>10, Names, DrainType DEF MgrJoin, Pcs
    <2> QED BY <1>10, <2>1 DEF MgrJoin, TypeOK, mgrVars, timeVars, taskVars
  <1>11. CASE MgrJoined
    BY <1>11, Names DEF TypeOK, Pcs, At, mgrVars, timeVars, taskVars, MgrJoined
  <1>12. CASE PollTimesOut
    BY <1>12, Names DEF TypeOK, Pcs, At, mgrVars, timeVars, taskVars, PollTimesOut
  <1>13. CASE NoTimerDue
    BY <1>13, Names DEF TypeOK, Pcs, At, mgrVars, timeVars, taskVars, NoTimerDue
  <1>14. CASE TimeoutF
    BY <1>14, Names DEF TypeOK, Pcs, At, mgrVars, timeVars, taskVars, TimeoutF
  <1>15. CASE StopWorker
    <2>1. stopNdx \in Threads
      BY <1>15, Names DEF TypeOK, StopWorker, Workers
    <2>2. pc' \in [Threads -> Pcs] /\ sigs' \in [Threads -> SUBSET {"USR2", "TERM"}]
      <3>1. CASE MustStop(stopNdx)
         BY <1>15, <2>1, <3>1, RaiseType DEF StopWorker, TypeOK
      <3>2. CASE ~MustStop(stopNdx)
         BY <1>15, <2>1, <3>2 DEF StopWorker, TypeOK
      <3> QED BY <3>1, <3>2
    <2>3. stopNdx' \in 0 .. NThreads
      BY <1>15, Names DEF TypeOK, StopWorker
    <2> QED BY <1>15, <2>2, <2>3 DEF TypeOK, StopWorker, timeVars, taskVars
  <1>16. CASE StopDone
    <2>1. pc' \in [Threads -> Pcs] /\ stopNdx' \in 0 .. NThreads
      BY <1>16, Names DEF TypeOK, Pcs, At, StopDone
    <2> QED BY <1>16, <2>1 DEF TypeOK, StopDone, ShutdownAfterTimeout, taskVars
  <1>17. CASE ShutdownF
    BY <1>17, Names DEF TypeOK, Pcs, At, mgrVars, timeVars, taskVars, ShutdownF
  <1>18. CASE PassUsr2(Mgr, "timers") /\ Keep
    BY <1>18, Names DEF TypeOK, Pcs, At, mgrVars, timeVars, taskVars, PassUsr2, Keep
  <1>19. ASSUME NEW w \in Workers, WorkerStart(w) PROVE TypeOK'
    <2>1. spawned' \in 0 .. NThreads
      BY <1>19, Names DEF TypeOK, SpawnInv, WorkerStart, Workers
    <2>2. pc' \in [Threads -> Pcs]
      BY <1>19, Names DEF TypeOK, WorkerStart, Pcs
    <2> QED BY <1>19, <2>1, <2>2, Names DEF WorkerStart, Register, TypeOK, timeVars, taskVars
  <1>20. ASSUME NEW w \in Workers, WorkerTerm(w) PROVE TypeOK'
    <2>1. pc' \in [Threads -> Pcs] /\ sigs' \in [Threads -> SUBSET {"USR2", "TERM"}]
      <3>1. /\ pc \in [Threads -> Pcs] /\ w \in Threads
            /\ sigs \in [Threads -> SUBSET {"USR2", "TERM"}]
        BY Names DEF TypeOK
      <3>2. At(w, "exiting") \in [Threads -> Pcs] /\ At(w, "run") \in [Threads -> Pcs]
        BY <3>1 DEF At, Pcs
      <3>3. [sigs EXCEPT ![w] = @ \ {"TERM"}] \in [Threads -> SUBSET {"USR2", "TERM"}]
        BY <3>1
      <3> QED BY <1>20, <3>1, <3>2, <3>3 DEF WorkerTerm
    <2> QED BY <1>20, <2>1 DEF WorkerTerm, TypeOK, mgrVars, timeVars, taskVars
  <1>21. ASSUME NEW w \in Workers, WorkerCheckInbox(w) PROVE TypeOK'
    <2>1. pc' \in [Threads -> Pcs] /\ mq' \in [Threads -> Seq(Workers \cup {CheckInbox})]
      BY <1>21, Names, DrainType DEF WorkerCheckInbox, Pcs
    <2> QED BY <1>21, <2>1 DEF WorkerCheckInbox, TypeOK, mgrVars, timeVars, taskVars
  <1>22. ASSUME NEW w \in Workers, WorkerTake(w) PROVE TypeOK'
    <2>1. winbox[w] \in Seq(Items) /\ winbox[w] # <<>>
      BY <1>22 DEF TypeOK, WorkerTake
    <2>2. Head(winbox[w]) \in Items /\ Tail(winbox[w]) \in Seq(Items)
      BY <2>1, HeadTail
    <2>3. task' \in [Workers -> Items \cup {None}] /\ winbox' \in [Workers -> Seq(Items)]
      BY <1>22, <2>2 DEF TypeOK, WorkerTake
    <2>4. pc' \in [Threads -> Pcs]
      BY <1>22, Names DEF TypeOK, Pcs, At, WorkerTake
    <2> QED BY <1>22, <2>3, <2>4 DEF TypeOK, WorkerTake, mgrVars, timeVars
  <1>23. ASSUME NEW w \in Workers, WorkerInboxEmpty(w) PROVE TypeOK'
    BY <1>23, Names DEF TypeOK, Pcs, At, mgrVars, timeVars, taskVars, WorkerInboxEmpty
  <1>39. ASSUME NEW w \in Workers, WorkerTest(w) PROVE TypeOK'
    BY <1>39, Names DEF TypeOK, Pcs, At, mgrVars, timeVars, taskVars, WorkerTest, MayGoOn
  <1>40. ASSUME NEW w \in Workers, WorkerFollowUp(w) PROVE TypeOK'
    BY <1>40, Names DEF TypeOK, Pcs, At, mgrVars, timeVars, taskVars, WorkerFollowUp
  <1>24. ASSUME NEW w \in Workers, WorkerReport(w) PROVE TypeOK'
    <2>1. task[w] \in Items /\ inbox \in Seq([e : Items, w : Workers])
      BY <1>24 DEF TypeOK, WorkerReport, NoUninitialisedReport
    <2>2. inbox' \in Seq([e : Items, w : Workers])
      BY <1>24, <2>1 DEF WorkerReport
    <2>3. VSignalTo(Mgr, CheckInbox, "drain") \in CallType
      BY Names DEF VSignalTo, CallType
    <2>4. call' \in [Threads -> CallType]
      BY <1>24, <2>3 DEF TypeOK, WorkerReport, CallType
    <2>5. pc' \in [Threads -> Pcs]
      BY <1>24 DEF TypeOK, WorkerReport, At, Aborted, Pcs
    <2>6. task' \in [Workers -> Items \cup {None}]
      BY <1>24 DEF TypeOK, WorkerReport
    <2> QED BY <1>24, <2>2, <2>4, <2>5, <2>6 DEF TypeOK, WorkerReport, CallType, mgrVars, timeVars
  <1>25. ASSUME NEW w \in Workers, WorkerLeave(w) PROVE TypeOK'
    BY <1>25, Names DEF TypeOK, Pcs, At, mgrVars, timeVars, taskVars, WorkerLeave
  <1>26. ASSUME NEW w \in Workers, WorkerExit(w) PROVE TypeOK'
    <2>1. pc' \in [Threads -> Pcs] /\ call' \in [Threads -> CallType]
      <3>1. pc \in [Threads -> Pcs] /\ call \in [Threads -> CallType] /\ w \in Threads
        BY Names DEF TypeOK, CallType
      <3>2. At(w, "cleanup") \in [Threads -> Pcs] /\ At(w, "vsig") \in [Threads -> Pcs]
        BY <3>1 DEF At, Pcs
      <3>3. VSignalTo(Mgr, w, "cleanup") \in CallType
        BY Names DEF VSignalTo, CallType
      <3>4. [call EXCEPT ![w] = VSignalTo(Mgr, w, "cleanup")] \in [Threads -> CallType]
        BY <3>1, <3>3
      <3> QED BY <1>26, <3>1, <3>2, <3>4 DEF WorkerExit
    <2> QED BY <1>26, <2>1 DEF WorkerExit, CallType, TypeOK, mgrVars, timeVars, taskVars
  <1>27. ASSUME NEW w \in Workers, PassUsr2(w, "term"), Keep PROVE TypeOK'
    BY <1>27, Names DEF TypeOK, Pcs, At, mgrVars, timeVars, taskVars, PassUsr2, Keep
  <1>28. ASSUME NEW w \in Workers, Reverse(w) PROVE TypeOK'
    <2>1. PICK o \in Outcomes \cap {"REV", "NXDOMAIN", "SERVFAIL"} : Looked(w, {o})
      BY <1>28 DEF Reverse
    <2>2. {o} \in SUBSET DnsFlags
      BY DEF DnsFlags
    <2> QED BY <2>1, <2>2, LookedType
  <1>29. ASSUME NEW w \in Workers, Forward(w) PROVE TypeOK'
    <2>1. "MATCH" \in Outcomes /\ Looked(w, {"FWD"}) => TypeOK'
      BY LookedType DEF DnsFlags
    <2>2. ASSUME NEW o \in Outcomes \cap {"MISMATCH", "NONE", "FAIL"}, Looked(w, {"FWD", o})
          PROVE  TypeOK'
      <3>1. {"FWD", o} \in SUBSET DnsFlags
        BY DEF DnsFlags
      <3> QED BY <2>2, <3>1, LookedType
    <2> QED BY <1>29, <2>1, <2>2 DEF Forward
  <1>30. ASSUME NEW w \in Workers, LookupFails(w) PROVE TypeOK'
    BY <1>30, Names DEF TypeOK, Pcs, At, mgrVars, timeVars, taskVars, Aborted, LookupFails
  <1>31. ASSUME NEW t \in Threads, EnterPoll(t), Keep PROVE TypeOK'
    BY <1>31, Names DEF TypeOK, Pcs, At, mgrVars, timeVars, taskVars, EnterPoll, Keep
  <1>32. ASSUME NEW t \in Threads, ServeUsr2(t), Keep PROVE TypeOK'
    BY <1>32, Names DEF TypeOK, Pcs, At, mgrVars, timeVars, taskVars, ServeUsr2, Keep
  <1>33. ASSUME NEW t \in Threads, DrainEmpty(t), Keep PROVE TypeOK'
    BY <1>33, Names DEF TypeOK, Pcs, At, mgrVars, timeVars, taskVars, DrainEmpty, Keep
  <1>34. ASSUME NEW t \in Threads, VSignalNotFound(t), Keep PROVE TypeOK'
    <2>1. call[t].ret \in Pcs
      BY <1>34, Names DEF CallInv, VSignalNotFound, VSignalTo, Pcs
    <2>2. pc' \in [Threads -> Pcs]
      BY <1>34, <2>1 DEF TypeOK, VSignalNotFound, At
    <2>3. NoCall \in CallType
      BY Names DEF NoCall, CallType
    <2>4. call' \in [Threads -> CallType]
      BY <1>34, <2>3 DEF TypeOK, VSignalNotFound, CallType
    <2> QED
      BY <1>34, <2>2, <2>4
         DEF TypeOK, VSignalNotFound, CallType, Keep, mgrVars, timeVars, taskVars
  <1>35. ASSUME NEW t \in Threads, VSignalSubmit(t), Keep PROVE TypeOK'
    <2>1. call[t].vsig \in Workers \cup {CheckInbox}
      BY <1>35, Names DEF CallInv, VSignalSubmit, VSignalTo
    <2>2. mq' \in [Threads -> Seq(Workers \cup {CheckInbox})]
      BY <1>35, <2>1 DEF TypeOK, VSignalSubmit
    <2>3. pc' \in [Threads -> Pcs]
      BY <1>35 DEF TypeOK, VSignalSubmit, At, Aborted, Pcs
    <2> QED
      BY <1>35, <2>2, <2>3 DEF TypeOK, VSignalSubmit, Keep, mgrVars, timeVars, taskVars
  <1>36. ASSUME NEW t \in Threads, VSignalKill(t), Keep PROVE TypeOK'
    <2>1. call[t].to \in Threads /\ call[t].ret \in Pcs
      BY <1>36, Names DEF CallInv, VSignalKill, VSignalTo, Pcs
    <2>2. At(t, call[t].ret) \in [Threads -> Pcs]
      BY <2>1 DEF TypeOK, At
    <2>3. pc' \in [Threads -> Pcs] /\ sigs' \in [Threads -> SUBSET {"USR2", "TERM"}]
      BY <1>36, <2>1, <2>2, RaiseType DEF VSignalKill
    <2>4. call' \in [Threads -> [to : Threads \cup {None}, vsig : Workers \cup {CheckInbox, -1},
                               ret : {"dispatch", "inbox", "drain", "cleanup", "none"}]]
      BY <1>36 DEF TypeOK, VSignalKill, NoCall
    <2> QED
      BY <1>36, <2>3, <2>4 DEF TypeOK, VSignalKill, Keep, mgrVars, timeVars, taskVars
  <1>37. ASSUME NEW t \in Threads, Cleanup(t), Keep PROVE TypeOK'
    <2>1. pc' \in [Threads -> Pcs]
      BY <1>37 DEF TypeOK, Pcs, At, Cleanup
    <2>2. mq' \in [Threads -> Seq(Workers \cup {CheckInbox})]
      BY <1>37 DEF TypeOK, Cleanup
    <2>3. registered' \in SUBSET Threads
      BY <1>37 DEF TypeOK, Cleanup
    <2> QED
      BY <1>37, <2>1, <2>2, <2>3 DEF TypeOK, Cleanup, Keep, mgrVars, timeVars, taskVars
  <1>38. CASE UNCHANGED vars
    BY <1>38, Names DEF TypeOK, Pcs, At, mgrVars, timeVars, taskVars, vars, esVars
  <1> QED
    BY <1>1, <1>2, <1>3, <1>4, <1>5, <1>6, <1>7, <1>8, <1>9, <1>10, <1>11, <1>12, <1>13,
       <1>14, <1>15, <1>16, <1>17, <1>18, <1>19, <1>20, <1>21, <1>22, <1>23, <1>24, <1>25,
       <1>26, <1>27, <1>28, <1>29, <1>30, <1>31, <1>32, <1>33, <1>34, <1>35, <1>36, <1>37,
       <1>38, <1>39, <1>40
       DEF Next, MgrStep, WorkerStep, Resolve, Engine

\* Raising a signal moves a thread only out of poll().
LEMMA RaisePc ==
  ASSUME NEW pcs \in [Threads -> Pcs], NEW d, NEW s, Raise(pcs, d, s)
  PROVE  \A t \in Threads : pc'[t] = pcs[t] \/ (pcs[t] = "poll" /\ pc'[t] = "usr2")
  <1> TAKE t \in Threads
  <1>1. CASE pcs[d] = "poll" /\ t = d
    BY <1>1 DEF Raise, Woken
  <1>2. CASE ~(pcs[d] = "poll" /\ t = d)
    BY <1>2 DEF Raise, Woken
  <1> QED BY <1>1, <1>2

\* Stopping a worker moves a thread only out of poll().
LEMMA StopPc ==
  ASSUME TypeOK, StopWorker
  PROVE  \A t \in Threads : pc'[t] = pc[t] \/ (pc[t] = "poll" /\ pc'[t] = "usr2")
  <1>1. CASE MustStop(stopNdx)
    BY <1>1, RaisePc DEF TypeOK, StopWorker
  <1>2. CASE ~MustStop(stopNdx)
    <2>1. pc' = pc
      BY <1>2 DEF StopWorker
    <2> QED BY <2>1
  <1> QED BY <1>1, <1>2

\* Where the steps of a worker that is about to end lead.
LEMMA EndingPc ==
  ASSUME TypeOK, NEW w \in Workers, WorkerTerm(w) \/ WorkerExit(w)
  PROVE  /\ \A t \in Threads : t # w => pc'[t] = pc[t] /\ call'[t] = call[t]
         /\ pc'[Mgr] = pc[Mgr] /\ call'[Mgr] = call[Mgr]
         /\ pc[w] \in {"term", "exiting"}
         /\ \/ pc'[w] \in {"exiting", "run", "cleanup"} /\ call'[w] = call[w]
            \/ pc'[w] = "vsig" /\ call'[w] = VSignalTo(Mgr, w, "cleanup")
         /\ UNCHANGED <<mq, mgrVars, taskVars>>
  <1>1. /\ w \in Threads /\ w # Mgr /\ Mgr \in Threads
        /\ DOMAIN pc = Threads /\ DOMAIN call = Threads
    BY Names DEF TypeOK
  <1>2. ASSUME NEW to, pc' = At(w, to)
        PROVE  /\ \A t \in Threads : t # w => pc'[t] = pc[t]
               /\ pc'[Mgr] = pc[Mgr] /\ pc'[w] = to
    BY <1>1, <1>2 DEF At
  <1>3. CASE WorkerTerm(w)
    <2>1. call' = call /\ pc[w] = "term" /\ UNCHANGED <<mq, mgrVars, taskVars>>
      BY <1>3 DEF WorkerTerm
    <2>2. pc' = At(w, "exiting") \/ pc' = At(w, "run")
      BY <1>3 DEF WorkerTerm
    <2> QED BY <1>1, <1>2, <2>1, <2>2
  <1>4. CASE WorkerExit(w)
    <2>1. pc[w] = "exiting" /\ UNCHANGED <<mq, mgrVars, taskVars>>
      BY <1>4 DEF WorkerExit
    <2>2. \/ pc' = At(w, "cleanup") /\ call' = call
          \/ pc' = At(w, "vsig") /\ call' = [call EXCEPT ![w] = VSignalTo(Mgr, w, "cleanup")]
      BY <1>4 DEF WorkerExit
    <2> QED BY <1>1, <1>2, <2>1, <2>2
  <1> QED BY <1>3, <1>4

\* Where a lookup leads.
LEMMA LookedPc ==
  ASSUME TypeOK, NEW w \in Workers, Reverse(w) \/ Forward(w)
  PROVE  /\ \A t \in Threads : t # w => pc'[t] = pc[t]
         /\ pc'[Mgr] = pc[Mgr] /\ pc[w] = "lookup" /\ pc'[w] \in {"check", "post"}
         /\ UNCHANGED <<mq, call, mgrVars, inbox, winbox, task>>
  <1>1. w \in Threads /\ w # Mgr /\ Mgr \in Threads /\ DOMAIN pc = Threads
    BY Names DEF TypeOK
  <1>2. /\ pc[w] = "lookup" /\ pc' = At(w, IF "EXIT" \in flags THEN "post" ELSE "check")
        /\ UNCHANGED <<mq, call, mgrVars, inbox, winbox, task>>
    BY DEF Reverse, Forward, Looked
  <1> QED BY <1>1, <1>2 DEF At

\* What handing out an entry does to the calls.
LEMMA AssignCall ==
  ASSUME TypeOK, CallInv, NEW w \in Workers, NEW e, NEW ret \in {"dispatch", "inbox"},
         Assign(w, e, ret)
  PROVE  CallInv'
  <1>1. call'[Mgr] = VSignalTo(w, CheckInbox, ret)
    BY Names DEF TypeOK, Assign
  <1>2. \A v \in Workers : pc'[v] \in {pc[v], "aborted"} /\ call'[v] = call[v]
    BY Names DEF TypeOK, Assign, At, Aborted
  <1> QED BY <1>1, <1>2, Names DEF CallInv, VSignalTo

\* A step keeps what is known of the calls of ES_VSignal().
LEMMA CallStep ==
  ASSUME TypeOK, CallInv, [Next]_vars
  PROVE  CallInv'
  <1>1. CASE Spawn
    BY <1>1, Names DEF TypeOK, CallInv, VSignalTo, Spawn
  <1>2. CASE SpawnDone
    BY <1>2, Names DEF TypeOK, At, CallInv, VSignalTo, SpawnDone
  <1>3. CASE Dispatch
    <2>1. processed \in Workers
      BY <1>3, Names, HeadOfInbox DEF TypeOK, Dispatch, Workers
    <2> QED BY <1>3, <2>1, AssignCall DEF Dispatch
  <1>4. CASE DispatchDone
    BY <1>4, Names DEF TypeOK, At, CallInv, VSignalTo, DispatchDone
  <1>5. CASE MgrCheckInbox
    BY <1>5, Names DEF TypeOK, At, CallInv, VSignalTo, MgrCheckInbox, Drain
  <1>6. CASE MgrInboxEmpty
    BY <1>6, Names DEF TypeOK, At, CallInv, VSignalTo, MgrInboxEmpty
  <1>7. CASE MgrPrune
    BY <1>7, Names DEF TypeOK, CallInv, VSignalTo, MgrPrune, Raise, Woken
  <1>8. CASE MgrNext
    <2>1. Head(inbox).w \in Workers
      BY <1>8, Names, HeadOfInbox DEF TypeOK, MgrNext, Extracted
    <2> QED BY <1>8, <2>1, AssignCall DEF MgrNext
  <1>9. CASE MgrForward
    <2>1. Head(inbox).w \in Workers
      BY <1>9, Names, HeadOfInbox DEF TypeOK, MgrForward, Extracted
    <2> QED BY <1>9, <2>1, AssignCall DEF MgrForward
  <1>10. ASSUME NEW w \in Workers, MgrJoin(w) PROVE CallInv'
    BY <1>10, Names DEF TypeOK, At, CallInv, VSignalTo, MgrJoin, Drain
  <1>11. CASE MgrJoined
    BY <1>11, Names DEF TypeOK, At, CallInv, VSignalTo, MgrJoined
  <1>12. CASE PollTimesOut
    BY <1>12, Names DEF TypeOK, At, CallInv, VSignalTo, PollTimesOut
  <1>13. CASE NoTimerDue
    BY <1>13, Names DEF TypeOK, At, CallInv, VSignalTo, NoTimerDue
  <1>14. CASE TimeoutF
    BY <1>14, Names DEF TypeOK, At, CallInv, VSignalTo, TimeoutF
  <1>15. CASE StopWorker
    BY <1>15, StopPc, Names DEF StopWorker, timeVars, taskVars, CallInv
  <1>16. CASE StopDone
    BY <1>16, Names DEF TypeOK, At, CallInv, VSignalTo, StopDone, ShutdownAfterTimeout
  <1>17. CASE ShutdownF
    BY <1>17, Names DEF TypeOK, At, CallInv, VSignalTo, ShutdownF
  <1>18. CASE PassUsr2(Mgr, "timers") /\ Keep
    BY <1>18, Names DEF TypeOK, At, CallInv, VSignalTo, PassUsr2, Keep
  <1>19. ASSUME NEW w \in Workers, WorkerStart(w) PROVE CallInv'
    BY <1>19, Names DEF TypeOK, CallInv, VSignalTo, WorkerStart, Register
  <1>20. ASSUME NEW w \in Workers, WorkerTerm(w) PROVE CallInv'
    BY <1>20, EndingPc, Names DEF CallInv, VSignalTo
  <1>21. ASSUME NEW w \in Workers, WorkerCheckInbox(w) PROVE CallInv'
    BY <1>21, Names DEF TypeOK, At, CallInv, VSignalTo, WorkerCheckInbox, Drain
  <1>22. ASSUME NEW w \in Workers, WorkerTake(w) PROVE CallInv'
    BY <1>22, Names DEF TypeOK, At, CallInv, VSignalTo, WorkerTake
  <1>23. ASSUME NEW w \in Workers, WorkerInboxEmpty(w) PROVE CallInv'
    BY <1>23, Names DEF TypeOK, At, CallInv, VSignalTo, WorkerInboxEmpty
  <1>39. ASSUME NEW w \in Workers, WorkerTest(w) PROVE CallInv'
    BY <1>39, Names DEF TypeOK, At, CallInv, VSignalTo, WorkerTest, MayGoOn
  <1>40. ASSUME NEW w \in Workers, WorkerFollowUp(w) PROVE CallInv'
    BY <1>40, Names DEF TypeOK, At, CallInv, VSignalTo, WorkerFollowUp
  <1>24. ASSUME NEW w \in Workers, WorkerReport(w) PROVE CallInv'
    BY <1>24, Names DEF TypeOK, At, Aborted, CallInv, VSignalTo, WorkerReport
  <1>25. ASSUME NEW w \in Workers, WorkerLeave(w) PROVE CallInv'
    BY <1>25, Names DEF TypeOK, At, CallInv, VSignalTo, WorkerLeave
  <1>26. ASSUME NEW w \in Workers, WorkerExit(w) PROVE CallInv'
    BY <1>26, EndingPc, Names DEF CallInv, VSignalTo
  <1>27. ASSUME NEW w \in Workers, PassUsr2(w, "term"), Keep PROVE CallInv'
    BY <1>27, Names DEF TypeOK, At, CallInv, VSignalTo, PassUsr2, Keep
  <1>28. ASSUME NEW w \in Workers, Reverse(w) PROVE CallInv'
    BY <1>28, LookedPc, Names DEF CallInv
  <1>29. ASSUME NEW w \in Workers, Forward(w) PROVE CallInv'
    BY <1>29, LookedPc, Names DEF CallInv
  <1>30. ASSUME NEW w \in Workers, LookupFails(w) PROVE CallInv'
    BY <1>30, Names DEF TypeOK, Aborted, CallInv, VSignalTo, LookupFails
  <1>31. ASSUME NEW t \in Threads, EnterPoll(t), Keep PROVE CallInv'
    BY <1>31, Names DEF TypeOK, At, CallInv, VSignalTo, EnterPoll, Keep
  <1>32. ASSUME NEW t \in Threads, ServeUsr2(t), Keep PROVE CallInv'
    BY <1>32, Names DEF TypeOK, At, CallInv, VSignalTo, ServeUsr2, Keep
  <1>33. ASSUME NEW t \in Threads, DrainEmpty(t), Keep PROVE CallInv'
    BY <1>33, Names DEF TypeOK, At, CallInv, VSignalTo, DrainEmpty, Keep
  <1>34. ASSUME NEW t \in Threads, VSignalNotFound(t), Keep PROVE CallInv'
    BY <1>34, Names DEF TypeOK, At, CallInv, VSignalTo, VSignalNotFound, Keep
  <1>35. ASSUME NEW t \in Threads, VSignalSubmit(t), Keep PROVE CallInv'
    BY <1>35, Names DEF TypeOK, At, Aborted, CallInv, VSignalTo, VSignalSubmit, Keep
  <1>36. ASSUME NEW t \in Threads, VSignalKill(t), Keep PROVE CallInv'
    BY <1>36, Names DEF TypeOK, At, CallInv, VSignalTo, VSignalKill, Raise, Woken, Keep
  <1>37. ASSUME NEW t \in Threads, Cleanup(t), Keep PROVE CallInv'
    BY <1>37, Names DEF TypeOK, At, CallInv, VSignalTo, Cleanup, Keep
  <1>38. CASE UNCHANGED vars
    BY <1>38, Names DEF TypeOK, CallInv, VSignalTo, vars, esVars
  <1> QED
    BY <1>1, <1>2, <1>3, <1>4, <1>5, <1>6, <1>7, <1>8, <1>9, <1>10, <1>11, <1>12, <1>13,
       <1>14, <1>15, <1>16, <1>17, <1>18, <1>19, <1>20, <1>21, <1>22, <1>23, <1>24, <1>25,
       <1>26, <1>27, <1>28, <1>29, <1>30, <1>31, <1>32, <1>33, <1>34, <1>35, <1>36, <1>37,
       <1>38, <1>39, <1>40
       DEF Next, MgrStep, WorkerStep, Resolve, Engine

\* A step keeps what is known of a worker that starts.
LEMMA SpawnStep ==
  ASSUME TypeOK, CallInv, SpawnInv, [Next]_vars
  PROVE  SpawnInv'
  <1>1. CASE Spawn
    BY <1>1, Names DEF TypeOK, mgrVars, SpawnInv, Spawn
  <1>2. CASE SpawnDone
    BY <1>2, Names DEF TypeOK, At, mgrVars, SpawnInv, SpawnDone
  <1>3. CASE Dispatch
    BY <1>3, Names DEF TypeOK, At, Aborted, SpawnInv, VSignalTo, Dispatch, Assign
  <1>4. CASE DispatchDone
    BY <1>4, Names DEF TypeOK, At, mgrVars, SpawnInv, DispatchDone
  <1>5. CASE MgrCheckInbox
    BY <1>5, Names DEF TypeOK, At, mgrVars, SpawnInv, MgrCheckInbox, Drain
  <1>6. CASE MgrInboxEmpty
    BY <1>6, Names DEF TypeOK, At, mgrVars, SpawnInv, MgrInboxEmpty
  <1>7. CASE MgrPrune
    BY <1>7, Names DEF TypeOK, mgrVars, SpawnInv, MgrPrune, Raise, Woken
  <1>8. CASE MgrNext
    BY <1>8, Names DEF TypeOK, At, Aborted, SpawnInv, MgrNext, Extracted, Assign
  <1>9. CASE MgrForward
    BY <1>9, Names DEF TypeOK, At, Aborted, mgrVars, SpawnInv, MgrForward, Extracted,
       Assign
  <1>10. ASSUME NEW w \in Workers, MgrJoin(w) PROVE SpawnInv'
    BY <1>10, Names DEF TypeOK, At, SpawnInv, MgrJoin, Drain
  <1>11. CASE MgrJoined
    BY <1>11, Names DEF TypeOK, At, SpawnInv, MgrJoined
  <1>12. CASE PollTimesOut
    BY <1>12, Names DEF TypeOK, At, mgrVars, SpawnInv, PollTimesOut
  <1>13. CASE NoTimerDue
    BY <1>13, Names DEF TypeOK, At, mgrVars, SpawnInv, NoTimerDue
  <1>14. CASE TimeoutF
    BY <1>14, Names DEF TypeOK, At, mgrVars, SpawnInv, TimeoutF
  <1>15. CASE StopWorker
    <2>1. spawned' = spawned
      BY <1>15 DEF StopWorker
    <2>2. pc[Mgr] # "await" /\ pc[Mgr] # "spawn" /\ pc'[Mgr] = pc[Mgr]
      BY <1>15, StopPc, Names DEF StopWorker
    <2> QED BY <2>1, <2>2, <1>15, StopPc, Names DEF SpawnInv
  <1>16. CASE StopDone
    BY <1>16, Names DEF TypeOK, At, SpawnInv, StopDone, ShutdownAfterTimeout
  <1>17. CASE ShutdownF
    BY <1>17, Names DEF TypeOK, At, mgrVars, SpawnInv, ShutdownF
  <1>18. CASE PassUsr2(Mgr, "timers") /\ Keep
    BY <1>18, Names DEF TypeOK, At, mgrVars, SpawnInv, PassUsr2, Keep
  <1>19. ASSUME NEW w \in Workers, WorkerStart(w) PROVE SpawnInv'
    BY <1>19, Names DEF TypeOK, SpawnInv, WorkerStart, Register
  <1>20. ASSUME NEW w \in Workers, WorkerTerm(w) PROVE SpawnInv'
    <2>1. /\ pc'[Mgr] = pc[Mgr] /\ spawned' = spawned
          /\ \A v \in Workers : v # w => pc'[v] = pc[v]
          /\ pc'[w] \notin {"starting", "unborn"} /\ pc[w] \notin {"starting", "unborn"}
      BY <1>20, EndingPc, Names DEF mgrVars
    <2> QED BY <2>1 DEF SpawnInv
  <1>21. ASSUME NEW w \in Workers, WorkerCheckInbox(w) PROVE SpawnInv'
    BY <1>21, Names DEF TypeOK, At, mgrVars, SpawnInv, WorkerCheckInbox, Drain
  <1>22. ASSUME NEW w \in Workers, WorkerTake(w) PROVE SpawnInv'
    BY <1>22, Names DEF TypeOK, At, mgrVars, SpawnInv, WorkerTake
  <1>23. ASSUME NEW w \in Workers, WorkerInboxEmpty(w) PROVE SpawnInv'
    BY <1>23, Names DEF TypeOK, At, mgrVars, SpawnInv, WorkerInboxEmpty
  <1>39. ASSUME NEW w \in Workers, WorkerTest(w) PROVE SpawnInv'
    BY <1>39, Names DEF TypeOK, At, mgrVars, SpawnInv, WorkerTest, MayGoOn
  <1>40. ASSUME NEW w \in Workers, WorkerFollowUp(w) PROVE SpawnInv'
    BY <1>40, Names DEF TypeOK, At, mgrVars, SpawnInv, WorkerFollowUp
  <1>24. ASSUME NEW w \in Workers, WorkerReport(w) PROVE SpawnInv'
    BY <1>24, Names DEF TypeOK, At, Aborted, mgrVars, SpawnInv, VSignalTo, WorkerReport
  <1>25. ASSUME NEW w \in Workers, WorkerLeave(w) PROVE SpawnInv'
    BY <1>25, Names DEF TypeOK, At, mgrVars, SpawnInv, WorkerLeave
  <1>26. ASSUME NEW w \in Workers, WorkerExit(w) PROVE SpawnInv'
    <2>1. /\ pc'[Mgr] = pc[Mgr] /\ spawned' = spawned
          /\ \A v \in Workers : v # w => pc'[v] = pc[v]
          /\ pc'[w] \notin {"starting", "unborn"} /\ pc[w] \notin {"starting", "unborn"}
      BY <1>26, EndingPc, Names DEF mgrVars
    <2> QED BY <2>1 DEF SpawnInv
  <1>27. ASSUME NEW w \in Workers, PassUsr2(w, "term"), Keep PROVE SpawnInv'
    BY <1>27, Names DEF TypeOK, At, mgrVars, SpawnInv, PassUsr2, Keep
  <1>28. ASSUME NEW w \in Workers, Reverse(w) PROVE SpawnInv'
    BY <1>28, LookedPc, Names DEF SpawnInv, mgrVars
  <1>29. ASSUME NEW w \in Workers, Forward(w) PROVE SpawnInv'
    BY <1>29, LookedPc, Names DEF SpawnInv, mgrVars
  <1>30. ASSUME NEW w \in Workers, LookupFails(w) PROVE SpawnInv'
    BY <1>30, Names DEF TypeOK, Aborted, mgrVars, SpawnInv, LookupFails
  <1>31. ASSUME NEW t \in Threads, EnterPoll(t), Keep PROVE SpawnInv'
    BY <1>31, Names DEF TypeOK, At, mgrVars, SpawnInv, EnterPoll, Keep
  <1>32. ASSUME NEW t \in Threads, ServeUsr2(t), Keep PROVE SpawnInv'
    BY <1>32, Names DEF TypeOK, At, mgrVars, SpawnInv, ServeUsr2, Keep
  <1>33. ASSUME NEW t \in Threads, DrainEmpty(t), Keep PROVE SpawnInv'
    BY <1>33, Names DEF TypeOK, At, mgrVars, SpawnInv, DrainEmpty, Keep
  <1>34. ASSUME NEW t \in Threads, VSignalNotFound(t), Keep PROVE SpawnInv'
    BY <1>34, Names DEF TypeOK, At, mgrVars, CallInv, SpawnInv, VSignalTo, VSignalNotFound,
       Keep
  <1>35. ASSUME NEW t \in Threads, VSignalSubmit(t), Keep PROVE SpawnInv'
    BY <1>35, Names DEF TypeOK, At, Aborted, mgrVars, CallInv, SpawnInv, VSignalTo,
       VSignalSubmit, Keep
  <1>36. ASSUME NEW t \in Threads, VSignalKill(t), Keep PROVE SpawnInv'
    BY <1>36, Names DEF TypeOK, At, mgrVars, CallInv, SpawnInv, VSignalTo, VSignalKill, Raise,
       Woken, Keep
  <1>37. ASSUME NEW t \in Threads, Cleanup(t), Keep PROVE SpawnInv'
    BY <1>37, Names DEF TypeOK, At, mgrVars, SpawnInv, Cleanup, Keep
  <1>38. CASE UNCHANGED vars
    BY <1>38, Names DEF TypeOK, mgrVars, SpawnInv, vars, esVars
  <1> QED
    BY <1>1, <1>2, <1>3, <1>4, <1>5, <1>6, <1>7, <1>8, <1>9, <1>10, <1>11, <1>12, <1>13,
       <1>14, <1>15, <1>16, <1>17, <1>18, <1>19, <1>20, <1>21, <1>22, <1>23, <1>24, <1>25,
       <1>26, <1>27, <1>28, <1>29, <1>30, <1>31, <1>32, <1>33, <1>34, <1>35, <1>36, <1>37,
       <1>38, <1>39, <1>40
       DEF Next, MgrStep, WorkerStep, Resolve, Engine

\* A step keeps what is known of the tasks in hand.
LEMMA HoldStep ==
  ASSUME TypeOK, CallInv, SpawnInv, HoldInv, [Next]_vars
  PROVE  HoldInv'
  <1>1. CASE Spawn
    <2>1. \A v \in Workers : v # spawned => pc'[v] = pc[v]
      BY <1>1, Names DEF TypeOK, Spawn
    <2>2. spawned \in Workers /\ pc[spawned] = "unborn" /\ pc'[spawned] = "starting"
      BY <1>1, Names DEF TypeOK, Spawn, SpawnInv, Workers
    <2> QED BY <1>1, <2>1, <2>2, Names DEF HoldInv, Spawn, taskVars
  <1>2. CASE SpawnDone
    BY <1>2, Names DEF TypeOK, At, taskVars, HoldInv, SpawnDone
  <1>3. CASE Dispatch
    BY <1>3, Names DEF TypeOK, At, Aborted, HoldInv, Dispatch, Assign
  <1>4. CASE DispatchDone
    BY <1>4, Names DEF TypeOK, At, taskVars, HoldInv, DispatchDone
  <1>5. CASE MgrCheckInbox
    BY <1>5, Names DEF TypeOK, At, taskVars, HoldInv, MgrCheckInbox, Drain
  <1>6. CASE MgrInboxEmpty
    BY <1>6, Names DEF TypeOK, At, taskVars, HoldInv, MgrInboxEmpty
  <1>7. CASE MgrPrune
    BY <1>7, Names DEF TypeOK, HoldInv, MgrPrune, Raise, Woken
  <1>8. CASE MgrNext
    BY <1>8, Names DEF TypeOK, At, Aborted, HoldInv, MgrNext, Assign
  <1>9. CASE MgrForward
    BY <1>9, Names DEF TypeOK, At, Aborted, HoldInv, MgrForward, Assign
  <1>10. ASSUME NEW w \in Workers, MgrJoin(w) PROVE HoldInv'
    BY <1>10, Names DEF TypeOK, At, taskVars, HoldInv, MgrJoin, Drain
  <1>11. CASE MgrJoined
    BY <1>11, Names DEF TypeOK, At, taskVars, HoldInv, MgrJoined
  <1>12. CASE PollTimesOut
    BY <1>12, Names DEF TypeOK, At, taskVars, HoldInv, PollTimesOut
  <1>13. CASE NoTimerDue
    BY <1>13, Names DEF TypeOK, At, taskVars, HoldInv, NoTimerDue
  <1>14. CASE TimeoutF
    BY <1>14, Names DEF TypeOK, At, taskVars, HoldInv, TimeoutF
  <1>15. CASE StopWorker
    BY <1>15, StopPc, Names DEF StopWorker, timeVars, taskVars, HoldInv
  <1>16. CASE StopDone
    BY <1>16, Names DEF TypeOK, At, taskVars, HoldInv, StopDone, ShutdownAfterTimeout
  <1>17. CASE ShutdownF
    BY <1>17, Names DEF TypeOK, At, taskVars, HoldInv, ShutdownF
  <1>18. CASE PassUsr2(Mgr, "timers") /\ Keep
    BY <1>18, Names DEF TypeOK, At, taskVars, HoldInv, PassUsr2, Keep
  <1>19. ASSUME NEW w \in Workers, WorkerStart(w) PROVE HoldInv'
    BY <1>19, Names DEF TypeOK, taskVars, HoldInv, WorkerStart, Register
  <1>20. ASSUME NEW w \in Workers, WorkerTerm(w) PROVE HoldInv'
    BY <1>20, EndingPc, Names DEF HoldInv, taskVars
  <1>21. ASSUME NEW w \in Workers, WorkerCheckInbox(w) PROVE HoldInv'
    BY <1>21, Names DEF TypeOK, At, taskVars, HoldInv, WorkerCheckInbox, Drain
  <1>22. ASSUME NEW w \in Workers, WorkerTake(w) PROVE HoldInv'
    BY <1>22, Names DEF TypeOK, At, HoldInv, WorkerTake
  <1>23. ASSUME NEW w \in Workers, WorkerInboxEmpty(w) PROVE HoldInv'
    BY <1>23, Names DEF TypeOK, At, taskVars, HoldInv, WorkerInboxEmpty
  <1>39. ASSUME NEW w \in Workers, WorkerTest(w) PROVE HoldInv'
    BY <1>39, Names DEF TypeOK, At, taskVars, HoldInv, WorkerTest, MayGoOn
  <1>40. ASSUME NEW w \in Workers, WorkerFollowUp(w) PROVE HoldInv'
    BY <1>40, Names DEF TypeOK, At, taskVars, HoldInv, WorkerFollowUp
  <1>24. ASSUME NEW w \in Workers, WorkerReport(w) PROVE HoldInv'
    BY <1>24, Names DEF TypeOK, At, Aborted, HoldInv, WorkerReport
  <1>25. ASSUME NEW w \in Workers, WorkerLeave(w) PROVE HoldInv'
    BY <1>25, Names DEF TypeOK, At, HoldInv, WorkerLeave
  <1>26. ASSUME NEW w \in Workers, WorkerExit(w) PROVE HoldInv'
    BY <1>26, EndingPc, Names DEF HoldInv, taskVars
  <1>27. ASSUME NEW w \in Workers, PassUsr2(w, "term"), Keep PROVE HoldInv'
    BY <1>27, Names DEF TypeOK, At, taskVars, HoldInv, PassUsr2, Keep
  <1>28. ASSUME NEW w \in Workers, Reverse(w) PROVE HoldInv'
    BY <1>28, LookedPc, Names DEF HoldInv
  <1>29. ASSUME NEW w \in Workers, Forward(w) PROVE HoldInv'
    BY <1>29, LookedPc, Names DEF HoldInv
  <1>30. ASSUME NEW w \in Workers, LookupFails(w) PROVE HoldInv'
    BY <1>30, Names DEF TypeOK, Aborted, taskVars, HoldInv, LookupFails
  <1>31. ASSUME NEW t \in Threads, EnterPoll(t), Keep PROVE HoldInv'
    BY <1>31, Names DEF TypeOK, At, taskVars, HoldInv, EnterPoll, Keep
  <1>32. ASSUME NEW t \in Threads, ServeUsr2(t), Keep PROVE HoldInv'
    BY <1>32, Names DEF TypeOK, At, taskVars, HoldInv, ServeUsr2, Keep
  <1>33. ASSUME NEW t \in Threads, DrainEmpty(t), Keep PROVE HoldInv'
    BY <1>33, Names DEF TypeOK, At, taskVars, HoldInv, DrainEmpty, Keep
  <1>34. ASSUME NEW t \in Threads, VSignalNotFound(t), Keep PROVE HoldInv'
    BY <1>34, Names DEF TypeOK, At, taskVars, CallInv, HoldInv, VSignalNotFound, Keep
  <1>35. ASSUME NEW t \in Threads, VSignalSubmit(t), Keep PROVE HoldInv'
    BY <1>35, Names DEF TypeOK, At, Aborted, taskVars, CallInv, HoldInv, VSignalSubmit, Keep
  <1>36. ASSUME NEW t \in Threads, VSignalKill(t), Keep PROVE HoldInv'
    BY <1>36, Names DEF TypeOK, At, VSignalTo, taskVars, CallInv, HoldInv, VSignalKill,
       Raise, Woken, Keep
  <1>37. ASSUME NEW t \in Threads, Cleanup(t), Keep PROVE HoldInv'
    BY <1>37, Names DEF TypeOK, At, taskVars, HoldInv, Cleanup, Keep
  <1>38. CASE UNCHANGED vars
    BY <1>38, Names DEF TypeOK, taskVars, HoldInv, vars, esVars
  <1> QED
    BY <1>1, <1>2, <1>3, <1>4, <1>5, <1>6, <1>7, <1>8, <1>9, <1>10, <1>11, <1>12, <1>13,
       <1>14, <1>15, <1>16, <1>17, <1>18, <1>19, <1>20, <1>21, <1>22, <1>23, <1>24, <1>25,
       <1>26, <1>27, <1>28, <1>29, <1>30, <1>31, <1>32, <1>33, <1>34, <1>35, <1>36, <1>37,
       <1>38, <1>39, <1>40
       DEF Next, MgrStep, WorkerStep, Resolve, Engine

---------------------------------------------------------------------------
(* The hand-over of tasks                                                  *)

\* The steps that hand an entry over between manager and worker.
Moves ==
  \/ Dispatch \/ MgrPrune \/ MgrNext \/ MgrForward
  \/ \E w \in Workers : WorkerTake(w) \/ WorkerReport(w)

\* What all other steps have in common.
Quiet ==
  /\ UNCHANGED <<winbox, inbox, processed>>
  /\ \A w \in Workers : InHand(w)' \subseteq InHand(w)
  /\ Early' => Early

\* A step hands an entry over or is quiet.
LEMMA QuietStep ==
  ASSUME TypeOK, CallInv, SpawnInv, HoldInv, [Next]_vars
  PROVE  Quiet \/ Moves
  <1>1. CASE Spawn
    BY <1>1, Names DEF TypeOK, mgrVars, taskVars, HoldInv, Quiet, InHand, Serving, Early, Spawn
  <1>2. CASE SpawnDone
    BY <1>2, Names DEF TypeOK, At, mgrVars, taskVars, HoldInv, Quiet, InHand, Serving, Early, SpawnDone
  <1>3. CASE Dispatch
    BY <1>3 DEF Moves
  <1>4. CASE DispatchDone
    BY <1>4, Names DEF TypeOK, At, mgrVars, taskVars, HoldInv, Quiet, InHand, Serving, Early,
       DispatchDone
  <1>5. CASE MgrCheckInbox
    BY <1>5, Names DEF TypeOK, At, mgrVars, taskVars, HoldInv, Quiet, InHand, Serving, Early,
       MgrCheckInbox, Drain
  <1>6. CASE MgrInboxEmpty
    BY <1>6, Names DEF TypeOK, At, mgrVars, taskVars, HoldInv, Quiet, InHand, Serving, Early,
       MgrInboxEmpty
  <1>7. CASE MgrPrune
    BY <1>7 DEF Moves
  <1>8. CASE MgrNext
    BY <1>8 DEF Moves
  <1>9. CASE MgrForward
    BY <1>9 DEF Moves
  <1>10. ASSUME NEW w \in Workers, MgrJoin(w) PROVE Quiet \/ Moves
    BY <1>10, Names DEF TypeOK, At, taskVars, HoldInv, Quiet, InHand, Serving, Early, MgrJoin, Drain
  <1>11. CASE MgrJoined
    BY <1>11, Names DEF TypeOK, At, taskVars, HoldInv, Quiet, InHand, Serving, Early, MgrJoined
  <1>12. CASE PollTimesOut
    BY <1>12, Names DEF TypeOK, At, mgrVars, taskVars, HoldInv, Quiet, InHand, Serving, Early,
       PollTimesOut
  <1>13. CASE NoTimerDue
    BY <1>13, Names DEF TypeOK, At, mgrVars, taskVars, HoldInv, Quiet, InHand, Serving, Early,
       NoTimerDue
  <1>14. CASE TimeoutF
    BY <1>14, Names DEF TypeOK, At, mgrVars, taskVars, HoldInv, Quiet, InHand, Serving, Early, TimeoutF
  <1>15. CASE StopWorker
    BY <1>15, StopPc, Names DEF StopWorker, timeVars, taskVars, Quiet, InHand, Serving, Early, CallInv
  <1>16. CASE StopDone
    BY <1>16, Names DEF TypeOK, At, taskVars, HoldInv, Quiet, InHand, Serving, Early, StopDone,
       ShutdownAfterTimeout
  <1>17. CASE ShutdownF
    BY <1>17, Names DEF TypeOK, At, mgrVars, taskVars, HoldInv, Quiet, InHand, Serving, Early, ShutdownF
  <1>18. CASE PassUsr2(Mgr, "timers") /\ Keep
    BY <1>18, Names DEF TypeOK, At, mgrVars, taskVars, HoldInv, Quiet, InHand, Serving, Early,
       PassUsr2, Keep
  <1>19. ASSUME NEW w \in Workers, WorkerStart(w) PROVE Quiet \/ Moves
    <2>1. pc[Mgr] = "await"
      BY <1>19 DEF SpawnInv, WorkerStart
    <2>2. \A v \in Workers : pc'[v] = pc[v] \/ pc'[v] = "run"
      BY <1>19, Names DEF TypeOK, WorkerStart
    <2> QED BY <1>19, <2>1, <2>2 DEF Quiet, InHand, Serving, Early, WorkerStart, taskVars
  <1>20. ASSUME NEW w \in Workers, WorkerTerm(w) PROVE Quiet \/ Moves
    BY <1>20, EndingPc, Names DEF Quiet, InHand, Serving, Early, mgrVars, taskVars
  <1>21. ASSUME NEW w \in Workers, WorkerCheckInbox(w) PROVE Quiet \/ Moves
    BY <1>21, Names DEF TypeOK, At, mgrVars, taskVars, HoldInv, Quiet, InHand, Serving, Early,
       WorkerCheckInbox, Drain
  <1>22. ASSUME NEW w \in Workers, WorkerTake(w) PROVE Quiet \/ Moves
    BY <1>22 DEF Moves
  <1>23. ASSUME NEW w \in Workers, WorkerInboxEmpty(w) PROVE Quiet \/ Moves
    BY <1>23, Names DEF TypeOK, At, mgrVars, taskVars, HoldInv, Quiet, InHand, Serving, Early,
       WorkerInboxEmpty
  <1>39. ASSUME NEW w \in Workers, WorkerTest(w) PROVE Quiet \/ Moves
    BY <1>39, Names DEF TypeOK, At, mgrVars, taskVars, HoldInv, Quiet, InHand, Serving, Early,
       WorkerTest, MayGoOn
  <1>40. ASSUME NEW w \in Workers, WorkerFollowUp(w) PROVE Quiet \/ Moves
    BY <1>40, Names DEF TypeOK, At, mgrVars, taskVars, HoldInv, Quiet, InHand, Serving, Early,
       WorkerFollowUp
  <1>24. ASSUME NEW w \in Workers, WorkerReport(w) PROVE Quiet \/ Moves
    BY <1>24 DEF Moves
  <1>25. ASSUME NEW w \in Workers, WorkerLeave(w) PROVE Quiet \/ Moves
    BY <1>25, Names DEF TypeOK, At, mgrVars, HoldInv, Quiet, InHand, Serving, Early, WorkerLeave
  <1>26. ASSUME NEW w \in Workers, WorkerExit(w) PROVE Quiet \/ Moves
    BY <1>26, EndingPc, Names DEF Quiet, InHand, Serving, Early, mgrVars, taskVars
  <1>27. ASSUME NEW w \in Workers, PassUsr2(w, "term"), Keep PROVE Quiet \/ Moves
    BY <1>27, Names DEF TypeOK, At, mgrVars, taskVars, HoldInv, Quiet, InHand, Serving, Early,
       PassUsr2, Keep
  <1>28. ASSUME NEW w \in Workers, Reverse(w) PROVE Quiet \/ Moves
    BY <1>28, LookedPc, Names DEF Quiet, InHand, Serving, Early, mgrVars
  <1>29. ASSUME NEW w \in Workers, Forward(w) PROVE Quiet \/ Moves
    BY <1>29, LookedPc, Names DEF Quiet, InHand, Serving, Early, mgrVars
  <1>30. ASSUME NEW w \in Workers, LookupFails(w) PROVE Quiet \/ Moves
    BY <1>30, Names DEF TypeOK, Aborted, mgrVars, taskVars, HoldInv, Quiet, InHand, Serving, Early,
       LookupFails
  <1>31. ASSUME NEW t \in Threads, EnterPoll(t), Keep PROVE Quiet \/ Moves
    BY <1>31, Names DEF TypeOK, At, mgrVars, taskVars, HoldInv, Quiet, InHand, Serving, Early,
       EnterPoll, Keep
  <1>32. ASSUME NEW t \in Threads, ServeUsr2(t), Keep PROVE Quiet \/ Moves
    BY <1>32, Names DEF TypeOK, At, mgrVars, taskVars, HoldInv, Quiet, InHand, Serving, Early,
       ServeUsr2, Keep
  <1>33. ASSUME NEW t \in Threads, DrainEmpty(t), Keep PROVE Quiet \/ Moves
    BY <1>33, Names DEF TypeOK, At, mgrVars, taskVars, HoldInv, Quiet, InHand, Serving, Early,
       DrainEmpty, Keep
  <1>34. ASSUME NEW t \in Threads, VSignalNotFound(t), Keep PROVE Quiet \/ Moves
    BY <1>34, Names DEF TypeOK, At, mgrVars, taskVars, CallInv, HoldInv, VSignalTo, Quiet,
       InHand, Serving, Early, VSignalNotFound, Keep
  <1>35. ASSUME NEW t \in Threads, VSignalSubmit(t), Keep PROVE Quiet \/ Moves
    BY <1>35, Names DEF TypeOK, At, Aborted, mgrVars, taskVars, CallInv, HoldInv, VSignalTo,
       Quiet, InHand, Serving, Early, VSignalSubmit, Keep
  <1>36. ASSUME NEW t \in Threads, VSignalKill(t), Keep PROVE Quiet \/ Moves
    BY <1>36, Names DEF TypeOK, At, mgrVars, taskVars, CallInv, HoldInv, VSignalTo, Quiet,
       InHand, Serving, Early, VSignalKill, Raise, Woken, Keep
  <1>37. ASSUME NEW t \in Threads, Cleanup(t), Keep PROVE Quiet \/ Moves
    BY <1>37, Names DEF TypeOK, At, mgrVars, taskVars, HoldInv, Quiet, InHand, Serving, Early, Cleanup,
       Keep
  <1>38. CASE UNCHANGED vars
    BY <1>38, Names DEF TypeOK, mgrVars, taskVars, HoldInv, Quiet, InHand, Serving, Early, vars, esVars
  <1> QED
    BY <1>1, <1>2, <1>3, <1>4, <1>5, <1>6, <1>7, <1>8, <1>9, <1>10, <1>11, <1>12, <1>13,
       <1>14, <1>15, <1>16, <1>17, <1>18, <1>19, <1>20, <1>21, <1>22, <1>23, <1>24, <1>25,
       <1>26, <1>27, <1>28, <1>29, <1>30, <1>31, <1>32, <1>33, <1>34, <1>35, <1>36, <1>37,
       <1>38, <1>39, <1>40
       DEF Next, MgrStep, WorkerStep, Resolve, Engine

\* A step keeps what is known of reports.
LEMMA ReportStep ==
  ASSUME TypeOK, CallInv, HoldInv, PromptInv, NoUninitialisedReport, [Next]_vars
  PROVE  NoUninitialisedReport'
  <1>1. CASE Spawn
    BY <1>1, Names DEF TypeOK, timeVars, taskVars, NoUninitialisedReport, Spawn
  <1>2. CASE SpawnDone
    BY <1>2, Names DEF TypeOK, At, timeVars, taskVars, NoUninitialisedReport, SpawnDone
  <1>3. CASE Dispatch
    BY <1>3, Names DEF TypeOK, At, Aborted, timeVars, NoUninitialisedReport, Dispatch, Assign
  <1>4. CASE DispatchDone
    BY <1>4, Names DEF TypeOK, At, timeVars, taskVars, NoUninitialisedReport, DispatchDone
  <1>5. CASE MgrCheckInbox
    BY <1>5, Names DEF TypeOK, At, timeVars, taskVars, NoUninitialisedReport, MgrCheckInbox,
       Drain
  <1>6. CASE MgrInboxEmpty
    BY <1>6, Names DEF TypeOK, At, timeVars, taskVars, NoUninitialisedReport, MgrInboxEmpty
  <1>7. CASE MgrPrune
    BY <1>7, Names DEF TypeOK, timeVars, NoUninitialisedReport, MgrPrune, Raise, Woken
  <1>8. CASE MgrNext
    BY <1>8, Names DEF TypeOK, At, Aborted, timeVars, NoUninitialisedReport, MgrNext, Assign
  <1>9. CASE MgrForward
    BY <1>9, Names DEF TypeOK, At, Aborted, timeVars, NoUninitialisedReport, MgrForward, Assign
  <1>10. ASSUME NEW w \in Workers, MgrJoin(w) PROVE NoUninitialisedReport'
    BY <1>10, Names DEF TypeOK, At, timeVars, taskVars, NoUninitialisedReport, MgrJoin, Drain
  <1>11. CASE MgrJoined
    BY <1>11, Names DEF TypeOK, At, timeVars, taskVars, NoUninitialisedReport, MgrJoined
  <1>12. CASE PollTimesOut
    BY <1>12, Names DEF TypeOK, At, timeVars, taskVars, NoUninitialisedReport, PollTimesOut
  <1>13. CASE NoTimerDue
    BY <1>13, Names DEF TypeOK, At, timeVars, taskVars, NoUninitialisedReport, NoTimerDue
  <1>14. CASE TimeoutF
    BY <1>14, Names DEF TypeOK, At, taskVars, NoUninitialisedReport, TimeoutF
  <1>15. CASE StopWorker
    BY <1>15, StopPc, Names DEF StopWorker, timeVars, taskVars, NoUninitialisedReport
  <1>16. CASE StopDone
    BY <1>16, Names DEF TypeOK, At, taskVars, NoUninitialisedReport, StopDone,
       ShutdownAfterTimeout
  <1>17. CASE ShutdownF
    BY <1>17, Names DEF TypeOK, At, taskVars, NoUninitialisedReport, ShutdownF
  <1>18. CASE PassUsr2(Mgr, "timers") /\ Keep
    BY <1>18, Names DEF TypeOK, At, timeVars, taskVars, NoUninitialisedReport, PassUsr2, Keep
  <1>19. ASSUME NEW w \in Workers, WorkerStart(w) PROVE NoUninitialisedReport'
    BY <1>19, Names DEF TypeOK, timeVars, taskVars, NoUninitialisedReport, WorkerStart,
       Register
  <1>20. ASSUME NEW w \in Workers, WorkerTerm(w) PROVE NoUninitialisedReport'
    BY <1>20, Names DEF TypeOK, At, timeVars, taskVars, NoUninitialisedReport, WorkerTerm
  <1>21. ASSUME NEW w \in Workers, WorkerCheckInbox(w) PROVE NoUninitialisedReport'
    BY <1>21, Names DEF TypeOK, At, timeVars, taskVars, HoldInv, NoUninitialisedReport,
       WorkerCheckInbox, Drain
  <1>22. ASSUME NEW w \in Workers, WorkerTake(w) PROVE NoUninitialisedReport'
    BY <1>22, Names DEF TypeOK, At, timeVars, NoUninitialisedReport, WorkerTake
  <1>23. ASSUME NEW w \in Workers, WorkerInboxEmpty(w) PROVE NoUninitialisedReport'
    BY <1>23, Names DEF TypeOK, At, timeVars, taskVars, HoldInv, NoUninitialisedReport,
       PromptInv, Prompted, WorkerInboxEmpty
  <1>39. ASSUME NEW w \in Workers, WorkerTest(w) PROVE NoUninitialisedReport'
    BY <1>39, Names DEF TypeOK, At, timeVars, taskVars, HoldInv, NoUninitialisedReport,
       PromptInv, Prompted, WorkerTest, MayGoOn
  <1>40. ASSUME NEW w \in Workers, WorkerFollowUp(w) PROVE NoUninitialisedReport'
    BY <1>40, Names DEF TypeOK, At, timeVars, taskVars, HoldInv, NoUninitialisedReport,
       PromptInv, Prompted, WorkerFollowUp
  <1>24. ASSUME NEW w \in Workers, WorkerReport(w) PROVE NoUninitialisedReport'
    BY <1>24, Names DEF TypeOK, At, Aborted, timeVars, NoUninitialisedReport, WorkerReport
  <1>25. ASSUME NEW w \in Workers, WorkerLeave(w) PROVE NoUninitialisedReport'
    BY <1>25, Names DEF TypeOK, At, timeVars, NoUninitialisedReport, WorkerLeave
  <1>26. ASSUME NEW w \in Workers, WorkerExit(w) PROVE NoUninitialisedReport'
    BY <1>26, Names DEF TypeOK, At, timeVars, taskVars, NoUninitialisedReport, WorkerExit
  <1>27. ASSUME NEW w \in Workers, PassUsr2(w, "term"), Keep PROVE NoUninitialisedReport'
    BY <1>27, Names DEF TypeOK, At, timeVars, taskVars, NoUninitialisedReport, PassUsr2, Keep
  <1>28. ASSUME NEW w \in Workers, Reverse(w) PROVE NoUninitialisedReport'
    BY <1>28, Names DEF TypeOK, At, timeVars, HoldInv, NoUninitialisedReport, Reverse, Looked
  <1>29. ASSUME NEW w \in Workers, Forward(w) PROVE NoUninitialisedReport'
    BY <1>29, Names DEF TypeOK, At, timeVars, HoldInv, NoUninitialisedReport, Forward, Looked
  <1>30. ASSUME NEW w \in Workers, LookupFails(w) PROVE NoUninitialisedReport'
    BY <1>30, Names DEF TypeOK, Aborted, timeVars, taskVars, NoUninitialisedReport, LookupFails
  <1>31. ASSUME NEW t \in Threads, EnterPoll(t), Keep PROVE NoUninitialisedReport'
    BY <1>31, Names DEF TypeOK, At, timeVars, taskVars, NoUninitialisedReport, EnterPoll, Keep
  <1>32. ASSUME NEW t \in Threads, ServeUsr2(t), Keep PROVE NoUninitialisedReport'
    BY <1>32, Names DEF TypeOK, At, timeVars, taskVars, NoUninitialisedReport, ServeUsr2, Keep
  <1>33. ASSUME NEW t \in Threads, DrainEmpty(t), Keep PROVE NoUninitialisedReport'
    BY <1>33, Names DEF TypeOK, At, timeVars, taskVars, NoUninitialisedReport, DrainEmpty, Keep
  <1>34. ASSUME NEW t \in Threads, VSignalNotFound(t), Keep PROVE NoUninitialisedReport'
    BY <1>34, Names DEF TypeOK, At, timeVars, taskVars, CallInv, NoUninitialisedReport,
       VSignalNotFound, Keep
  <1>35. ASSUME NEW t \in Threads, VSignalSubmit(t), Keep PROVE NoUninitialisedReport'
    BY <1>35, Names DEF TypeOK, At, Aborted, timeVars, taskVars, CallInv,
       NoUninitialisedReport, VSignalSubmit, Keep
  <1>36. ASSUME NEW t \in Threads, VSignalKill(t), Keep PROVE NoUninitialisedReport'
    BY <1>36, Names DEF TypeOK, At, timeVars, taskVars, CallInv, NoUninitialisedReport,
       VSignalKill, Raise, Woken, Keep
  <1>37. ASSUME NEW t \in Threads, Cleanup(t), Keep PROVE NoUninitialisedReport'
    BY <1>37, Names DEF TypeOK, At, timeVars, taskVars, NoUninitialisedReport, Cleanup, Keep
  <1>38. CASE UNCHANGED vars
    BY <1>38, Names DEF TypeOK, timeVars, taskVars, NoUninitialisedReport, vars, esVars
  <1> QED
    BY <1>1, <1>2, <1>3, <1>4, <1>5, <1>6, <1>7, <1>8, <1>9, <1>10, <1>11, <1>12, <1>13,
       <1>14, <1>15, <1>16, <1>17, <1>18, <1>19, <1>20, <1>21, <1>22, <1>23, <1>24, <1>25,
       <1>26, <1>27, <1>28, <1>29, <1>30, <1>31, <1>32, <1>33, <1>34, <1>35, <1>36, <1>37,
       <1>38, <1>39, <1>40
       DEF Next, MgrStep, WorkerStep, Resolve, Engine

\* A worker without entries has an empty inbox, nothing in hand and no report.
LEMMA NoEntries ==
  ASSUME TypeOK, NEW w \in Workers, Entries(w) = {}
  PROVE  winbox[w] = <<>> /\ InHand(w) = {} /\ Reports(w) = {}
  <1>1. ASSUME winbox[w] # <<>> PROVE FALSE
    <2>1. winbox[w] \in Seq(Items)
      BY DEF TypeOK
    <2>2. 1 \in 1 .. Len(winbox[w])
      BY <1>1, <2>1, HeadTail
    <2> QED BY <2>2 DEF Entries
  <1>2. InHand(w) = {} /\ Reports(w) = {}
    BY DEF Entries
  <1> QED BY <1>1, <1>2

\* Handing an entry to a worker whose inbox is empty keeps what is known of
\* prompts.
LEMMA AssignPrompt ==
  ASSUME TypeOK, PromptInv, NEW w \in Workers, NEW e, NEW ret, Assign(w, e, ret), winbox[w] = <<>>,
         pc[Mgr] # "vsig", mq' = mq, task' = task
  PROVE  PromptInv'
  <1>1. \A v \in Workers : pc'[v] = pc[v] \/ pc'[v] = "aborted"
    BY Names DEF TypeOK, Assign, At, Aborted
  <1>2. \A v \in Workers : /\ ~Sending(v) /\ (Prompted(v)' => Prompted(v))
                           /\ (Queued(v)' <=> Queued(v))
    BY <1>1 DEF Sending, Prompted, Queued
  <1>3. \A v \in Workers : Sending(v)' => v = w
    BY Names DEF TypeOK, Assign, VSignalTo, Sending
  <1>4. winbox'[w] # <<>> /\ \A v \in Workers : v # w => winbox'[v] = winbox[v]
    BY DEF TypeOK, Assign
  <1>5. ~Queued(w) /\ ~Prompted(w)
    BY DEF PromptInv
  <1> QED BY <1>1, <1>2, <1>3, <1>4, <1>5 DEF PromptInv

\* A step keeps what is known of prompts.
LEMMA PromptStep ==
  ASSUME TypeOK, CallInv, SpawnInv, HoldInv, OneTaskEach, EarlyInv, PromptInv, [Next]_vars
  PROVE  PromptInv'
  <1>1. CASE Spawn
    BY <1>1, Names DEF TypeOK, taskVars, HoldInv, PromptInv, Sending, Queued, Prompted, Spawn
  <1>2. CASE SpawnDone
    BY <1>2, Names DEF TypeOK, At, taskVars, HoldInv, PromptInv, Sending, Queued, Prompted,
       SpawnDone
  <1>3. CASE Dispatch
    <2>1. processed \in Workers /\ winbox[processed] = <<>>
      <3>1. processed \in Workers
        BY <1>3, Names DEF TypeOK, Dispatch, Workers
      <3>2. Entries(processed) = {}
        BY <1>3, <3>1 DEF Dispatch, EarlyInv, Early, Workers
      <3> QED BY <3>1, <3>2, NoEntries
    <2>2. pc[Mgr] # "vsig" /\ mq' = mq /\ task' = task
      BY <1>3 DEF Dispatch, Extracted
    <2> QED BY <1>3, <2>1, <2>2, AssignPrompt DEF Dispatch
  <1>4. CASE DispatchDone
    BY <1>4, Names DEF TypeOK, At, taskVars, HoldInv, PromptInv, Sending, Queued, Prompted,
       DispatchDone
  <1>5. CASE MgrCheckInbox
    BY <1>5, Names DEF TypeOK, At, taskVars, HoldInv, PromptInv, Sending, Queued, Prompted,
       MgrCheckInbox, Drain
  <1>6. CASE MgrInboxEmpty
    BY <1>6, Names DEF TypeOK, At, taskVars, HoldInv, PromptInv, Sending, Queued, Prompted,
       MgrInboxEmpty
  <1>7. CASE MgrPrune
    BY <1>7, Names DEF TypeOK, HoldInv, PromptInv, Sending, Queued, Prompted, MgrPrune, Raise,
       Woken
  <1>8. CASE MgrNext
    <2>1. Head(inbox).w \in Workers /\ winbox[Head(inbox).w] = <<>>
      <3>1. Head(inbox).w \in Workers /\ 1 \in Reports(Head(inbox).w)
        BY <1>8, HeadOfInbox DEF MgrNext, Extracted, Reports
      <3> QED BY <3>1 DEF OneTaskEach
    <2>2. pc[Mgr] # "vsig" /\ mq' = mq /\ task' = task
      BY <1>8 DEF MgrNext, Extracted
    <2> QED BY <1>8, <2>1, <2>2, AssignPrompt DEF MgrNext
  <1>9. CASE MgrForward
    <2>1. Head(inbox).w \in Workers /\ winbox[Head(inbox).w] = <<>>
      <3>1. Head(inbox).w \in Workers /\ 1 \in Reports(Head(inbox).w)
        BY <1>9, HeadOfInbox DEF MgrForward, Extracted, Reports
      <3> QED BY <3>1 DEF OneTaskEach
    <2>2. pc[Mgr] # "vsig" /\ mq' = mq /\ task' = task
      BY <1>9 DEF MgrForward, Extracted
    <2> QED BY <1>9, <2>1, <2>2, AssignPrompt DEF MgrForward
  <1>10. ASSUME NEW w \in Workers, MgrJoin(w) PROVE PromptInv'
    BY <1>10, Names DEF TypeOK, At, taskVars, HoldInv, PromptInv, Sending, Queued, Prompted,
       MgrJoin, Drain
  <1>11. CASE MgrJoined
    BY <1>11, Names DEF TypeOK, At, taskVars, HoldInv, PromptInv, Sending, Queued, Prompted,
       MgrJoined
  <1>12. CASE PollTimesOut
    BY <1>12, Names DEF TypeOK, At, taskVars, HoldInv, PromptInv, Sending, Queued, Prompted,
       PollTimesOut
  <1>13. CASE NoTimerDue
    BY <1>13, Names DEF TypeOK, At, taskVars, HoldInv, PromptInv, Sending, Queued, Prompted,
       NoTimerDue
  <1>14. CASE TimeoutF
    BY <1>14, Names DEF TypeOK, At, taskVars, HoldInv, PromptInv, Sending, Queued, Prompted,
       TimeoutF
  <1>15. CASE StopWorker
    BY <1>15, StopPc, Names DEF StopWorker, timeVars, taskVars, PromptInv, Sending, Queued,
       Prompted
  <1>16. CASE StopDone
    BY <1>16, Names DEF TypeOK, At, taskVars, HoldInv, PromptInv, Sending, Queued, Prompted,
       StopDone, ShutdownAfterTimeout
  <1>17. CASE ShutdownF
    BY <1>17, Names DEF TypeOK, At, taskVars, HoldInv, PromptInv, Sending, Queued, Prompted,
       ShutdownF
  <1>18. CASE PassUsr2(Mgr, "timers") /\ Keep
    BY <1>18, Names DEF TypeOK, At, taskVars, HoldInv, PromptInv, Sending, Queued, Prompted,
       PassUsr2, Keep
  <1>19. ASSUME NEW w \in Workers, WorkerStart(w) PROVE PromptInv'
    BY <1>19, Names DEF TypeOK, taskVars, HoldInv, PromptInv, Sending, Queued, Prompted,
       WorkerStart, Register
  <1>20. ASSUME NEW w \in Workers, WorkerTerm(w) PROVE PromptInv'
    BY <1>20, EndingPc, Names DEF PromptInv, Sending, Queued, Prompted, taskVars
  <1>21. ASSUME NEW w \in Workers, WorkerCheckInbox(w) PROVE PromptInv'
    <2>1. \A v \in Workers : v # w => pc'[v] = pc[v] /\ mq'[v] = mq[v]
      BY <1>21, Names DEF TypeOK, WorkerCheckInbox, Drain, At
    <2>2. Queued(w) /\ task[w] = None /\ ~Prompted(w) /\ Len(mq[w]) <= 1
      BY <1>21 DEF WorkerCheckInbox, Drain, Queued, HoldInv, Prompted, PromptInv
    <2>3. mq'[w] = <<>>
      BY <1>21, <2>2, Names DEF TypeOK, WorkerCheckInbox, Drain
    <2>4. pc'[Mgr] = pc[Mgr] /\ call' = call /\ task' = task /\ winbox' = winbox
      BY <1>21, Names DEF TypeOK, WorkerCheckInbox, Drain, At, taskVars
    <2>5. winbox[w] # <<>> /\ ~Sending(w)
      BY <2>2 DEF PromptInv
    <2>6. \A v \in Workers : v # w => (Sending(v)' <=> Sending(v)) /\ (Queued(v)' <=> Queued(v))
                                       /\ (Prompted(v)' <=> Prompted(v)) /\ Len(mq'[v]) = Len(mq[v])
      BY <2>1, <2>4 DEF Sending, Queued, Prompted
    <2>7. ~Sending(w)' /\ ~Queued(w)' /\ Len(mq'[w]) = 0
      BY <2>3, <2>4, <2>5 DEF Sending, Queued
    <2> QED BY <2>4, <2>5, <2>6, <2>7 DEF PromptInv
  <1>22. ASSUME NEW w \in Workers, WorkerTake(w) PROVE PromptInv'
    <2>1. task[w] = None /\ Prompted(w)
      BY <1>22 DEF WorkerTake, OneTaskEach, InHand, Serving, Prompted
    <2>2. \A v \in Workers : v # w => pc'[v] = pc[v] /\ winbox'[v] = winbox[v] /\ task'[v] = task[v]
      BY <1>22, Names DEF TypeOK, WorkerTake, At
    <2>3. pc'[w] = "lookup" /\ pc'[Mgr] = pc[Mgr] /\ mq' = mq /\ call' = call
      BY <1>22, Names DEF TypeOK, WorkerTake, At
    <2>4. ~Sending(w)' /\ ~Queued(w)' /\ ~Prompted(w)'
      BY <2>1, <2>3 DEF PromptInv, Sending, Queued, Prompted
    <2>5. \A v \in Workers : v # w => (Sending(v)' <=> Sending(v)) /\ (Queued(v)' <=> Queued(v))
                                       /\ (Prompted(v)' <=> Prompted(v))
      BY <2>2, <2>3 DEF Sending, Queued, Prompted
    <2> QED BY <2>2, <2>3, <2>4, <2>5 DEF PromptInv
  <1>23. ASSUME NEW w \in Workers, WorkerInboxEmpty(w) PROVE PromptInv'
    BY <1>23, Names DEF TypeOK, At, taskVars, HoldInv, PromptInv, Sending, Queued, Prompted,
       WorkerInboxEmpty
  <1>39. ASSUME NEW w \in Workers, WorkerTest(w) PROVE PromptInv'
    BY <1>39, Names DEF TypeOK, At, taskVars, HoldInv, PromptInv, Sending, Queued, Prompted,
       WorkerTest, MayGoOn
  <1>40. ASSUME NEW w \in Workers, WorkerFollowUp(w) PROVE PromptInv'
    BY <1>40, Names DEF TypeOK, At, taskVars, HoldInv, PromptInv, Sending, Queued, Prompted,
       WorkerFollowUp
  <1>24. ASSUME NEW w \in Workers, WorkerReport(w) PROVE PromptInv'
    BY <1>24, Names DEF TypeOK, At, Aborted, HoldInv, VSignalTo, PromptInv, Sending, Queued,
       Prompted, WorkerReport
  <1>25. ASSUME NEW w \in Workers, WorkerLeave(w) PROVE PromptInv'
    BY <1>25, Names DEF TypeOK, At, HoldInv, PromptInv, Sending, Queued, Prompted, WorkerLeave
  <1>26. ASSUME NEW w \in Workers, WorkerExit(w) PROVE PromptInv'
    BY <1>26, EndingPc, Names DEF PromptInv, Sending, Queued, Prompted, taskVars
  <1>27. ASSUME NEW w \in Workers, PassUsr2(w, "term"), Keep PROVE PromptInv'
    BY <1>27, Names DEF TypeOK, At, taskVars, HoldInv, PromptInv, Sending, Queued, Prompted,
       PassUsr2, Keep
  <1>28. ASSUME NEW w \in Workers, Reverse(w) PROVE PromptInv'
    BY <1>28, LookedPc, Names DEF HoldInv, PromptInv, Sending, Queued, Prompted
  <1>29. ASSUME NEW w \in Workers, Forward(w) PROVE PromptInv'
    BY <1>29, LookedPc, Names DEF HoldInv, PromptInv, Sending, Queued, Prompted
  <1>30. ASSUME NEW w \in Workers, LookupFails(w) PROVE PromptInv'
    BY <1>30, Names DEF TypeOK, Aborted, taskVars, HoldInv, PromptInv, Sending, Queued,
       Prompted, LookupFails
  <1>31. ASSUME NEW t \in Threads, EnterPoll(t), Keep PROVE PromptInv'
    BY <1>31, Names DEF TypeOK, At, taskVars, HoldInv, PromptInv, Sending, Queued, Prompted,
       EnterPoll, Keep
  <1>32. ASSUME NEW t \in Threads, ServeUsr2(t), Keep PROVE PromptInv'
    BY <1>32, Names DEF TypeOK, At, taskVars, HoldInv, PromptInv, Sending, Queued, Prompted,
       ServeUsr2, Keep
  <1>33. ASSUME NEW t \in Threads, DrainEmpty(t), Keep PROVE PromptInv'
    BY <1>33, Names DEF TypeOK, At, taskVars, HoldInv, PromptInv, Sending, Queued, Prompted,
       DrainEmpty, Keep
  <1>34. ASSUME NEW t \in Threads, VSignalNotFound(t), Keep PROVE PromptInv'
    BY <1>34, Names DEF TypeOK, At, taskVars, CallInv, HoldInv, VSignalTo, PromptInv, Sending,
       Queued, Prompted, VSignalNotFound, Keep
  <1>35. ASSUME NEW t \in Threads, VSignalSubmit(t), Keep PROVE PromptInv'
    <2>1. UNCHANGED <<call, winbox, task>> /\ pc[t] = "vsig"
      BY <1>35 DEF VSignalSubmit, Keep, taskVars
    <2>2. \A u \in Threads : /\ pc'[u] \in {pc[u], "kill", "aborted"}
                             /\ u = t => pc'[u] \in {"kill", "aborted"}
      BY <1>35 DEF TypeOK, VSignalSubmit, At, Aborted
    <2>3. \A v \in Workers : (Prompted(v)' => Prompted(v)) /\ (Sending(v)' => Sending(v))
      BY <2>1, <2>2, Names DEF Prompted, Sending
    <2>4. CASE t = Mgr
      <3>1. PICK w \in Workers : w = call[Mgr].to
        BY <2>1, <2>4 DEF CallInv
      <3>2. Sending(w) /\ winbox[w] # <<>> /\ mq[w] = <<>> /\ ~Prompted(w)
        BY <2>1, <2>4, <3>1 DEF PromptInv, Sending, Queued
      <3>3. \A v \in Workers : v # w => mq'[v] = mq[v]
        BY <1>35, <2>4, <3>1 DEF TypeOK, VSignalSubmit
      <3>4. Len(mq'[w]) = 1
        BY <1>35, <2>4, <3>1, <3>2, Names DEF TypeOK, VSignalSubmit
      <3>5. \A v \in Workers : ~Sending(v)'
        BY <2>2, <2>4 DEF Sending
      <3>6. ~Prompted(w)' /\ winbox'[w] # <<>> /\ Len(mq'[w]) <= 1
        BY <2>1, <2>3, <3>2, <3>4, Names
      <3>7. \A v \in Workers : v # w => (Queued(v)' <=> Queued(v)) /\ Len(mq'[v]) = Len(mq[v])
        BY <3>3 DEF Queued
      <3> QED BY <2>1, <2>3, <3>5, <3>6, <3>7 DEF PromptInv
    <2>5. CASE t # Mgr
      <3>1. call[t].to = Mgr
        BY <2>1, <2>5, Names DEF CallInv, VSignalTo
      <3>2. \A v \in Workers : mq'[v] = mq[v]
        BY <1>35, <3>1, Names DEF TypeOK, VSignalSubmit
      <3> QED BY <2>1, <2>3, <3>2 DEF PromptInv, Queued
    <2> QED BY <2>4, <2>5
  <1>36. ASSUME NEW t \in Threads, VSignalKill(t), Keep PROVE PromptInv'
    BY <1>36, Names DEF TypeOK, At, taskVars, CallInv, HoldInv, VSignalTo, PromptInv, Sending,
       Queued, Prompted, VSignalKill, Raise, Woken, Keep
  <1>37. ASSUME NEW t \in Threads, Cleanup(t), Keep PROVE PromptInv'
    BY <1>37, Names DEF TypeOK, At, taskVars, HoldInv, PromptInv, Sending, Queued, Prompted,
       Cleanup, Keep
  <1>38. CASE UNCHANGED vars
    BY <1>38, Names DEF TypeOK, taskVars, HoldInv, PromptInv, Sending, Queued, Prompted, vars,
       esVars
  <1> QED
    BY <1>1, <1>2, <1>3, <1>4, <1>5, <1>6, <1>7, <1>8, <1>9, <1>10, <1>11, <1>12, <1>13,
       <1>14, <1>15, <1>16, <1>17, <1>18, <1>19, <1>20, <1>21, <1>22, <1>23, <1>24, <1>25,
       <1>26, <1>27, <1>28, <1>29, <1>30, <1>31, <1>32, <1>33, <1>34, <1>35, <1>36, <1>37,
       <1>38, <1>39, <1>40
       DEF Next, MgrStep, WorkerStep, Resolve, Engine

\* The elements of a sequence over S are in S.
LEMMA ElementOf ==
  ASSUME NEW S, NEW s \in Seq(S)
  PROVE  \A k \in 1 .. Len(s) : s[k] \in S
  OBVIOUS

\* The entries of a worker are entries.
LEMMA EntriesAreItems ==
  ASSUME TypeOK, NEW w \in Workers
  PROVE  Entries(w) \subseteq Items
  <1>1. \A k \in 1 .. Len(winbox[w]) : winbox[w][k] \in Items
    <2>1. winbox[w] \in Seq(Items)
      BY DEF TypeOK
    <2> QED BY <2>1
  <1>2. InHand(w) \subseteq Items
    BY DEF TypeOK, InHand, Serving
  <1>3. \A k \in Reports(w) : inbox[k].e \in Items
    <2>1. inbox \in Seq([e : Items, w : Workers])
      BY DEF TypeOK
    <2>2. \A k \in 1 .. Len(inbox) : inbox[k] \in [e : Items, w : Workers]
      BY <2>1, ElementOf
    <2> QED BY <2>2 DEF Reports
  <1> QED BY <1>1, <1>2, <1>3 DEF Entries

OneTask(w) ==
  /\ Len(winbox[w]) <= 1
  /\ \A j, k \in Reports(w) : j = k
  /\ winbox[w] # <<>> => InHand(w) = {} /\ Reports(w) = {}
  /\ InHand(w) # {} => Reports(w) = {}

\* When one worker gains at most the next fresh entry and no other gains any,
\* entries stay apart and fresh ones with nobody.
LEMMA Settle ==
  ASSUME TypeOK, OneTaskEach, FreshInv, NEW w \in Workers,
         \A v \in Workers : OneTask(v)',
         \A v \in Workers : v # w => Entries(v)' \subseteq Entries(v),
         \/ Entries(w)' \subseteq Entries(w) /\ processed' = processed
         \/ Entries(w)' \subseteq {processed} /\ processed' = processed + 1
  PROVE  OneTaskEach' /\ FreshInv'
  <1>1. processed \in Int
    BY DEF TypeOK
  <1>2. \A u, v \in Workers : u # v => Entries(u) \cap Entries(v) = {}
    BY DEF OneTaskEach
  <1>3. \A v \in Workers : \A e \in Entries(v) : e < processed
    BY DEF FreshInv
  <1>4. \A u, v \in Workers : u # v => Entries(u)' \cap Entries(v)' = {}
    <2>1. CASE Entries(w)' \subseteq Entries(w)
      BY <2>1, <1>2
    <2>2. CASE Entries(w)' \subseteq {processed}
      <3>1. \A v \in Workers : processed \notin Entries(v)
        BY <1>1, <1>3
      <3> QED BY <2>2, <3>1, <1>2
    <2> QED BY <2>1, <2>2
  <1>5. FreshInv'
    <2>1. CASE Entries(w)' \subseteq Entries(w) /\ processed' = processed
      BY <2>1, <1>3 DEF FreshInv
    <2>2. CASE Entries(w)' \subseteq {processed} /\ processed' = processed + 1
      <3>1. ASSUME NEW v \in Workers, NEW e \in Entries(v)' PROVE e < processed'
        <4>1. CASE v = w
          BY <1>1, <2>2, <3>1, <4>1
        <4>2. CASE v # w
          <5>1. e \in Entries(v)
            BY <3>1, <4>2
          <5>2. e < processed /\ e \in Int
            BY <1>3, <5>1, EntriesAreItems, Names
          <5> QED BY <1>1, <2>2, <5>2
        <4> QED BY <4>1, <4>2
      <3> QED BY <3>1 DEF FreshInv
    <2> QED BY <2>1, <2>2
  <1> QED BY <1>4, <1>5 DEF OneTaskEach, OneTask

\* When the stage does not go back and nobody gains an entry, those that have
\* none keep none.
LEMMA SettleEarly ==
  ASSUME EarlyInv, Early' => Early, processed' = processed,
         \A v \in Workers : Entries(v)' \subseteq Entries(v)
  PROVE  EarlyInv'
  BY DEF EarlyInv

\* A quiet step keeps what is known of tasks.
LEMMA QuietTasks ==
  ASSUME TypeOK, OneTaskEach, FreshInv, EarlyInv, Quiet
  PROVE  OneTaskEach' /\ FreshInv' /\ EarlyInv'
  <1>1. \A v \in Workers : Reports(v)' = Reports(v)
    BY DEF Quiet, Reports
  <1>2. \A v \in Workers : Entries(v)' \subseteq Entries(v)
    BY <1>1 DEF Quiet, Entries
  <1>3. \A v \in Workers : OneTask(v)'
    BY <1>1 DEF Quiet, OneTaskEach, OneTask
  <1>4. 0 \in Workers /\ processed' = processed
    BY Names DEF Workers, Quiet
  <1>5. OneTaskEach' /\ FreshInv'
    BY <1>2, <1>3, <1>4, Settle
  <1>6. EarlyInv'
    BY <1>2, <1>4, SettleEarly DEF Quiet
  <1> QED BY <1>5, <1>6

\* Extracting a report shifts the others.
LEMMA TailReports ==
  ASSUME TypeOK, inbox # <<>>, inbox' = Tail(inbox), NEW v \in Workers
  PROVE  /\ \A k \in Reports(v)' :
              k + 1 \in Reports(v) /\ k \in Nat \ {0} /\ inbox'[k] = inbox[k + 1]
         /\ Head(inbox).w = v => 1 \in Reports(v)
  <1>1. inbox \in Seq([e : Items, w : Workers])
    BY DEF TypeOK
  <1>2. Len(inbox') = Len(inbox) - 1 /\ Len(inbox) \in Nat
    BY <1>1
  <1>3. \A k \in 1 .. Len(inbox') :
          inbox'[k] = inbox[k + 1] /\ k + 1 \in 1 .. Len(inbox) /\ k \in Nat \ {0}
    BY <1>1, <1>2
  <1>4. Head(inbox).w = v => 1 \in Reports(v)
    BY HeadOfInbox DEF Reports
  <1> QED BY <1>3, <1>4 DEF Reports

\* Answering a report keeps what is known of the tasks of the other workers and
\* leaves its worker without report and nothing in hand.
LEMMA AnswerTasks ==
  ASSUME TypeOK, OneTaskEach, Extracted, NEW v \in Workers, InHand(v)' \subseteq InHand(v)
  PROVE  /\ Head(inbox).w # v /\ winbox'[v] = winbox[v] =>
              OneTask(v)' /\ Entries(v)' \subseteq Entries(v)
         /\ Head(inbox).w = v => /\ Reports(v)' = {} /\ InHand(v)' = {} /\ winbox[v] = <<>>
                                 /\ Head(inbox).e \in Entries(v)
  <1>1. /\ \A k \in Reports(v)' :
             k + 1 \in Reports(v) /\ k \in Nat \ {0} /\ inbox'[k] = inbox[k + 1]
        /\ Head(inbox).w = v => 1 \in Reports(v)
    BY TailReports DEF Extracted
  <1>2. ASSUME Head(inbox).w # v, winbox'[v] = winbox[v]
        PROVE  OneTask(v)' /\ Entries(v)' \subseteq Entries(v)
    <2>1. \A j, k \in Reports(v)' : j = k
      BY <1>1 DEF OneTaskEach
    <2>2. Reports(v)' # {} => Reports(v) # {}
      BY <1>1
    <2>3. OneTask(v)'
      BY <1>2, <2>1, <2>2 DEF OneTaskEach, OneTask
    <2>4. Entries(v)' \subseteq Entries(v)
      BY <1>1, <1>2 DEF Entries
    <2> QED BY <2>3, <2>4
  <1>3. ASSUME Head(inbox).w = v
        PROVE  /\ Reports(v)' = {} /\ InHand(v)' = {} /\ winbox[v] = <<>>
               /\ Head(inbox).e \in Entries(v)
    <2>1. 1 \in Reports(v)
      BY <1>1, <1>3
    <2>2. Reports(v)' = {}
      <3>1. ASSUME NEW k \in Reports(v)' PROVE FALSE
        <4>1. k + 1 \in Reports(v) /\ k \in Nat \ {0}
          BY <1>1
        <4>2. k + 1 = 1
          BY <4>1, <2>1 DEF OneTaskEach
        <4> QED BY <4>1, <4>2
      <3> QED BY <3>1
    <2>3. InHand(v)' = {} /\ winbox[v] = <<>>
      BY <2>1 DEF OneTaskEach
    <2>4. Head(inbox).e \in Entries(v)
      BY <2>1, HeadOfInbox DEF Entries, Extracted
    <2> QED BY <2>2, <2>3, <2>4
  <1> QED BY <1>2, <1>3

\* A worker without report and nothing in hand, and one entry in its inbox.
LEMMA Handed ==
  ASSUME TypeOK, NEW w \in Workers, NEW e \in Items, winbox[w] = <<>>,
         winbox'[w] = Append(winbox[w], e), Reports(w)' = {}, InHand(w)' = {}
  PROVE  OneTask(w)' /\ Entries(w)' = {e}
  <1>1. winbox'[w] = <<e>>
    BY DEF TypeOK
  <1>2. Len(winbox'[w]) = 1 /\ winbox'[w][1] = e
    BY <1>1
  <1> QED BY <1>2 DEF OneTask, Entries

\* What handing out an entry does to the tasks of the workers.
LEMMA AssignTasks ==
  ASSUME TypeOK, NEW w \in Workers, NEW e, NEW ret, Assign(w, e, ret), task' = task
  PROVE  /\ winbox'[w] = Append(winbox[w], e)
         /\ \A v \in Workers : v # w => winbox'[v] = winbox[v]
         /\ \A v \in Workers : InHand(v)' \subseteq InHand(v)
  <1>1. \A v \in Workers : pc'[v] = pc[v] \/ pc'[v] = "aborted"
    BY Names DEF TypeOK, Assign, At, Aborted
  <1> QED BY <1>1 DEF TypeOK, Assign, InHand, Serving

\* The first entry goes to a worker that has none (EarlyInv).
LEMMA DispatchTasks ==
  ASSUME TypeOK, OneTaskEach, FreshInv, EarlyInv, Dispatch
  PROVE  OneTaskEach' /\ FreshInv' /\ EarlyInv'
  <1>1. PICK w \in Workers : w = processed
    BY Names DEF TypeOK, Dispatch, Workers
  <1>2. w \in Items /\ Assign(w, w, "dispatch")
    BY <1>1, Names DEF Dispatch
  <1>3. UNCHANGED <<inbox, task>> /\ processed' = processed + 1
    BY DEF Dispatch
  <1>4. \A v \in Workers : v >= processed => Entries(v) = {}
    BY DEF Dispatch, EarlyInv, Early
  <1>5. winbox[w] = <<>> /\ InHand(w) = {} /\ Reports(w) = {}
    BY <1>1, <1>4, NoEntries, Names
  <1>6. /\ winbox'[w] = Append(winbox[w], w)
        /\ \A v \in Workers : v # w => winbox'[v] = winbox[v]
        /\ \A v \in Workers : InHand(v)' \subseteq InHand(v)
    BY <1>2, <1>3, AssignTasks
  <1>7. \A v \in Workers : Reports(v)' = Reports(v)
    BY <1>3 DEF Reports
  <1>8. OneTask(w)' /\ Entries(w)' = {w}
    BY <1>2, <1>5, <1>6, <1>7, Handed
  <1>9. \A v \in Workers : v # w => OneTask(v)' /\ Entries(v)' \subseteq Entries(v)
    BY <1>3, <1>6, <1>7 DEF OneTaskEach, OneTask, Entries
  <1>10. OneTaskEach' /\ FreshInv'
    BY <1>1, <1>3, <1>8, <1>9, Settle
  <1>11. \A v \in Workers : v >= processed' => v # w /\ v >= processed
    BY <1>1, <1>3, Names DEF TypeOK
  <1>12. EarlyInv'
    BY <1>4, <1>9, <1>11 DEF EarlyInv
  <1> QED BY <1>10, <1>12

\* A worker that is pruned has nothing left.
LEMMA PruneTasks ==
  ASSUME TypeOK, OneTaskEach, FreshInv, MgrPrune
  PROVE  OneTaskEach' /\ FreshInv' /\ EarlyInv'
  <1>1. PICK w \in Workers : w = Head(inbox).w
    BY HeadOfInbox DEF MgrPrune, Extracted
  <1>2. Extracted /\ UNCHANGED <<winbox, task, processed>>
    BY DEF MgrPrune, mgrVars
  <1>3. \A t \in Threads : pc'[t] = pc[t] \/ (pc[t] = "poll" /\ pc'[t] = "usr2")
    BY RaisePc DEF MgrPrune, TypeOK
  <1>4. \A v \in Workers : InHand(v)' \subseteq InHand(v)
    BY <1>2, <1>3, Names DEF InHand, Serving
  <1>5. \A v \in Workers : v # w => OneTask(v)' /\ Entries(v)' \subseteq Entries(v)
    BY <1>1, <1>2, <1>4, AnswerTasks
  <1>6. Reports(w)' = {} /\ InHand(w)' = {} /\ winbox[w] = <<>>
    BY <1>1, <1>2, <1>4, AnswerTasks
  <1>7. winbox'[w] = <<>>
    BY <1>2, <1>6
  <1>8. OneTask(w)' /\ Entries(w)' = {}
    BY <1>6, <1>7 DEF OneTask, Entries
  <1>9. OneTaskEach' /\ FreshInv'
    BY <1>2, <1>5, <1>8, Settle
  <1>10. ~Early'
    BY <1>3, Names DEF MgrPrune, Extracted, Early
  <1> QED BY <1>9, <1>10 DEF EarlyInv

\* A worker that has reported is given one entry: its own or a fresh one.
LEMMA AnswerWithTask ==
  ASSUME TypeOK, OneTaskEach, FreshInv, Extracted, NEW w \in Workers, NEW e \in Items,
         w = Head(inbox).w, Assign(w, e, "inbox"), task' = task,
         \/ e = Head(inbox).e /\ processed' = processed
         \/ e = processed /\ processed' = processed + 1
  PROVE  OneTaskEach' /\ FreshInv' /\ EarlyInv'
  <1>1. /\ winbox'[w] = Append(winbox[w], e)
        /\ \A v \in Workers : v # w => winbox'[v] = winbox[v]
        /\ \A v \in Workers : InHand(v)' \subseteq InHand(v)
    BY AssignTasks
  <1>2. \A v \in Workers : v # w => OneTask(v)' /\ Entries(v)' \subseteq Entries(v)
    BY <1>1, AnswerTasks
  <1>3. Reports(w)' = {} /\ InHand(w)' = {} /\ winbox[w] = <<>> /\ Head(inbox).e \in Entries(w)
    BY <1>1, AnswerTasks
  <1>4. OneTask(w)' /\ Entries(w)' = {e}
    BY <1>1, <1>3, Handed
  <1>5. OneTaskEach' /\ FreshInv'
    BY <1>2, <1>3, <1>4, Settle
  <1>6. ~Early'
    BY Names DEF TypeOK, Assign, At, Aborted, VSignalTo, Early
  <1> QED BY <1>5, <1>6 DEF EarlyInv

\* A worker whose entry is done is given a fresh one.
LEMMA NextTasks ==
  ASSUME TypeOK, OneTaskEach, FreshInv, MgrNext
  PROVE  OneTaskEach' /\ FreshInv' /\ EarlyInv'
  <1>1. PICK w \in Workers : w = Head(inbox).w
    BY HeadOfInbox DEF MgrNext, Extracted
  <1>2. PICK e \in Items : e = processed
    BY Names DEF TypeOK, MgrNext, NoneLeft, Items
  <1>3. Extracted /\ Assign(w, e, "inbox") /\ task' = task /\ processed' = processed + 1
    BY <1>1, <1>2 DEF MgrNext, AfterNext
  <1> QED BY <1>1, <1>2, <1>3, AnswerWithTask

\* A worker whose entry wants a forward lookup keeps it.
LEMMA ForwardTasks ==
  ASSUME TypeOK, OneTaskEach, FreshInv, MgrForward
  PROVE  OneTaskEach' /\ FreshInv' /\ EarlyInv'
  <1>1. PICK w \in Workers : w = Head(inbox).w
    BY HeadOfInbox DEF MgrForward, Extracted
  <1>2. PICK e \in Items : e = Head(inbox).e
    BY HeadOfInbox DEF MgrForward, Extracted
  <1>3. Extracted /\ Assign(w, e, "inbox") /\ task' = task /\ processed' = processed
    BY <1>1, <1>2 DEF MgrForward, mgrVars
  <1> QED BY <1>1, <1>2, <1>3, AnswerWithTask

\* A task moves from a worker's inbox into its hands.
LEMMA TakeTasks ==
  ASSUME TypeOK, OneTaskEach, FreshInv, EarlyInv, NEW w \in Workers, WorkerTake(w)
  PROVE  OneTaskEach' /\ FreshInv' /\ EarlyInv'
  <1>1. UNCHANGED <<inbox, processed, call>> /\ winbox[w] # <<>> /\ winbox[w] \in Seq(Items)
    BY DEF TypeOK, WorkerTake, mgrVars
  <1>2. Reports(w) = {} /\ Len(winbox[w]) <= 1
    BY <1>1 DEF OneTaskEach
  <1>3. \A v \in Workers : v # w => pc'[v] = pc[v] /\ winbox'[v] = winbox[v] /\ task'[v] = task[v]
    BY Names DEF TypeOK, WorkerTake, At
  <1>4. winbox'[w] = <<>> /\ task'[w] = winbox[w][1] /\ pc'[w] = "lookup" /\ pc'[Mgr] = pc[Mgr]
    BY <1>1, <1>2, Names DEF TypeOK, WorkerTake, At
  <1>5. \A v \in Workers : Reports(v)' = Reports(v)
    BY <1>1 DEF Reports
  <1>6. \A v \in Workers : v # w => OneTask(v)' /\ Entries(v)' \subseteq Entries(v)
    BY <1>1, <1>3, <1>5 DEF OneTaskEach, OneTask, Entries, InHand, Serving
  <1>7. OneTask(w)'
    BY <1>2, <1>4, <1>5 DEF OneTask
  <1>8. Entries(w)' \subseteq Entries(w)
    <2>1. winbox[w][1] \in Entries(w)
      BY <1>1, HeadTail DEF Entries
    <2>2. InHand(w)' \subseteq {winbox[w][1]}
      BY <1>4 DEF InHand, Serving
    <2> QED BY <1>2, <1>4, <1>5, <2>1, <2>2 DEF Entries
  <1>9. OneTaskEach' /\ FreshInv'
    BY <1>1, <1>6, <1>7, <1>8, Settle
  <1>10. EarlyInv'
    BY <1>1, <1>4, <1>6, <1>8, SettleEarly DEF Early
  <1> QED BY <1>9, <1>10

\* A task moves from a worker's hands into its report: it holds one
\* (NoUninitialisedReport).
LEMMA ReportTasks ==
  ASSUME TypeOK, OneTaskEach, FreshInv, EarlyInv, NoUninitialisedReport,
         NEW w \in Workers, WorkerReport(w)
  PROVE  OneTaskEach' /\ FreshInv' /\ EarlyInv'
  <1>1. UNCHANGED <<winbox, processed>> /\ pc[w] = "report" /\ task[w] \in Items
    BY DEF TypeOK, WorkerReport, NoUninitialisedReport, mgrVars
  <1>2. InHand(w) = {task[w]}
    BY <1>1, Names DEF InHand, Serving
  <1>3. Reports(w) = {} /\ winbox[w] = <<>>
    BY <1>2 DEF OneTaskEach
  <1>4. /\ \A v \in Workers : v # w => InHand(v)' \subseteq InHand(v)
        /\ InHand(w)' = {}
    BY Names DEF TypeOK, WorkerReport, At, Aborted, InHand, Serving
  <1>5. /\ Len(inbox') = Len(inbox) + 1 /\ Len(inbox) \in Nat
        /\ \A k \in 1 .. Len(inbox) : inbox'[k] = inbox[k]
        /\ inbox'[Len(inbox) + 1] = [e |-> task[w], w |-> w]
    BY <1>1 DEF TypeOK, WorkerReport
  <1>6. \A v \in Workers : v # w => /\ Reports(v)' = Reports(v)
                                    /\ \A k \in Reports(v) : inbox'[k] = inbox[k]
    BY <1>5 DEF Reports
  <1>7. /\ Reports(w)' = {Len(inbox) + 1}
        /\ inbox'[Len(inbox) + 1].e = task[w]
    BY <1>3, <1>5 DEF Reports
  <1>8. \A v \in Workers : v # w => OneTask(v)' /\ Entries(v)' \subseteq Entries(v)
    BY <1>1, <1>4, <1>6 DEF OneTaskEach, OneTask, Entries
  <1>9. OneTask(w)'
    BY <1>1, <1>3, <1>4, <1>7 DEF OneTask
  <1>10. Entries(w)' \subseteq Entries(w)
    BY <1>1, <1>2, <1>3, <1>4, <1>7 DEF Entries
  <1>11. OneTaskEach' /\ FreshInv'
    BY <1>1, <1>8, <1>9, <1>10, Settle
  <1>12. Early' => Early
    BY Names DEF TypeOK, WorkerReport, At, Aborted, VSignalTo, Early
  <1>13. EarlyInv'
    BY <1>1, <1>8, <1>10, <1>12, SettleEarly
  <1> QED BY <1>11, <1>13

\* A step keeps what is known of tasks.
LEMMA TaskStep ==
  ASSUME Inv, [Next]_vars
  PROVE  OneTaskEach' /\ FreshInv' /\ EarlyInv'
  <1>1. CASE Quiet
    BY <1>1, QuietTasks DEF Inv
  <1>2. CASE Moves
    BY <1>2, DispatchTasks, PruneTasks, NextTasks, ForwardTasks, TakeTasks, ReportTasks
       DEF Inv, Moves
  <1> QED BY <1>1, <1>2, QuietStep DEF Inv

---------------------------------------------------------------------------
(* The invariant                                                           *)

\* The invariant holds initially.
LEMMA InitInv == Init => Inv
  <1> SUFFICES ASSUME Init PROVE Inv
    OBVIOUS
  <1>1. TypeOK
    BY Names DEF Init, TypeOK, Pcs, NoCall
  <1>2. CallInv /\ SpawnInv /\ HoldInv
    BY Names DEF Init, CallInv, SpawnInv, HoldInv, Workers
  <1>3. PromptInv
    BY Names DEF Init, PromptInv, Sending, Queued, Prompted
  <1>4. \A w \in Workers : InHand(w) = {} /\ Reports(w) = {} /\ winbox[w] = <<>>
    BY Names DEF Init, InHand, Serving, Reports
  <1>5. \A w \in Workers : Entries(w) = {}
    BY <1>4 DEF Entries
  <1>6. OneTaskEach
    BY <1>4, <1>5 DEF OneTaskEach
  <1>7. FreshInv /\ EarlyInv
    BY <1>5 DEF FreshInv, EarlyInv
  <1>8. NoUninitialisedReport
    BY Names DEF Init, NoUninitialisedReport
  <1> QED BY <1>1, <1>2, <1>3, <1>6, <1>7, <1>8 DEF Inv

\* A step keeps the invariant.
LEMMA StepInv == Inv /\ [Next]_vars => Inv'
  <1> SUFFICES ASSUME Inv, [Next]_vars PROVE Inv'
    OBVIOUS
  <1>1. TypeOK' /\ CallInv' /\ SpawnInv' /\ HoldInv'
    BY TypeStep, CallStep, SpawnStep, HoldStep DEF Inv
  <1>2. PromptInv' /\ NoUninitialisedReport'
    BY PromptStep, ReportStep DEF Inv
  <1>3. OneTaskEach' /\ FreshInv' /\ EarlyInv'
    BY TaskStep
  <1> QED BY <1>1, <1>2, <1>3 DEF Inv

\* The invariant holds in every reachable state.
LEMMA Invariance == Spec => []Inv
  BY InitInv, StepInv, PTL DEF Spec

\* Every variable has its type in every reachable state; in particular no queue
\* of pdns.c ever holds anything but the messages meant for it.
THEOREM TypeCorrect == Spec => []TypeOK
  <1>1. Inv => TypeOK
    BY DEF Inv
  <1> QED BY <1>1, Invariance, PTL

\* A worker has at most one task at a time and no two workers have the same
\* entry, so nothing of an entry is written by two threads at once.
THEOREM OneTaskCorrect == Spec => []OneTaskEach
  <1>1. Inv => OneTaskEach
    BY DEF Inv
  <1> QED BY <1>1, Invariance, PTL

\* worker_check_inbox_f() never reports an uninitialised msg: each prompt finds
\* the task it was sent for.
THEOREM ReportsInitialised == Spec => []NoUninitialisedReport
  <1>1. Inv => NoUninitialisedReport
    BY DEF Inv
  <1> QED BY <1>1, Invariance, PTL
=============================================================================
