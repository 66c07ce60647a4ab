-------------------------- MODULE PdnsResultProofs --------------------------
(***************************************************************************)
(* What PDNS_lookup() owes its caller, for every number of entries and     *)
(* workers and every set of answers.                                       *)
(***************************************************************************)
EXTENDS PdnsProofs, FiniteSetTheorems

---------------------------------------------------------------------------
(* The process is alive, or every thread has ended.                        *)

Alive == pc[Mgr] # "aborted"

MgrPcs == {"spawn", "await", "dispatch", "run", "poll", "usr2", "drain", "inbox", "join",
           "timers", "stop", "vsig", "kill", "returned", "aborted"}

\* The manager can always be reached, and joins a worker whose number it has.
AliveInv ==
  /\ Mgr \in registered /\ pc[Mgr] \in MgrPcs
  /\ (\E t \in Threads : pc[t] = "aborted") => \A t \in Threads : pc[t] = "aborted"
  /\ Alive => (pc[Mgr] = "join" <=> joinee # None)

\* A step keeps what is known of the threads that live.
LEMMA AliveStep ==
  ASSUME TypeOK, CallInv, SpawnInv, AliveInv, [Next]_vars
  PROVE  AliveInv'
  <1>1. CASE Spawn
    BY <1>1, Names
       DEF TypeOK, At, mgrVars, CallInv, AliveInv, Alive, MgrPcs, VSignalTo, Spawn
  <1>2. CASE SpawnDone
    BY <1>2, Names
       DEF TypeOK, At, mgrVars, CallInv, AliveInv, Alive, MgrPcs, VSignalTo, SpawnDone
  <1>3. CASE Dispatch
    BY <1>3, Names
       DEF TypeOK, At, mgrVars, CallInv, AliveInv, Alive, MgrPcs, VSignalTo, Dispatch, Assign,
           Aborted, VSignalTo
  <1>4. CASE DispatchDone
    BY <1>4, Names
       DEF TypeOK, At, mgrVars, CallInv, AliveInv, Alive, MgrPcs, VSignalTo, DispatchDone
  <1>5. CASE MgrCheckInbox
    BY <1>5, Names
       DEF TypeOK, At, mgrVars, CallInv, AliveInv, Alive, MgrPcs, VSignalTo, MgrCheckInbox,
           Drain
  <1>6. CASE MgrInboxEmpty
    BY <1>6, Names
       DEF TypeOK, At, mgrVars, CallInv, AliveInv, Alive, MgrPcs, VSignalTo, MgrInboxEmpty
  <1>7. CASE MgrPrune
    BY <1>7, Names
       DEF TypeOK, At, mgrVars, CallInv, AliveInv, Alive, MgrPcs, VSignalTo, MgrPrune,
           Extracted, Raise, Woken
  <1>8. CASE MgrNext
    BY <1>8, Names
       DEF TypeOK, At, mgrVars, CallInv, AliveInv, Alive, MgrPcs, VSignalTo, MgrNext,
           Extracted,
           Assign, Aborted, VSignalTo
  <1>9. CASE MgrForward
    BY <1>9, Names
       DEF TypeOK, At, mgrVars, CallInv, AliveInv, Alive, MgrPcs, VSignalTo, MgrForward,
           Extracted, Assign, Aborted, VSignalTo
  <1>10. ASSUME NEW w \in Workers, MgrJoin(w) PROVE AliveInv'
    BY <1>10, Names
       DEF TypeOK, At, mgrVars, CallInv, AliveInv, Alive, MgrPcs, VSignalTo, MgrJoin, Drain
  <1>11. CASE MgrJoined
    BY <1>11, Names
       DEF TypeOK, At, mgrVars, CallInv, AliveInv, Alive, MgrPcs, VSignalTo, MgrJoined
  <1>12. CASE PollTimesOut
    BY <1>12, Names
       DEF TypeOK, At, mgrVars, CallInv, AliveInv, Alive, MgrPcs, VSignalTo, PollTimesOut
  <1>13. CASE NoTimerDue
    BY <1>13, Names
       DEF TypeOK, At, mgrVars, CallInv, AliveInv, Alive, MgrPcs, VSignalTo, NoTimerDue
  <1>14. CASE TimeoutF
    BY <1>14, Names
       DEF TypeOK, At, mgrVars, CallInv, AliveInv, Alive, MgrPcs, VSignalTo, TimeoutF
  <1>15. CASE StopWorker
    BY <1>15, Names
       DEF TypeOK, At, mgrVars, CallInv, AliveInv, Alive, MgrPcs, VSignalTo, StopWorker, Raise,
           Woken
  <1>16. CASE StopDone
    BY <1>16, Names
       DEF TypeOK, At, mgrVars, CallInv, AliveInv, Alive, MgrPcs, VSignalTo, StopDone,
           ShutdownAfterTimeout
  <1>17. CASE ShutdownF
    BY <1>17, Names
       DEF TypeOK, At, mgrVars, CallInv, AliveInv, Alive, MgrPcs, VSignalTo, ShutdownF
  <1>18. CASE PassUsr2(Mgr, "timers") /\ Keep
    BY <1>18, Names
       DEF TypeOK, At, mgrVars, CallInv, AliveInv, Alive, MgrPcs, VSignalTo, Keep, PassUsr2
  <1>19. ASSUME NEW w \in Workers, WorkerStart(w) PROVE AliveInv'
    <2>1. pc[Mgr] = "await" /\ pc[w] = "starting"
      BY <1>19 DEF SpawnInv, WorkerStart
    <2>2. \A t \in Threads : pc'[t] \in {pc[t], "run", "spawn"}
      BY <1>19, Names DEF TypeOK, WorkerStart
    <2>3. pc'[Mgr] = "spawn" /\ joinee' = joinee /\ Mgr \in registered'
      BY <1>19, Names DEF TypeOK, WorkerStart, Register, AliveInv
    <2>4. \A t \in Threads : pc[t] # "aborted"
      BY <2>1, Names DEF AliveInv
    <2> QED BY <2>1, <2>2, <2>3, <2>4, Names DEF AliveInv, Alive, MgrPcs
  <1>20. ASSUME NEW w \in Workers, WorkerTerm(w) PROVE AliveInv'
    BY <1>20, Names
       DEF TypeOK, At, mgrVars, CallInv, AliveInv, Alive, MgrPcs, VSignalTo, WorkerTerm
  <1>21. ASSUME NEW w \in Workers, WorkerCheckInbox(w) PROVE AliveInv'
    BY <1>21, Names
       DEF TypeOK, At, mgrVars, CallInv, AliveInv, Alive, MgrPcs, VSignalTo, WorkerCheckInbox,
           Drain
  <1>22. ASSUME NEW w \in Workers, WorkerTake(w) PROVE AliveInv'
    BY <1>22, Names
       DEF TypeOK, At, mgrVars, CallInv, AliveInv, Alive, MgrPcs, VSignalTo, WorkerTake
  <1>23. ASSUME NEW w \in Workers, WorkerInboxEmpty(w) PROVE AliveInv'
    BY <1>23, Names
       DEF TypeOK, At, mgrVars, CallInv, AliveInv, Alive, MgrPcs, VSignalTo, WorkerInboxEmpty
  <1>39. ASSUME NEW w \in Workers, WorkerTest(w) PROVE AliveInv'
    BY <1>39, Names
       DEF TypeOK, At, mgrVars, CallInv, AliveInv, Alive, MgrPcs, VSignalTo, WorkerTest,
           MayGoOn
  <1>40. ASSUME NEW w \in Workers, WorkerFollowUp(w) PROVE AliveInv'
    BY <1>40, Names
       DEF TypeOK, At, mgrVars, CallInv, AliveInv, Alive, MgrPcs, VSignalTo, WorkerFollowUp
  <1>24. ASSUME NEW w \in Workers, WorkerReport(w) PROVE AliveInv'
    BY <1>24, Names
       DEF TypeOK, At, mgrVars, CallInv, AliveInv, Alive, MgrPcs, VSignalTo, WorkerReport,
           Aborted, VSignalTo
  <1>25. ASSUME NEW w \in Workers, WorkerLeave(w) PROVE AliveInv'
    BY <1>25, Names
       DEF TypeOK, At, mgrVars, CallInv, AliveInv, Alive, MgrPcs, VSignalTo, WorkerLeave
  <1>26. ASSUME NEW w \in Workers, WorkerExit(w) PROVE AliveInv'
    BY <1>26, Names
       DEF TypeOK, At, mgrVars, CallInv, AliveInv, Alive, MgrPcs, VSignalTo, WorkerExit,
           VSignalTo
  <1>27. ASSUME NEW w \in Workers, PassUsr2(w, "term"), Keep PROVE AliveInv'
    BY <1>27, Names
       DEF TypeOK, At, mgrVars, CallInv, AliveInv, Alive, MgrPcs, VSignalTo, Keep, PassUsr2
  <1>28. ASSUME NEW w \in Workers, Reverse(w) PROVE AliveInv'
    BY <1>28, Names
       DEF TypeOK, At, mgrVars, CallInv, AliveInv, Alive, MgrPcs, VSignalTo, Reverse, Looked
  <1>29. ASSUME NEW w \in Workers, Forward(w) PROVE AliveInv'
    <2>1. joinee' = joinee /\ registered' = registered
      BY <1>29 DEF Forward, Looked, mgrVars
    <2>2. \A t \in Threads : \/ pc'[t] = pc[t]
                             \/ t = w /\ pc[t] = "lookup" /\ pc'[t] \in {"check", "post"}
      BY <1>29, LookedPc
    <2> QED BY <2>1, <2>2, Names DEF AliveInv, Alive
  <1>30. ASSUME NEW w \in Workers, LookupFails(w) PROVE AliveInv'
    BY <1>30, Names
       DEF TypeOK, At, mgrVars, CallInv, AliveInv, Alive, MgrPcs, VSignalTo, LookupFails,
           Aborted
  <1>31. ASSUME NEW t \in Threads, EnterPoll(t), Keep PROVE AliveInv'
    BY <1>31, Names
       DEF TypeOK, At, mgrVars, CallInv, AliveInv, Alive, MgrPcs, VSignalTo, Keep, EnterPoll
  <1>32. ASSUME NEW t \in Threads, ServeUsr2(t), Keep PROVE AliveInv'
    BY <1>32, Names
       DEF TypeOK, At, mgrVars, CallInv, AliveInv, Alive, MgrPcs, VSignalTo, Keep, ServeUsr2
  <1>33. ASSUME NEW t \in Threads, DrainEmpty(t), Keep PROVE AliveInv'
    BY <1>33, Names
       DEF TypeOK, At, mgrVars, CallInv, AliveInv, Alive, MgrPcs, VSignalTo, Keep, DrainEmpty
  <1>34. ASSUME NEW t \in Threads, VSignalNotFound(t), Keep PROVE AliveInv'
    BY <1>34, Names
       DEF TypeOK, At, mgrVars, CallInv, AliveInv, Alive, MgrPcs, VSignalTo, Keep,
           VSignalNotFound, NoCall
  <1>35. ASSUME NEW t \in Threads, VSignalSubmit(t), Keep PROVE AliveInv'
    BY <1>35, Names
       DEF TypeOK, At, mgrVars, CallInv, AliveInv, Alive, MgrPcs, VSignalTo, Keep,
           VSignalSubmit, Aborted
  <1>36. ASSUME NEW t \in Threads, VSignalKill(t), Keep PROVE AliveInv'
    BY <1>36, Names
       DEF TypeOK, At, mgrVars, CallInv, AliveInv, Alive, MgrPcs, VSignalTo, Keep, VSignalKill,
           Raise, Woken, NoCall
  <1>37. ASSUME NEW t \in Threads, Cleanup(t), Keep PROVE AliveInv'
    BY <1>37, Names
       DEF TypeOK, At, mgrVars, CallInv, AliveInv, Alive, MgrPcs, VSignalTo, Keep, Cleanup
  <1>38. CASE UNCHANGED vars
    BY <1>38, Names
       DEF TypeOK, At, mgrVars, CallInv, AliveInv, Alive, MgrPcs, VSignalTo, vars, esVars
  <1> QED
    BY <1>1, <1>2, <1>3, <1>4, <1>5, <1>6, <1>7, <1>8, <1>9, <1>10, <1>11, <1>12, <1>13, <1>14,
       <1>15, <1>16, <1>17, <1>18, <1>19, <1>20, <1>21, <1>22, <1>23, <1>24, <1>25, <1>26,
       <1>27, <1>28, <1>29, <1>30, <1>31, <1>32, <1>33, <1>34, <1>35, <1>36, <1>37, <1>38,
       <1>39, <1>40
       DEF Next, MgrStep, WorkerStep, Resolve, Engine

---------------------------------------------------------------------------
(* What passes between a worker and the manager.                           *)

\* A worker is about to report, or to ask to be joined; or it has asked.
Reporting(w) == pc[w] = "vsig" /\ call[w].ret = "drain"
Leaving(w) == pc[w] = "vsig" /\ call[w].ret = "cleanup"
Left(w) == pc[w] \in {"cleanup", "done"} \/ (pc[w] = "kill" /\ call[w].ret = "cleanup")

\* The manager answers reports, or prompts a worker.
Calling == pc[Mgr] \in {"vsig", "kill"}
InInbox == pc[Mgr] = "inbox" \/ (Calling /\ call[Mgr].ret = "inbox")

StageKept(w) ==
  /\ Reporting(w)' = Reporting(w) /\ Leaving(w)' = Leaving(w) /\ Left(w)' = Left(w)
  /\ pc[w] = "done" => pc'[w] = "done"

\* The steps by which they talk to one another.
WorkerTalks(w) ==
  WorkerReport(w) \/ WorkerExit(w) \/ (VSignalSubmit(w) /\ Keep) \/ (Cleanup(w) /\ Keep)
Talk ==
  \/ Dispatch \/ MgrCheckInbox \/ MgrInboxEmpty \/ MgrPrune \/ MgrNext \/ MgrForward
  \/ MgrJoined
  \/ \E w \in Workers : MgrJoin(w) \/ WorkerTalks(w)

\* What all other steps have in common.
Calm ==
  /\ UNCHANGED <<inbox, joined, joinee>> /\ mq'[Mgr] = mq[Mgr]
  /\ \A w \in Workers : StageKept(w)
  /\ InInbox' = InInbox
  /\ Calling' => Calling /\ call'[Mgr].to = call[Mgr].to
  /\ Early' => Early

\* A step is one of those, is calm, or ends the process.
LEMMA TalkStep ==
  ASSUME TypeOK, CallInv, SpawnInv, AliveInv, [Next]_vars
  PROVE  ~Alive' \/ Calm \/ Talk
  <1>1. CASE Spawn
    <2>1. spawned \in Workers /\ pc[spawned] = "unborn" /\ pc[Mgr] = "spawn"
      BY <1>1, Names DEF TypeOK, Spawn, SpawnInv, Workers
    <2>2. \A t \in Threads : pc'[t] \in {pc[t], "await", "starting"} /\ call'[t] = call[t]
      BY <1>1, Names DEF TypeOK, Spawn
    <2>3. \A w \in Workers : pc'[w] = pc[w] \/ (pc[w] = "unborn" /\ pc'[w] = "starting")
      BY <1>1, <2>1, Names DEF TypeOK, Spawn
    <2>4. pc'[Mgr] = "await" /\ UNCHANGED <<inbox, joined, joinee, mq>>
      BY <1>1, <2>1, Names DEF TypeOK, Spawn, mgrVars, taskVars
    <2> QED BY <2>1, <2>2, <2>3, <2>4, Names DEF Calm, StageKept, Reporting, Leaving, Left,
         InInbox, Calling, Early
  <1>2. CASE SpawnDone
    BY <1>2, Names
       DEF TypeOK, At, CallInv, AliveInv, MgrPcs, Alive, VSignalTo, Calm, StageKept, Reporting,
           Leaving, Left, InInbox, Calling, Early, mgrVars, timeVars, taskVars, SpawnDone
  <1>3. CASE Dispatch
    BY <1>3 DEF Talk
  <1>4. CASE DispatchDone
    BY <1>4, Names
       DEF TypeOK, At, CallInv, AliveInv, MgrPcs, Alive, VSignalTo, Calm, StageKept, Reporting,
           Leaving, Left, InInbox, Calling, Early, mgrVars, timeVars, taskVars, DispatchDone
  <1>5. CASE MgrCheckInbox
    BY <1>5 DEF Talk
  <1>6. CASE MgrInboxEmpty
    BY <1>6 DEF Talk
  <1>7. CASE MgrPrune
    BY <1>7 DEF Talk
  <1>8. CASE MgrNext
    BY <1>8 DEF Talk
  <1>9. CASE MgrForward
    BY <1>9 DEF Talk
  <1>10. ASSUME NEW w \in Workers, MgrJoin(w) PROVE ~Alive' \/ Calm \/ Talk
    BY <1>10 DEF Talk
  <1>11. CASE MgrJoined
    BY <1>11 DEF Talk
  <1>12. CASE PollTimesOut
    BY <1>12, Names
       DEF TypeOK, At, CallInv, AliveInv, MgrPcs, Alive, VSignalTo, Calm, StageKept, Reporting,
           Leaving, Left, InInbox, Calling, Early, mgrVars, timeVars, taskVars, PollTimesOut
  <1>13. CASE NoTimerDue
    BY <1>13, Names
       DEF TypeOK, At, CallInv, AliveInv, MgrPcs, Alive, VSignalTo, Calm, StageKept, Reporting,
           Leaving, Left, InInbox, Calling, Early, mgrVars, timeVars, taskVars, NoTimerDue
  <1>14. CASE TimeoutF
    BY <1>14, Names
       DEF TypeOK, At, CallInv, AliveInv, MgrPcs, Alive, VSignalTo, Calm, StageKept, Reporting,
           Leaving, Left, InInbox, Calling, Early, mgrVars, timeVars, taskVars, TimeoutF
  <1>15. CASE StopWorker
    BY <1>15, Names
       DEF TypeOK, At, CallInv, AliveInv, MgrPcs, Alive, VSignalTo, Calm, StageKept, Reporting,
           Leaving, Left, InInbox, Calling, Early, mgrVars, timeVars, taskVars, StopWorker,
           Raise, Woken
  <1>16. CASE StopDone
    BY <1>16, Names
       DEF TypeOK, At, CallInv, AliveInv, MgrPcs, Alive, VSignalTo, Calm, StageKept, Reporting,
           Leaving, Left, InInbox, Calling, Early, mgrVars, timeVars, taskVars, StopDone,
           ShutdownAfterTimeout
  <1>17. CASE ShutdownF
    BY <1>17, Names
       DEF TypeOK, At, CallInv, AliveInv, MgrPcs, Alive, VSignalTo, Calm, StageKept, Reporting,
           Leaving, Left, InInbox, Calling, Early, mgrVars, timeVars, taskVars, ShutdownF
  <1>18. CASE PassUsr2(Mgr, "timers") /\ Keep
    BY <1>18, Names
       DEF TypeOK, At, CallInv, AliveInv, MgrPcs, Alive, VSignalTo, Calm, StageKept, Reporting,
           Leaving, Left, InInbox, Calling, Early, mgrVars, timeVars, taskVars, Keep, PassUsr2
  <1>19. ASSUME NEW w \in Workers, WorkerStart(w) PROVE ~Alive' \/ Calm \/ Talk
    <2>1. pc[Mgr] = "await" /\ pc[w] = "starting"
      BY <1>19 DEF SpawnInv, WorkerStart
    <2>2. \A v \in Workers : pc'[v] = pc[v] \/ (pc[v] = "starting" /\ pc'[v] = "run")
      BY <1>19, <2>1, Names DEF TypeOK, WorkerStart
    <2>3. pc'[Mgr] = "spawn" /\ UNCHANGED <<inbox, joined, joinee, mq, call>>
      BY <1>19, <2>1, Names DEF TypeOK, WorkerStart, taskVars
    <2> QED BY <2>1, <2>2, <2>3, Names DEF Calm, StageKept, Reporting, Leaving, Left,
         InInbox, Calling, Early
  <1>20. ASSUME NEW w \in Workers, WorkerTerm(w) PROVE ~Alive' \/ Calm \/ Talk
    BY <1>20, Names
       DEF TypeOK, At, CallInv, AliveInv, MgrPcs, Alive, VSignalTo, Calm, StageKept, Reporting,
           Leaving, Left, InInbox, Calling, Early, mgrVars, timeVars, taskVars, WorkerTerm
  <1>21. ASSUME NEW w \in Workers, WorkerCheckInbox(w) PROVE ~Alive' \/ Calm \/ Talk
    BY <1>21, Names
       DEF TypeOK, At, CallInv, AliveInv, MgrPcs, Alive, VSignalTo, Calm, StageKept, Reporting,
           Leaving, Left, InInbox, Calling, Early, mgrVars, timeVars, taskVars,
           WorkerCheckInbox, Drain
  <1>22. ASSUME NEW w \in Workers, WorkerTake(w) PROVE ~Alive' \/ Calm \/ Talk
    BY <1>22, Names
       DEF TypeOK, At, CallInv, AliveInv, MgrPcs, Alive, VSignalTo, Calm, StageKept, Reporting,
           Leaving, Left, InInbox, Calling, Early, mgrVars, timeVars, taskVars, WorkerTake
  <1>23. ASSUME NEW w \in Workers, WorkerInboxEmpty(w) PROVE ~Alive' \/ Calm \/ Talk
    BY <1>23, Names
       DEF TypeOK, At, CallInv, AliveInv, MgrPcs, Alive, VSignalTo, Calm, StageKept, Reporting,
           Leaving, Left, InInbox, Calling, Early, mgrVars, timeVars, taskVars,
           WorkerInboxEmpty
  <1>39. ASSUME NEW w \in Workers, WorkerTest(w) PROVE ~Alive' \/ Calm \/ Talk
    BY <1>39, Names
       DEF TypeOK, At, CallInv, AliveInv, MgrPcs, Alive, VSignalTo, Calm, StageKept, Reporting,
           Leaving, Left, InInbox, Calling, Early, mgrVars, timeVars, taskVars,
           WorkerTest, MayGoOn
  <1>40. ASSUME NEW w \in Workers, WorkerFollowUp(w) PROVE ~Alive' \/ Calm \/ Talk
    BY <1>40, Names
       DEF TypeOK, At, CallInv, AliveInv, MgrPcs, Alive, VSignalTo, Calm, StageKept, Reporting,
           Leaving, Left, InInbox, Calling, Early, mgrVars, timeVars, taskVars,
           WorkerFollowUp
  <1>24. ASSUME NEW w \in Workers, WorkerReport(w) PROVE ~Alive' \/ Calm \/ Talk
    BY <1>24 DEF Talk, WorkerTalks
  <1>25. ASSUME NEW w \in Workers, WorkerLeave(w) PROVE ~Alive' \/ Calm \/ Talk
    BY <1>25, Names
       DEF TypeOK, At, CallInv, AliveInv, MgrPcs, Alive, VSignalTo, Calm, StageKept, Reporting,
           Leaving, Left, InInbox, Calling, Early, mgrVars, timeVars, taskVars, WorkerLeave
  <1>26. ASSUME NEW w \in Workers, WorkerExit(w) PROVE ~Alive' \/ Calm \/ Talk
    BY <1>26 DEF Talk, WorkerTalks
  <1>27. ASSUME NEW w \in Workers, PassUsr2(w, "term"), Keep PROVE ~Alive' \/ Calm \/ Talk
    BY <1>27, Names
       DEF TypeOK, At, CallInv, AliveInv, MgrPcs, Alive, VSignalTo, Calm, StageKept, Reporting,
           Leaving, Left, InInbox, Calling, Early, mgrVars, timeVars, taskVars, Keep, PassUsr2
  <1>28. ASSUME NEW w \in Workers, Reverse(w) PROVE ~Alive' \/ Calm \/ Talk
    BY <1>28, Names
       DEF TypeOK, At, CallInv, AliveInv, MgrPcs, Alive, VSignalTo, Calm, StageKept, Reporting,
           Leaving, Left, InInbox, Calling, Early, mgrVars, timeVars, taskVars, Reverse, Looked
  <1>29. ASSUME NEW w \in Workers, Forward(w) PROVE ~Alive' \/ Calm \/ Talk
    BY <1>29, Names
       DEF TypeOK, At, CallInv, AliveInv, MgrPcs, Alive, VSignalTo, Calm, StageKept, Reporting,
           Leaving, Left, InInbox, Calling, Early, mgrVars, timeVars, taskVars, Forward, Looked
  <1>30. ASSUME NEW w \in Workers, LookupFails(w) PROVE ~Alive' \/ Calm \/ Talk
    BY <1>30, Names
       DEF TypeOK, At, CallInv, AliveInv, MgrPcs, Alive, VSignalTo, Calm, StageKept, Reporting,
           Leaving, Left, InInbox, Calling, Early, mgrVars, timeVars, taskVars, LookupFails,
           Aborted
  <1>31. ASSUME NEW t \in Threads, EnterPoll(t), Keep PROVE ~Alive' \/ Calm \/ Talk
    BY <1>31, Names
       DEF TypeOK, At, CallInv, AliveInv, MgrPcs, Alive, VSignalTo, Calm, StageKept, Reporting,
           Leaving, Left, InInbox, Calling, Early, mgrVars, timeVars, taskVars, Keep, EnterPoll
  <1>32. ASSUME NEW t \in Threads, ServeUsr2(t), Keep PROVE ~Alive' \/ Calm \/ Talk
    BY <1>32, Names
       DEF TypeOK, At, CallInv, AliveInv, MgrPcs, Alive, VSignalTo, Calm, StageKept, Reporting,
           Leaving, Left, InInbox, Calling, Early, mgrVars, timeVars, taskVars, Keep, ServeUsr2
  <1>33. ASSUME NEW t \in Threads, DrainEmpty(t), Keep PROVE ~Alive' \/ Calm \/ Talk
    BY <1>33, Names
       DEF TypeOK, At, CallInv, AliveInv, MgrPcs, Alive, VSignalTo, Calm, StageKept, Reporting,
           Leaving, Left, InInbox, Calling, Early, mgrVars, timeVars, taskVars, Keep,
           DrainEmpty
  <1>34. ASSUME NEW t \in Threads, VSignalNotFound(t), Keep PROVE ~Alive' \/ Calm \/ Talk
    BY <1>34, Names
       DEF TypeOK, At, CallInv, AliveInv, MgrPcs, Alive, VSignalTo, Calm, StageKept, Reporting,
           Leaving, Left, InInbox, Calling, Early, mgrVars, timeVars, taskVars, Keep,
           VSignalNotFound, NoCall
  <1>35. ASSUME NEW t \in Threads, VSignalSubmit(t), Keep PROVE ~Alive' \/ Calm \/ Talk
    BY <1>35, Names
       DEF TypeOK, At, CallInv, AliveInv, MgrPcs, Alive, VSignalTo, Calm, StageKept, Reporting,
           Leaving, Left, InInbox, Calling, Early, mgrVars, timeVars, taskVars, Keep,
           VSignalSubmit, Aborted, Talk, WorkerTalks
  <1>36. ASSUME NEW t \in Threads, VSignalKill(t), Keep PROVE ~Alive' \/ Calm \/ Talk
    BY <1>36, Names
       DEF TypeOK, At, CallInv, AliveInv, MgrPcs, Alive, VSignalTo, Calm, StageKept, Reporting,
           Leaving, Left, InInbox, Calling, Early, mgrVars, timeVars, taskVars, Keep,
           VSignalKill, Raise, Woken, NoCall
  <1>37. ASSUME NEW t \in Threads, Cleanup(t), Keep PROVE ~Alive' \/ Calm \/ Talk
    BY <1>37, Names
       DEF TypeOK, At, CallInv, AliveInv, MgrPcs, Alive, VSignalTo, Calm, StageKept, Reporting,
           Leaving, Left, InInbox, Calling, Early, mgrVars, timeVars, taskVars, Keep, Cleanup,
           Talk, WorkerTalks
  <1>38. CASE UNCHANGED vars
    BY <1>38, Names
       DEF TypeOK, At, CallInv, AliveInv, MgrPcs, Alive, VSignalTo, Calm, StageKept, Reporting,
           Leaving, Left, InInbox, Calling, Early, mgrVars, timeVars, taskVars, vars, esVars
  <1> QED
    BY <1>1, <1>2, <1>3, <1>4, <1>5, <1>6, <1>7, <1>8, <1>9, <1>10, <1>11, <1>12, <1>13, <1>14,
       <1>15, <1>16, <1>17, <1>18, <1>19, <1>20, <1>21, <1>22, <1>23, <1>24, <1>25, <1>26,
       <1>27, <1>28, <1>29, <1>30, <1>31, <1>32, <1>33, <1>34, <1>35, <1>36, <1>37, <1>38,
       <1>39, <1>40
       DEF Next, MgrStep, WorkerStep, Resolve, Engine

---------------------------------------------------------------------------
(* Joining.  The virtual signal queue of the manager is a FIFO: the number *)
(* with which a worker asks to be joined comes out after the prompt for    *)
(* its last report, so no report of a joined worker is ever answered.      *)

NoticeAt(w) == {k \in 1 .. Len(mq[Mgr]) : mq[Mgr][k] = w}

\* A worker asks once, when it has left ES_run().
NoticeInv(w) ==
  /\ NoticeAt(w) # {} \/ joinee = w \/ joined[w] => Left(w)
  /\ \A j, k \in NoticeAt(w) : j = k
  /\ NoticeAt(w) # {} => joinee # w /\ ~joined[w]
  /\ joinee = w => ~joined[w]
  /\ joined[w] => pc[w] = "done"

\* A prompt that is queued before the worker asks to be joined.
PromptFirst(w) ==
  \E j \in 1 .. Len(mq[Mgr]) :
    mq[Mgr][j] = CheckInbox /\ \A k \in 1 .. j - 1 : mq[Mgr][k] # w

\* A report is being answered, or its prompt is still to come, to be queued or to
\* be taken from the queue.
ReportInv(w) ==
  /\ Reports(w) # {} => InInbox \/ Reporting(w) \/ PromptFirst(w)
  /\ joinee = w \/ joined[w] => Reports(w) = {}

\* The manager prompts no worker that was joined, and joins none before all have
\* been given their first entry.
PromptedInv ==
  /\ Calling => ~joined[call[Mgr].to]
  /\ Early => \A w \in Workers : ~joined[w]

JoinInv == Alive => PromptedInv /\ \A w \in Workers : NoticeInv(w) /\ ReportInv(w)

\* A calm step keeps all this.
LEMMA CalmJoin ==
  ASSUME JoinInv, Alive, Calm
  PROVE  JoinInv'
  <1>1. \A w \in Workers : /\ NoticeAt(w)' = NoticeAt(w) /\ Reports(w)' = Reports(w)
                           /\ PromptFirst(w)' = PromptFirst(w)
    BY DEF Calm, NoticeAt, Reports, PromptFirst
  <1>2. PromptedInv'
    BY DEF JoinInv, PromptedInv, Calm
  <1>3. ASSUME NEW w \in Workers PROVE NoticeInv(w)' /\ ReportInv(w)'
    BY <1>1 DEF JoinInv, Calm, StageKept, NoticeInv, ReportInv
  <1> QED BY <1>2, <1>3 DEF JoinInv

\* What a worker does to the manager and to the other workers: nothing.
OthersKept(w) ==
  /\ UNCHANGED <<joined, joinee>> /\ InInbox' = InInbox
  /\ Calling' => Calling /\ call'[Mgr].to = call[Mgr].to
  /\ Early' => Early
  /\ \A v \in Workers : v # w => StageKept(v)

LEMMA WorkerTalksAlone ==
  ASSUME TypeOK, CallInv, AliveInv, Alive', NEW w \in Workers, WorkerTalks(w)
  PROVE  OthersKept(w)
  <1>1. CASE WorkerReport(w)
    BY <1>1, Names
       DEF TypeOK, At, Aborted, Alive, CallInv, VSignalTo, WorkerReport, OthersKept, StageKept,
           Reporting, Leaving, Left, InInbox, Calling, Early, mgrVars
  <1>2. CASE WorkerExit(w)
    BY <1>2, EndingPc, Names
       DEF OthersKept, StageKept, Reporting, Leaving, Left, InInbox, Calling, Early, mgrVars
  <1>3. CASE VSignalSubmit(w) /\ Keep
    BY <1>3, Names
       DEF TypeOK, At, Aborted, Alive, CallInv, VSignalTo, VSignalSubmit, Keep, OthersKept,
           StageKept, Reporting, Leaving, Left, InInbox, Calling, Early, mgrVars
  <1>4. CASE Cleanup(w) /\ Keep
    BY <1>4, Names
       DEF TypeOK, At, CallInv, VSignalTo, Cleanup, Keep, OthersKept, StageKept, Reporting,
           Leaving, Left, InInbox, Calling, Early, mgrVars
  <1> QED BY <1>1, <1>2, <1>3, <1>4 DEF WorkerTalks

LEMMA PromptedKept ==
  ASSUME JoinInv, Alive, NEW w \in Workers, OthersKept(w)
  PROVE  PromptedInv'
  BY DEF JoinInv, PromptedInv, OthersKept

\* A report.
LEMMA ReportJoin ==
  ASSUME TypeOK, CallInv, AliveInv, JoinInv, Alive, Alive', NEW w \in Workers, WorkerReport(w)
  PROVE  JoinInv'
  <1>1. OthersKept(w)
    BY WorkerTalksAlone DEF WorkerTalks
  <1>2. /\ ~Left(w) /\ pc[w] = "report" /\ Reporting(w)' /\ ~Left(w)' /\ mq' = mq
        /\ inbox' = Append(inbox, [e |-> task[w], w |-> w])
    BY Names DEF TypeOK, At, Aborted, Alive, WorkerReport, VSignalTo, Left, Reporting
  <1>3. \A v \in Workers : v # w => Reports(v)' = Reports(v)
    BY <1>2 DEF TypeOK, Reports
  <1>4. \A v \in Workers : NoticeAt(v)' = NoticeAt(v) /\ PromptFirst(v)' = PromptFirst(v)
    BY <1>2 DEF NoticeAt, PromptFirst
  <1>5. ASSUME NEW v \in Workers PROVE NoticeInv(v)' /\ ReportInv(v)'
    <2>1. CASE v = w
      BY <1>1, <1>2, <1>4, <2>1 DEF JoinInv, OthersKept, NoticeInv, ReportInv
    <2>2. CASE v # w
      BY <1>1, <1>3, <1>4, <2>2 DEF JoinInv, OthersKept, StageKept, NoticeInv, ReportInv
    <2> QED BY <2>1, <2>2
  <1> QED BY <1>1, <1>5, PromptedKept DEF JoinInv

\* A worker leaves ES_run(), and, later, the engine.
LEMMA LeaveJoin ==
  ASSUME TypeOK, CallInv, AliveInv, JoinInv, Alive, Alive', NEW w \in Workers,
         WorkerExit(w) \/ (Cleanup(w) /\ Keep)
  PROVE  JoinInv'
  <1>1. OthersKept(w)
    BY WorkerTalksAlone DEF WorkerTalks
  <1>2. mq'[Mgr] = mq[Mgr] /\ inbox' = inbox /\ (Left(w) => Left(w)') /\ ~Reporting(w)
        /\ pc[w] \in {"exiting", "cleanup"}
    <2>1. CASE WorkerExit(w)
      BY <2>1, Names DEF TypeOK, At, WorkerExit, Left, Reporting, taskVars
    <2>2. CASE Cleanup(w) /\ Keep
      BY <2>2, Names DEF TypeOK, At, Cleanup, Keep, Left, Reporting, taskVars
    <2> QED BY <2>1, <2>2
  <1>3. \A v \in Workers : /\ NoticeAt(v)' = NoticeAt(v) /\ PromptFirst(v)' = PromptFirst(v)
                           /\ Reports(v)' = Reports(v)
    BY <1>2 DEF NoticeAt, PromptFirst, Reports
  <1>4. ASSUME NEW v \in Workers PROVE NoticeInv(v)' /\ ReportInv(v)'
    <2>1. CASE v = w
      BY <1>1, <1>2, <1>3, <2>1 DEF JoinInv, OthersKept, NoticeInv, ReportInv
    <2>2. CASE v # w
      BY <1>1, <1>3, <2>2 DEF JoinInv, OthersKept, StageKept, NoticeInv, ReportInv
    <2> QED BY <2>1, <2>2
  <1> QED BY <1>1, <1>4, PromptedKept DEF JoinInv

\* A prompt or a request to be joined is queued.
LEMMA SubmitJoin ==
  ASSUME TypeOK, CallInv, AliveInv, JoinInv, Alive, Alive', NEW w \in Workers,
         VSignalSubmit(w), Keep
  PROVE  JoinInv'
  <1>1. OthersKept(w)
    BY WorkerTalksAlone DEF WorkerTalks
  <1>2. /\ pc[w] = "vsig" /\ pc'[w] = "kill" /\ call' = call /\ inbox' = inbox
        /\ call[w].to = Mgr /\ mq'[Mgr] = Append(mq[Mgr], call[w].vsig)
        /\ mq[Mgr] \in Seq(Workers \cup {CheckInbox})
    BY Names DEF TypeOK, CallInv, VSignalTo, At, Aborted, Alive, VSignalSubmit, Keep, taskVars
  <1> DEFINE q == mq[Mgr]
             q1 == mq'[Mgr]
  <1>3. /\ Len(q) \in Nat /\ Len(q1) = Len(q) + 1 /\ q1[Len(q) + 1] = call[w].vsig
        /\ \A k \in 1 .. Len(q) : q1[k] = q[k]
    BY <1>2
  <1>4. \A v \in Workers : /\ Reports(v)' = Reports(v)
                           /\ PromptFirst(v) => PromptFirst(v)'
    BY <1>2, <1>3 DEF Reports, PromptFirst
  <1>5. ASSUME NEW v \in Workers, v # call[w].vsig
        PROVE  NoticeAt(v)' = NoticeAt(v)
    BY <1>3, <1>5 DEF NoticeAt
  <1>6. CASE call[w] = VSignalTo(Mgr, CheckInbox, "drain")
    <2>1. Reporting(w) /\ ~Left(w) /\ ~Left(w)' /\ \A v \in Workers : v # call[w].vsig
      BY <1>2, <1>6, Names DEF VSignalTo, Reporting, Left
    <2>2. PromptFirst(w)'
      <3>1. \A k \in 1 .. Len(q) : q1[k] # w
        BY <1>3, <2>1 DEF JoinInv, NoticeInv, NoticeAt
      <3> QED BY <1>3, <1>6, <3>1 DEF PromptFirst, VSignalTo
    <2>3. ASSUME NEW v \in Workers PROVE NoticeInv(v)' /\ ReportInv(v)'
      <3>1. CASE v = w
        BY <1>1, <1>4, <1>5, <2>1, <2>2, <3>1 DEF JoinInv, OthersKept, NoticeInv, ReportInv
      <3>2. CASE v # w
        BY <1>1, <1>4, <1>5, <2>1, <3>2
           DEF JoinInv, OthersKept, StageKept, NoticeInv, ReportInv
      <3> QED BY <3>1, <3>2
    <2> QED BY <1>1, <2>3, PromptedKept DEF JoinInv
  <1>7. CASE call[w] = VSignalTo(Mgr, w, "cleanup")
    <2>1. ~Reporting(w) /\ ~Left(w) /\ Left(w)' /\ call[w].vsig = w
      BY <1>2, <1>7 DEF VSignalTo, Reporting, Left
    <2>2. /\ NoticeAt(w) = {} /\ joinee # w /\ ~joined[w]
          /\ joinee' = joinee /\ joined' = joined
      BY <1>1, <2>1 DEF JoinInv, NoticeInv, OthersKept
    <2>3. NoticeAt(w)' = {Len(q) + 1}
      BY <1>3, <2>1, <2>2 DEF NoticeAt
    <2>4. ASSUME NEW v \in Workers PROVE NoticeInv(v)' /\ ReportInv(v)'
      <3>1. CASE v = w
        BY <1>1, <1>4, <2>1, <2>2, <2>3, <3>1
           DEF JoinInv, OthersKept, NoticeInv, ReportInv
      <3>2. CASE v # w
        BY <1>1, <1>4, <1>5, <2>1, <3>2
           DEF JoinInv, OthersKept, StageKept, NoticeInv, ReportInv
      <3> QED BY <3>1, <3>2
    <2> QED BY <1>1, <2>4, PromptedKept DEF JoinInv
  <1> QED BY <1>2, <1>6, <1>7 DEF CallInv

\* Nothing runs once the process has ended.
LEMMA DeadStep ==
  ASSUME TypeOK, AliveInv, ~Alive, [Next]_vars
  PROVE  UNCHANGED vars
  <1>1. \A t \in Threads : pc[t] = "aborted"
    BY Names DEF AliveInv, Alive
  <1>2. ~MgrStep
    BY <1>1, Names
       DEF MgrStep, Spawn, SpawnDone, Dispatch, DispatchDone, MgrCheckInbox, MgrInboxEmpty,
           MgrPrune, MgrNext, MgrForward, Extracted, MgrJoin, Drain, MgrJoined, PollTimesOut,
           NoTimerDue, TimeoutF, StopWorker, StopDone, ShutdownF, PassUsr2
  <1>3. \A w \in Workers : ~WorkerStep(w) /\ ~Resolve(w)
    BY <1>1, Names
       DEF WorkerStep, WorkerStart, WorkerTerm, WorkerCheckInbox, Drain, WorkerTake,
           WorkerInboxEmpty, WorkerTest, WorkerFollowUp, WorkerReport, WorkerLeave, WorkerExit,
           PassUsr2, Resolve, Reverse, Forward, LookupFails
  <1>4. \A t \in Threads : ~Engine(t)
    BY <1>1 DEF Engine, EnterPoll, ServeUsr2, DrainEmpty, VSignalNotFound, VSignalSubmit,
                VSignalKill, Cleanup
  <1> QED BY <1>2, <1>3, <1>4 DEF Next

\* What the manager does to the workers: nothing.
ManagerTalks ==
  \/ Dispatch \/ MgrCheckInbox \/ MgrInboxEmpty \/ MgrPrune \/ MgrNext \/ MgrForward
  \/ MgrJoined \/ \E w \in Workers : MgrJoin(w)

LEMMA ManagerTalksAlone ==
  ASSUME TypeOK, AliveInv, Alive', ManagerTalks
  PROVE  \A w \in Workers : StageKept(w)
  <1>1. \A w \in Workers : call'[w] = call[w]
    BY Names
       DEF TypeOK, ManagerTalks, Dispatch, MgrCheckInbox, MgrInboxEmpty, MgrPrune, MgrNext,
           MgrForward, MgrJoined, MgrJoin, Assign
  <1>2. \A w \in Workers : pc'[w] = pc[w] \/ (pc[w] = "poll" /\ pc'[w] = "usr2")
    <2>1. CASE MgrPrune
      BY <2>1, RaisePc DEF MgrPrune, TypeOK, Threads
    <2>2. CASE ~MgrPrune
      BY <2>2, Names
         DEF TypeOK, ManagerTalks, Dispatch, MgrCheckInbox, MgrInboxEmpty, MgrNext, MgrForward,
             MgrJoined, MgrJoin, Assign, Drain, At, Aborted, Alive
    <2> QED BY <2>1, <2>2
  <1> QED BY <1>1, <1>2 DEF StageKept, Reporting, Leaving, Left

\* A first entry is handed out.
LEMMA DispatchJoin ==
  ASSUME TypeOK, AliveInv, JoinInv, Alive, Alive', Dispatch
  PROVE  JoinInv'
  <1>1. \A w \in Workers : StageKept(w)
    BY ManagerTalksAlone DEF ManagerTalks
  <1>2. /\ processed \in Workers /\ call'[Mgr].to = processed /\ Early /\ ~InInbox
        /\ UNCHANGED <<mq, inbox, joined, joinee>>
    BY Names DEF TypeOK, Dispatch, Assign, VSignalTo, Workers, Early, InInbox, Calling
  <1>3. \A w \in Workers : /\ NoticeAt(w)' = NoticeAt(w) /\ PromptFirst(w)' = PromptFirst(w)
                           /\ Reports(w)' = Reports(w)
    BY <1>2 DEF NoticeAt, PromptFirst, Reports
  <1>4. PromptedInv'
    BY <1>2 DEF JoinInv, PromptedInv
  <1>5. ASSUME NEW w \in Workers PROVE NoticeInv(w)' /\ ReportInv(w)'
    BY <1>1, <1>2, <1>3 DEF JoinInv, StageKept, NoticeInv, ReportInv
  <1> QED BY <1>4, <1>5 DEF JoinInv

\* What the head of the manager's queue leaves behind.
LEMMA TailNotices ==
  ASSUME TypeOK, mq[Mgr] # <<>>, mq'[Mgr] = Tail(mq[Mgr]), NEW v \in Workers
  PROVE  /\ \A k \in NoticeAt(v)' : k \in Nat /\ k + 1 \in NoticeAt(v)
         /\ Head(mq[Mgr]) = mq[Mgr][1]
         /\ Head(mq[Mgr]) = v => 1 \in NoticeAt(v) /\ ~PromptFirst(v)
         /\ Head(mq[Mgr]) \notin {v, CheckInbox} /\ PromptFirst(v) => PromptFirst(v)'
  <1> DEFINE q == mq[Mgr]
             q1 == mq'[Mgr]
  <1>1. /\ q \in Seq(Workers \cup {CheckInbox}) /\ Len(q) \in Nat \ {0} /\ Head(q) = q[1]
        /\ Len(q1) = Len(q) - 1 /\ \A k \in 1 .. Len(q1) : q1[k] = q[k + 1]
    BY Names DEF TypeOK
  <1>2. \A k \in NoticeAt(v)' : k \in Nat /\ k + 1 \in NoticeAt(v)
    BY <1>1 DEF NoticeAt
  <1>3. ASSUME Head(q) = v PROVE 1 \in NoticeAt(v) /\ ~PromptFirst(v)
    BY <1>1, <1>3, Names DEF NoticeAt, PromptFirst
  <1>4. ASSUME Head(q) \notin {v, CheckInbox}, PromptFirst(v) PROVE PromptFirst(v)'
    <2>1. PICK j \in 1 .. Len(q) : q[j] = CheckInbox /\ \A k \in 1 .. j - 1 : q[k] # v
      BY <1>4 DEF PromptFirst
    <2>2. j - 1 \in 1 .. Len(q1) /\ q1[j - 1] = CheckInbox
      BY <1>1, <1>4, <2>1
    <2>3. \A k \in 1 .. (j - 1) - 1 : q1[k] # v
      BY <1>1, <2>1
    <2> QED BY <2>2, <2>3 DEF PromptFirst
  <1> QED BY <1>1, <1>2, <1>3, <1>4

\* The manager takes a prompt, and from then on looks at every report.
LEMMA CheckJoin ==
  ASSUME TypeOK, AliveInv, JoinInv, Alive, Alive', MgrCheckInbox
  PROVE  JoinInv'
  <1>1. \A w \in Workers : StageKept(w)
    BY ManagerTalksAlone DEF ManagerTalks
  <1>2. /\ mq[Mgr] # <<>> /\ mq'[Mgr] = Tail(mq[Mgr]) /\ pc'[Mgr] = "inbox"
        /\ UNCHANGED <<inbox, joined, joinee>>
    BY Names DEF TypeOK, MgrCheckInbox, Drain, At, mgrVars, taskVars
  <1>3. \A w \in Workers : Reports(w)' = Reports(w) /\ InInbox'
    BY <1>2 DEF Reports, InInbox
  <1>4. PromptedInv'
    BY <1>2 DEF PromptedInv, Calling, Early
  <1>5. ASSUME NEW w \in Workers PROVE NoticeInv(w)' /\ ReportInv(w)'
    <2>1. \A k \in NoticeAt(w)' : k \in Nat /\ k + 1 \in NoticeAt(w)
      BY <1>2, TailNotices
    <2>2. \A j, k \in NoticeAt(w)' : j = k
      <3>1. \A j, k \in NoticeAt(w)' : j \in Nat /\ k \in Nat /\ j + 1 = k + 1
        BY <2>1 DEF JoinInv, NoticeInv
      <3> QED BY <3>1
    <2> QED BY <1>1, <1>2, <1>3, <2>1, <2>2 DEF JoinInv, StageKept, NoticeInv, ReportInv
  <1> QED BY <1>4, <1>5 DEF JoinInv

\* The manager has answered every report.
LEMMA EmptyJoin ==
  ASSUME TypeOK, AliveInv, JoinInv, Alive, Alive', MgrInboxEmpty
  PROVE  JoinInv'
  <1>1. \A w \in Workers : StageKept(w)
    BY ManagerTalksAlone DEF ManagerTalks
  <1>2. /\ mq' = mq /\ pc'[Mgr] = "drain" /\ inbox = <<>>
        /\ UNCHANGED <<inbox, joined, joinee>>
    BY Names DEF TypeOK, MgrInboxEmpty, At, mgrVars, taskVars
  <1>3. \A w \in Workers : Reports(w)' = {} /\ NoticeAt(w)' = NoticeAt(w)
    BY <1>2 DEF Reports, NoticeAt
  <1>4. PromptedInv'
    BY <1>2 DEF PromptedInv, Calling, Early
  <1>5. ASSUME NEW w \in Workers PROVE NoticeInv(w)' /\ ReportInv(w)'
    BY <1>1, <1>2, <1>3 DEF JoinInv, StageKept, NoticeInv, ReportInv
  <1> QED BY <1>4, <1>5 DEF JoinInv

\* The sender of a report is still to be joined.
LEMMA SenderNotJoined ==
  ASSUME TypeOK, JoinInv, Alive, inbox # <<>>
  PROVE  Head(inbox).w \in Workers /\ ~joined[Head(inbox).w]
  <1>1. Head(inbox).w \in Workers /\ 1 \in Reports(Head(inbox).w)
    BY HeadOfInbox DEF Reports
  <1> QED BY <1>1 DEF JoinInv, ReportInv

\* The manager answers a report.
LEMMA AnswerJoin ==
  ASSUME TypeOK, AliveInv, JoinInv, Alive, Alive', MgrPrune \/ MgrNext \/ MgrForward
  PROVE  JoinInv'
  <1>1. \A w \in Workers : StageKept(w)
    BY ManagerTalksAlone DEF ManagerTalks
  <1>2. /\ mq' = mq /\ inbox # <<>> /\ inbox' = Tail(inbox) /\ pc[Mgr] = "inbox"
        /\ UNCHANGED <<joined, joinee>>
    BY DEF MgrPrune, MgrNext, MgrForward, Extracted, mgrVars
  <1>3. \/ pc'[Mgr] = "inbox"
        \/ /\ pc'[Mgr] = "vsig" /\ call'[Mgr].to = Head(inbox).w /\ call'[Mgr].ret = "inbox"
    <2>1. CASE MgrPrune
      BY <1>2, <2>1, RaisePc, Names DEF MgrPrune, TypeOK
    <2>2. CASE MgrNext \/ MgrForward
      <3>1. \E e : Assign(Head(inbox).w, e, "inbox")
        BY <2>2 DEF MgrNext, MgrForward
      <3> QED BY <3>1, Names DEF Assign, At, Aborted, Alive, VSignalTo, TypeOK
    <2> QED BY <2>1, <2>2
  <1>4. PromptedInv'
    BY <1>2, <1>3, SenderNotJoined DEF PromptedInv, Calling, Early
  <1>5. ASSUME NEW w \in Workers PROVE NoticeInv(w)' /\ ReportInv(w)'
    <2>1. Reports(w) = {} => Reports(w)' = {}
      BY <1>2, TailReports
    <2>2. NoticeAt(w)' = NoticeAt(w)
      BY <1>2 DEF NoticeAt
    <2>3. InInbox'
      BY <1>3 DEF InInbox, Calling
    <2> QED BY <1>1, <1>2, <2>1, <2>2, <2>3 DEF JoinInv, StageKept, NoticeInv, ReportInv
  <1> QED BY <1>4, <1>5 DEF JoinInv

\* The manager takes a request to be joined.
LEMMA NoticeJoin ==
  ASSUME TypeOK, AliveInv, JoinInv, Alive, Alive', NEW w \in Workers, MgrJoin(w)
  PROVE  JoinInv'
  <1>1. \A v \in Workers : StageKept(v)
    BY ManagerTalksAlone DEF ManagerTalks
  <1>2. /\ mq[Mgr] # <<>> /\ w = Head(mq[Mgr]) /\ mq'[Mgr] = Tail(mq[Mgr])
        /\ pc[Mgr] = "drain" /\ pc'[Mgr] = "join" /\ joinee' = w
        /\ UNCHANGED <<inbox, joined>>
    BY Names DEF TypeOK, MgrJoin, Drain, At, taskVars
  <1>3. joinee = None /\ ~InInbox
    BY <1>2 DEF AliveInv, InInbox, Calling
  <1>4. \A v \in Workers : Reports(v)' = Reports(v)
    BY <1>2 DEF Reports
  <1>5. PromptedInv'
    BY <1>2 DEF PromptedInv, Calling, Early
  <1>6. 1 \in NoticeAt(w) /\ ~PromptFirst(w)
    BY <1>2, TailNotices
  <1>7. ASSUME NEW v \in Workers PROVE NoticeInv(v)' /\ ReportInv(v)'
    <2>1. \A k \in NoticeAt(v)' : k \in Nat /\ k + 1 \in NoticeAt(v)
      BY <1>2, TailNotices
    <2>2. \A j, k \in NoticeAt(v)' : j = k
      <3>1. \A j, k \in NoticeAt(v)' : j \in Nat /\ k \in Nat /\ j + 1 = k + 1
        BY <2>1 DEF JoinInv, NoticeInv
      <3> QED BY <3>1
    <2>3. CASE v = w
      <3>1. Left(w) /\ ~joined[w] /\ ~Reporting(w)
        BY <1>6 DEF JoinInv, NoticeInv, Left, Reporting
      <3>2. Reports(w) = {}
        BY <1>3, <1>6, <3>1 DEF JoinInv, ReportInv
      <3>3. NoticeAt(w)' = {}
        <4>1. \A k \in NoticeAt(w)' : k \in Nat /\ k + 1 = 1 /\ k \in 1 .. Len(mq'[Mgr])
          BY <1>6, <2>1, <2>3 DEF JoinInv, NoticeInv, NoticeAt
        <4> QED BY <4>1
      <3> QED BY <1>1, <1>2, <1>4, <2>3, <3>1, <3>2, <3>3 DEF StageKept, NoticeInv, ReportInv
    <2>4. CASE v # w
      <3>1. PromptFirst(v) => PromptFirst(v)'
        BY <1>2, <2>4, TailNotices, Names
      <3> QED BY <1>1, <1>2, <1>3, <1>4, <2>1, <2>2, <2>4, <3>1
              DEF JoinInv, StageKept, NoticeInv, ReportInv
    <2> QED BY <2>3, <2>4
  <1> QED BY <1>5, <1>7 DEF JoinInv

\* A worker is joined.
LEMMA JoinedJoin ==
  ASSUME TypeOK, AliveInv, JoinInv, Alive, Alive', MgrJoined
  PROVE  JoinInv'
  <1>1. \A v \in Workers : StageKept(v)
    BY ManagerTalksAlone DEF ManagerTalks
  <1>2. joinee \in Workers
    BY DEF TypeOK, AliveInv, MgrJoined
  <1>3. /\ UNCHANGED <<mq, inbox>> /\ pc[joinee] = "done" /\ joinee' = None
        /\ joined'[joinee] /\ \A v \in Workers : v # joinee => joined'[v] = joined[v]
        /\ pc[Mgr] = "join" /\ pc'[Mgr] \in {"returned", "drain"}
    BY <1>2, Names DEF TypeOK, MgrJoined, At, taskVars
  <1>4. \A v \in Workers : /\ Reports(v)' = Reports(v) /\ NoticeAt(v)' = NoticeAt(v)
                           /\ PromptFirst(v)' = PromptFirst(v)
    BY <1>3 DEF Reports, NoticeAt, PromptFirst
  <1>5. PromptedInv' /\ ~InInbox
    BY <1>3 DEF PromptedInv, Calling, Early, InInbox
  <1>6. ASSUME NEW v \in Workers PROVE NoticeInv(v)' /\ ReportInv(v)'
    <2>1. CASE v = joinee
      BY <1>1, <1>3, <1>4, <1>5, <2>1, Names
         DEF JoinInv, StageKept, NoticeInv, ReportInv, Left
    <2>2. CASE v # joinee
      BY <1>1, <1>3, <1>4, <1>5, <2>2, Names DEF JoinInv, StageKept, NoticeInv, ReportInv
    <2> QED BY <2>1, <2>2
  <1> QED BY <1>5, <1>6 DEF JoinInv

\* A step keeps all this.
LEMMA JoinStep ==
  ASSUME TypeOK, CallInv, SpawnInv, AliveInv, JoinInv, [Next]_vars
  PROVE  JoinInv'
  <1>1. CASE ~Alive'
    BY <1>1 DEF JoinInv
  <1>2. CASE Alive' /\ ~Alive
    BY <1>2, DeadStep DEF Alive, vars, esVars
  <1>3. CASE Alive /\ Alive'
    <2>1. CASE Calm
      BY <1>3, <2>1, CalmJoin
    <2>2. ASSUME NEW w \in Workers, WorkerTalks(w) PROVE JoinInv'
      BY <1>3, <2>2, ReportJoin, LeaveJoin, SubmitJoin DEF WorkerTalks
    <2>3. ASSUME NEW w \in Workers, MgrJoin(w) PROVE JoinInv'
      BY <1>3, <2>3, NoticeJoin
    <2>4. CASE Dispatch \/ MgrCheckInbox \/ MgrInboxEmpty \/ MgrPrune \/ MgrNext \/ MgrForward
               \/ MgrJoined
      BY <1>3, <2>4, DispatchJoin, CheckJoin, EmptyJoin, AnswerJoin, JoinedJoin
    <2> QED BY <1>3, <2>1, <2>2, <2>3, <2>4, TalkStep DEF Talk
  <1> QED BY <1>1, <1>2, <1>3

---------------------------------------------------------------------------
(* Signals and joining.                                                    *)

\* A step of the living process aims no signal at a joined worker: the manager stops
\* and prompts only workers it has not joined, and workers signal only the manager.
LEMMA SignalStep ==
  ASSUME TypeOK, CallInv, AliveInv, JoinInv, NoSignalAfterJoin, Alive, [Next]_vars
  PROVE  NoSignalAfterJoin'
  <1>1. CASE Spawn
    BY <1>1, Names
       DEF TypeOK, NoSignalAfterJoin, mgrVars, Spawn
  <1>2. CASE SpawnDone
    BY <1>2, Names
       DEF TypeOK, NoSignalAfterJoin, mgrVars, SpawnDone
  <1>3. CASE Dispatch
    BY <1>3, Names
       DEF TypeOK, NoSignalAfterJoin, mgrVars, Dispatch, Assign, Aborted, VSignalTo
  <1>4. CASE DispatchDone
    BY <1>4, Names
       DEF TypeOK, NoSignalAfterJoin, mgrVars, DispatchDone
  <1>5. CASE MgrCheckInbox
    BY <1>5, Names
       DEF TypeOK, NoSignalAfterJoin, mgrVars, MgrCheckInbox, Drain
  <1>6. CASE MgrInboxEmpty
    BY <1>6, Names
       DEF TypeOK, NoSignalAfterJoin, mgrVars, MgrInboxEmpty
  <1>7. CASE MgrPrune
    <2>1. Head(inbox).w \in Workers /\ ~joined[Head(inbox).w] /\ joined' = joined
      BY <1>7, SenderNotJoined DEF MgrPrune, Extracted, mgrVars
    <2>2. \A v \in Workers : v # Head(inbox).w => sigs'[v] = sigs[v]
      BY <1>7 DEF MgrPrune, Raise, TypeOK
    <2> QED BY <2>1, <2>2 DEF NoSignalAfterJoin
  <1>8. CASE MgrNext
    BY <1>8, Names
       DEF TypeOK, NoSignalAfterJoin, mgrVars, MgrNext, Extracted, Assign, Aborted, VSignalTo
  <1>9. CASE MgrForward
    BY <1>9, Names
       DEF TypeOK, NoSignalAfterJoin, mgrVars, MgrForward, Extracted, Assign, Aborted,
           VSignalTo
  <1>10. ASSUME NEW w \in Workers, MgrJoin(w) PROVE NoSignalAfterJoin'
    BY <1>10, Names
       DEF TypeOK, NoSignalAfterJoin, mgrVars, MgrJoin, Drain
  <1>11. CASE MgrJoined
    BY <1>11, Names
       DEF TypeOK, NoSignalAfterJoin, mgrVars, MgrJoined
  <1>12. CASE PollTimesOut
    BY <1>12, Names
       DEF TypeOK, NoSignalAfterJoin, mgrVars, PollTimesOut
  <1>13. CASE NoTimerDue
    BY <1>13, Names
       DEF TypeOK, NoSignalAfterJoin, mgrVars, NoTimerDue
  <1>14. CASE TimeoutF
    BY <1>14, Names
       DEF TypeOK, NoSignalAfterJoin, mgrVars, TimeoutF
  <1>15. CASE StopWorker
    <2>1. joined' = joined
      BY <1>15 DEF StopWorker
    <2>2. \A v \in Workers : v # stopNdx \/ joined[v] => sigs'[v] = sigs[v]
      BY <1>15, Names DEF StopWorker, MustStop, Raise, TypeOK
    <2> QED BY <2>1, <2>2 DEF NoSignalAfterJoin
  <1>16. CASE StopDone
    BY <1>16, Names
       DEF TypeOK, NoSignalAfterJoin, mgrVars, StopDone, ShutdownAfterTimeout
  <1>17. CASE ShutdownF
    BY <1>17, Names
       DEF TypeOK, NoSignalAfterJoin, mgrVars, ShutdownF
  <1>18. CASE PassUsr2(Mgr, "timers") /\ Keep
    BY <1>18, Names
       DEF TypeOK, NoSignalAfterJoin, mgrVars, Keep, PassUsr2
  <1>19. ASSUME NEW w \in Workers, WorkerStart(w) PROVE NoSignalAfterJoin'
    BY <1>19, Names
       DEF TypeOK, NoSignalAfterJoin, mgrVars, WorkerStart, Register
  <1>20. ASSUME NEW w \in Workers, WorkerTerm(w) PROVE NoSignalAfterJoin'
    BY <1>20, Names
       DEF TypeOK, NoSignalAfterJoin, mgrVars, WorkerTerm
  <1>21. ASSUME NEW w \in Workers, WorkerCheckInbox(w) PROVE NoSignalAfterJoin'
    BY <1>21, Names
       DEF TypeOK, NoSignalAfterJoin, mgrVars, WorkerCheckInbox, Drain
  <1>22. ASSUME NEW w \in Workers, WorkerTake(w) PROVE NoSignalAfterJoin'
    BY <1>22, Names
       DEF TypeOK, NoSignalAfterJoin, mgrVars, WorkerTake
  <1>23. ASSUME NEW w \in Workers, WorkerInboxEmpty(w) PROVE NoSignalAfterJoin'
    BY <1>23, Names
       DEF TypeOK, NoSignalAfterJoin, mgrVars, WorkerInboxEmpty
  <1>39. ASSUME NEW w \in Workers, WorkerTest(w) PROVE NoSignalAfterJoin'
    BY <1>39, Names
       DEF TypeOK, NoSignalAfterJoin, mgrVars, WorkerTest, MayGoOn
  <1>40. ASSUME NEW w \in Workers, WorkerFollowUp(w) PROVE NoSignalAfterJoin'
    BY <1>40, Names
       DEF TypeOK, NoSignalAfterJoin, mgrVars, WorkerFollowUp
  <1>24. ASSUME NEW w \in Workers, WorkerReport(w) PROVE NoSignalAfterJoin'
    BY <1>24, Names
       DEF TypeOK, NoSignalAfterJoin, mgrVars, WorkerReport, Aborted, VSignalTo
  <1>25. ASSUME NEW w \in Workers, WorkerLeave(w) PROVE NoSignalAfterJoin'
    BY <1>25, Names
       DEF TypeOK, NoSignalAfterJoin, mgrVars, WorkerLeave
  <1>26. ASSUME NEW w \in Workers, WorkerExit(w) PROVE NoSignalAfterJoin'
    BY <1>26, Names
       DEF TypeOK, NoSignalAfterJoin, mgrVars, WorkerExit, VSignalTo
  <1>27. ASSUME NEW w \in Workers, PassUsr2(w, "term"), Keep PROVE NoSignalAfterJoin'
    BY <1>27, Names
       DEF TypeOK, NoSignalAfterJoin, mgrVars, Keep, PassUsr2
  <1>28. ASSUME NEW w \in Workers, Reverse(w) PROVE NoSignalAfterJoin'
    BY <1>28, Names
       DEF TypeOK, NoSignalAfterJoin, mgrVars, Reverse, Looked
  <1>29. ASSUME NEW w \in Workers, Forward(w) PROVE NoSignalAfterJoin'
    BY <1>29, Names
       DEF TypeOK, NoSignalAfterJoin, mgrVars, Forward, Looked
  <1>30. ASSUME NEW w \in Workers, LookupFails(w) PROVE NoSignalAfterJoin'
    BY <1>30, Names
       DEF TypeOK, NoSignalAfterJoin, mgrVars, LookupFails, Aborted
  <1>31. ASSUME NEW t \in Threads, EnterPoll(t), Keep PROVE NoSignalAfterJoin'
    BY <1>31, Names
       DEF TypeOK, NoSignalAfterJoin, mgrVars, Keep, EnterPoll
  <1>32. ASSUME NEW t \in Threads, ServeUsr2(t), Keep PROVE NoSignalAfterJoin'
    BY <1>32, Names
       DEF TypeOK, NoSignalAfterJoin, mgrVars, Keep, ServeUsr2
  <1>33. ASSUME NEW t \in Threads, DrainEmpty(t), Keep PROVE NoSignalAfterJoin'
    BY <1>33, Names
       DEF TypeOK, NoSignalAfterJoin, mgrVars, Keep, DrainEmpty
  <1>34. ASSUME NEW t \in Threads, VSignalNotFound(t), Keep PROVE NoSignalAfterJoin'
    BY <1>34, Names
       DEF TypeOK, NoSignalAfterJoin, mgrVars, Keep, VSignalNotFound, NoCall
  <1>35. ASSUME NEW t \in Threads, VSignalSubmit(t), Keep PROVE NoSignalAfterJoin'
    BY <1>35, Names
       DEF TypeOK, NoSignalAfterJoin, mgrVars, Keep, VSignalSubmit, Aborted
  <1>36. ASSUME NEW t \in Threads, VSignalKill(t), Keep PROVE NoSignalAfterJoin'
    <2>1. joined' = joined /\ \A v \in Workers : v # call[t].to => sigs'[v] = sigs[v]
      BY <1>36 DEF VSignalKill, Raise, Keep, mgrVars, TypeOK
    <2>2. call[t].to = Mgr \/ ~joined[call[t].to]
      BY <1>36, Names DEF VSignalKill, CallInv, VSignalTo, Alive, JoinInv, PromptedInv, Calling
    <2> QED BY <2>1, <2>2, Names DEF NoSignalAfterJoin
  <1>37. ASSUME NEW t \in Threads, Cleanup(t), Keep PROVE NoSignalAfterJoin'
    BY <1>37, Names
       DEF TypeOK, NoSignalAfterJoin, mgrVars, Keep, Cleanup
  <1>38. CASE UNCHANGED vars
    BY <1>38, Names
       DEF TypeOK, NoSignalAfterJoin, mgrVars, vars, esVars
  <1> QED
    BY <1>1, <1>2, <1>3, <1>4, <1>5, <1>6, <1>7, <1>8, <1>9, <1>10, <1>11, <1>12, <1>13, <1>14,
       <1>15, <1>16, <1>17, <1>18, <1>19, <1>20, <1>21, <1>22, <1>23, <1>24, <1>25, <1>26,
       <1>27, <1>28, <1>29, <1>30, <1>31, <1>32, <1>33, <1>34, <1>35, <1>36, <1>37, <1>38,
       <1>39, <1>40
       DEF Next, MgrStep, WorkerStep, Resolve, Engine

TalkInv == AliveInv /\ JoinInv /\ NoSignalAfterJoin

LEMMA InitTalk == Init => TalkInv
  <1> SUFFICES ASSUME Init PROVE TalkInv
    OBVIOUS
  <1>1. AliveInv /\ NoSignalAfterJoin
    BY Names DEF Init, AliveInv, Alive, MgrPcs, NoSignalAfterJoin
  <1>2. \A w \in Workers : NoticeAt(w) = {} /\ Reports(w) = {} /\ ~joined[w] /\ joinee # w
    BY Names DEF Init, NoticeAt, Reports
  <1>3. PromptedInv
    BY <1>2, Names DEF Init, PromptedInv, Calling
  <1> QED BY <1>1, <1>2, <1>3 DEF TalkInv, JoinInv, NoticeInv, ReportInv

LEMMA StepTalk ==
  ASSUME Inv, TalkInv, [Next]_vars
  PROVE  TalkInv'
  <1>1. AliveInv' /\ JoinInv'
    BY AliveStep, JoinStep DEF Inv, TalkInv
  <1>2. NoSignalAfterJoin'
    <2>1. CASE ~Alive
      BY <2>1, DeadStep DEF Inv, TalkInv, vars, esVars, mgrVars, NoSignalAfterJoin
    <2>2. CASE Alive
      BY <2>2, SignalStep DEF Inv, TalkInv
    <2> QED BY <2>1, <2>2
  <1> QED BY <1>1, <1>2 DEF TalkInv

LEMMA TalkInvariance == Spec => []TalkInv
  <1>1. Inv /\ TalkInv /\ [Next]_vars => TalkInv'
    BY StepTalk
  <1> QED BY InitTalk, Invariance, <1>1, PTL DEF Spec

\* pthread_kill() is never aimed at a worker the manager has joined, whatever
\* reports, prompts and requests to be joined are under way.
THEOREM JoinedNotSignalled == Spec => []NoSignalAfterJoin
  <1>1. TalkInv => NoSignalAfterJoin
    BY DEF TalkInv
  <1> QED BY <1>1, TalkInvariance, PTL

---------------------------------------------------------------------------
(* What becomes of the entries.                                            *)

\* The workers are stopped, orphaned and left behind only after the time limit.
ExitInv ==
  /\ shutdown = "armed" \/ pc[Mgr] = "stop" \/ "ORPHAN" \in flags => "EXIT" \in flags
  /\ pc[Mgr] = "returned" /\ "EXIT" \notin flags => AllJoined(joined)

\* A step keeps this.
LEMMA ExitStep ==
  ASSUME TypeOK, CallInv, ExitInv, [Next]_vars
  PROVE  ExitInv'
  <1>1. CASE Spawn
    BY <1>1, Names
       DEF TypeOK, At, mgrVars, timeVars, CallInv, VSignalTo, ExitInv, AllJoined, Pcs, Spawn
  <1>2. CASE SpawnDone
    BY <1>2, Names
       DEF TypeOK, At, mgrVars, timeVars, CallInv, VSignalTo, ExitInv, AllJoined, Pcs,
           SpawnDone
  <1>3. CASE Dispatch
    BY <1>3, Names
       DEF TypeOK, At, mgrVars, timeVars, CallInv, VSignalTo, ExitInv, AllJoined, Pcs,
           Dispatch,
           Assign, Aborted, VSignalTo
  <1>4. CASE DispatchDone
    BY <1>4, Names
       DEF TypeOK, At, mgrVars, timeVars, CallInv, VSignalTo, ExitInv, AllJoined, Pcs,
           DispatchDone
  <1>5. CASE MgrCheckInbox
    BY <1>5, Names
       DEF TypeOK, At, mgrVars, timeVars, CallInv, VSignalTo, ExitInv, AllJoined, Pcs,
           MgrCheckInbox, Drain
  <1>6. CASE MgrInboxEmpty
    BY <1>6, Names
       DEF TypeOK, At, mgrVars, timeVars, CallInv, VSignalTo, ExitInv, AllJoined, Pcs,
           MgrInboxEmpty
  <1>7. CASE MgrPrune
    BY <1>7, Names
       DEF TypeOK, At, mgrVars, timeVars, CallInv, VSignalTo, ExitInv, AllJoined, Pcs,
           MgrPrune,
           Extracted, Raise, Woken
  <1>8. CASE MgrNext
    BY <1>8, Names
       DEF TypeOK, At, mgrVars, timeVars, CallInv, VSignalTo, ExitInv, AllJoined, Pcs, MgrNext,
           Extracted, Assign, Aborted, VSignalTo
  <1>9. CASE MgrForward
    BY <1>9, Names
       DEF TypeOK, At, mgrVars, timeVars, CallInv, VSignalTo, ExitInv, AllJoined, Pcs,
           MgrForward, Extracted, Assign, Aborted, VSignalTo
  <1>10. ASSUME NEW w \in Workers, MgrJoin(w) PROVE ExitInv'
    BY <1>10, Names
       DEF TypeOK, At, mgrVars, timeVars, CallInv, VSignalTo, ExitInv, AllJoined, Pcs, MgrJoin,
           Drain
  <1>11. CASE MgrJoined
    <2>1. /\ pc'[Mgr] \in {"returned", "drain"} /\ UNCHANGED <<shutdown, flags>>
          /\ pc'[Mgr] = "returned" => AllJoined(joined')
      BY <1>11, Names DEF TypeOK, MgrJoined, At, timeVars
    <2> QED BY <2>1 DEF ExitInv
  <1>12. CASE PollTimesOut
    BY <1>12, Names
       DEF TypeOK, At, mgrVars, timeVars, CallInv, VSignalTo, ExitInv, AllJoined, Pcs,
           PollTimesOut
  <1>13. CASE NoTimerDue
    BY <1>13, Names
       DEF TypeOK, At, mgrVars, timeVars, CallInv, VSignalTo, ExitInv, AllJoined, Pcs,
           NoTimerDue
  <1>14. CASE TimeoutF
    BY <1>14, Names
       DEF TypeOK, At, mgrVars, timeVars, CallInv, VSignalTo, ExitInv, AllJoined, Pcs, TimeoutF
  <1>15. CASE StopWorker
    BY <1>15, Names
       DEF TypeOK, At, mgrVars, timeVars, CallInv, VSignalTo, ExitInv, AllJoined, Pcs,
           StopWorker, Raise, Woken
  <1>16. CASE StopDone
    BY <1>16, Names
       DEF TypeOK, At, mgrVars, timeVars, CallInv, VSignalTo, ExitInv, AllJoined, Pcs,
           StopDone,
           ShutdownAfterTimeout
  <1>17. CASE ShutdownF
    BY <1>17, Names
       DEF TypeOK, At, mgrVars, timeVars, CallInv, VSignalTo, ExitInv, AllJoined, Pcs,
           ShutdownF
  <1>18. CASE PassUsr2(Mgr, "timers") /\ Keep
    BY <1>18, Names
       DEF TypeOK, At, mgrVars, timeVars, CallInv, VSignalTo, ExitInv, AllJoined, Pcs, Keep,
           PassUsr2
  <1>19. ASSUME NEW w \in Workers, WorkerStart(w) PROVE ExitInv'
    <2>1. pc'[Mgr] = "spawn" /\ UNCHANGED <<shutdown, flags, joined>>
      BY <1>19, Names DEF TypeOK, WorkerStart, timeVars
    <2> QED BY <2>1 DEF ExitInv
  <1>20. ASSUME NEW w \in Workers, WorkerTerm(w) PROVE ExitInv'
    <2>1. pc'[Mgr] = pc[Mgr] /\ joined' = joined
      BY <1>20, EndingPc DEF mgrVars
    <2>2. UNCHANGED <<shutdown, flags>>
      BY <1>20 DEF WorkerTerm, timeVars
    <2> QED BY <2>1, <2>2 DEF ExitInv
  <1>21. ASSUME NEW w \in Workers, WorkerCheckInbox(w) PROVE ExitInv'
    BY <1>21, Names
       DEF TypeOK, At, mgrVars, timeVars, CallInv, VSignalTo, ExitInv, AllJoined, Pcs,
           WorkerCheckInbox, Drain
  <1>22. ASSUME NEW w \in Workers, WorkerTake(w) PROVE ExitInv'
    BY <1>22, Names
       DEF TypeOK, At, mgrVars, timeVars, CallInv, VSignalTo, ExitInv, AllJoined, Pcs,
           WorkerTake
  <1>23. ASSUME NEW w \in Workers, WorkerInboxEmpty(w) PROVE ExitInv'
    BY <1>23, Names
       DEF TypeOK, At, mgrVars, timeVars, CallInv, VSignalTo, ExitInv, AllJoined, Pcs,
           WorkerInboxEmpty
  <1>39. ASSUME NEW w \in Workers, WorkerTest(w) PROVE ExitInv'
    BY <1>39, Names
       DEF TypeOK, At, mgrVars, timeVars, CallInv, VSignalTo, ExitInv, AllJoined, Pcs,
           WorkerTest, MayGoOn
  <1>40. ASSUME NEW w \in Workers, WorkerFollowUp(w) PROVE ExitInv'
    BY <1>40, Names
       DEF TypeOK, At, mgrVars, timeVars, CallInv, VSignalTo, ExitInv, AllJoined, Pcs,
           WorkerFollowUp
  <1>24. ASSUME NEW w \in Workers, WorkerReport(w) PROVE ExitInv'
    BY <1>24, Names
       DEF TypeOK, At, mgrVars, timeVars, CallInv, VSignalTo, ExitInv, AllJoined, Pcs,
           WorkerReport, Aborted, VSignalTo
  <1>25. ASSUME NEW w \in Workers, WorkerLeave(w) PROVE ExitInv'
    BY <1>25, Names
       DEF TypeOK, At, mgrVars, timeVars, CallInv, VSignalTo, ExitInv, AllJoined, Pcs,
           WorkerLeave
  <1>26. ASSUME NEW w \in Workers, WorkerExit(w) PROVE ExitInv'
    <2>1. pc'[Mgr] = pc[Mgr] /\ joined' = joined
      BY <1>26, EndingPc DEF mgrVars
    <2>2. UNCHANGED <<shutdown, flags>>
      BY <1>26 DEF WorkerExit, timeVars
    <2> QED BY <2>1, <2>2 DEF ExitInv
  <1>27. ASSUME NEW w \in Workers, PassUsr2(w, "term"), Keep PROVE ExitInv'
    BY <1>27, Names
       DEF TypeOK, At, mgrVars, timeVars, CallInv, VSignalTo, ExitInv, AllJoined, Pcs, Keep,
           PassUsr2
  <1>28. ASSUME NEW w \in Workers, Reverse(w) PROVE ExitInv'
    BY <1>28, Names
       DEF TypeOK, At, mgrVars, timeVars, CallInv, VSignalTo, ExitInv, AllJoined, Pcs, Reverse,
           Looked
  <1>29. ASSUME NEW w \in Workers, Forward(w) PROVE ExitInv'
    <2>1. pc'[Mgr] = pc[Mgr] /\ joined' = joined
      BY <1>29, LookedPc DEF mgrVars
    <2>2. UNCHANGED <<shutdown, flags>>
      BY <1>29 DEF Forward, Looked, timeVars
    <2> QED BY <2>1, <2>2 DEF ExitInv
  <1>30. ASSUME NEW w \in Workers, LookupFails(w) PROVE ExitInv'
    BY <1>30, Names
       DEF TypeOK, At, mgrVars, timeVars, CallInv, VSignalTo, ExitInv, AllJoined, Pcs,
           LookupFails, Aborted
  <1>31. ASSUME NEW t \in Threads, EnterPoll(t), Keep PROVE ExitInv'
    BY <1>31, Names
       DEF TypeOK, At, mgrVars, timeVars, CallInv, VSignalTo, ExitInv, AllJoined, Pcs, Keep,
           EnterPoll
  <1>32. ASSUME NEW t \in Threads, ServeUsr2(t), Keep PROVE ExitInv'
    BY <1>32, Names
       DEF TypeOK, At, mgrVars, timeVars, CallInv, VSignalTo, ExitInv, AllJoined, Pcs, Keep,
           ServeUsr2
  <1>33. ASSUME NEW t \in Threads, DrainEmpty(t), Keep PROVE ExitInv'
    BY <1>33, Names
       DEF TypeOK, At, mgrVars, timeVars, CallInv, VSignalTo, ExitInv, AllJoined, Pcs, Keep,
           DrainEmpty
  <1>34. ASSUME NEW t \in Threads, VSignalNotFound(t), Keep PROVE ExitInv'
    BY <1>34, Names
       DEF TypeOK, At, mgrVars, timeVars, CallInv, VSignalTo, ExitInv, AllJoined, Pcs, Keep,
           VSignalNotFound, NoCall
  <1>35. ASSUME NEW t \in Threads, VSignalSubmit(t), Keep PROVE ExitInv'
    BY <1>35, Names
       DEF TypeOK, At, mgrVars, timeVars, CallInv, VSignalTo, ExitInv, AllJoined, Pcs, Keep,
           VSignalSubmit, Aborted
  <1>36. ASSUME NEW t \in Threads, VSignalKill(t), Keep PROVE ExitInv'
    BY <1>36, Names
       DEF TypeOK, At, mgrVars, timeVars, CallInv, VSignalTo, ExitInv, AllJoined, Pcs, Keep,
           VSignalKill, Raise, Woken, NoCall
  <1>37. ASSUME NEW t \in Threads, Cleanup(t), Keep PROVE ExitInv'
    BY <1>37, Names
       DEF TypeOK, At, mgrVars, timeVars, CallInv, VSignalTo, ExitInv, AllJoined, Pcs, Keep,
           Cleanup
  <1>38. CASE UNCHANGED vars
    BY <1>38, Names
       DEF TypeOK, At, mgrVars, timeVars, CallInv, VSignalTo, ExitInv, AllJoined, Pcs, vars,
           esVars
  <1> QED
    BY <1>1, <1>2, <1>3, <1>4, <1>5, <1>6, <1>7, <1>8, <1>9, <1>10, <1>11, <1>12, <1>13, <1>14,
       <1>15, <1>16, <1>17, <1>18, <1>19, <1>20, <1>21, <1>22, <1>23, <1>24, <1>25, <1>26,
       <1>27, <1>28, <1>29, <1>30, <1>31, <1>32, <1>33, <1>34, <1>35, <1>36, <1>37, <1>38,
       <1>39, <1>40
       DEF Next, MgrStep, WorkerStep, Resolve, Engine

\* A worker is stopped, or stops.
Noticing(w) == pc[w] \in {"vsig", "kill"} /\ call[w].ret = "cleanup"
Retired(w) == "TERM" \in sigs[w] \/ pc[w] \in {"exiting", "cleanup", "done"} \/ Noticing(w)

\* The steps that move an entry, or look it up, or set the time limit.
Handling(w) ==
  \/ WorkerTest(w) \/ WorkerTake(w) \/ Reverse(w) \/ Forward(w)
  \/ WorkerReport(w) \/ WorkerLeave(w)
Handles ==
  \/ Dispatch \/ MgrPrune \/ MgrNext \/ MgrForward \/ TimeoutF
  \/ \E w \in Workers : Handling(w)

\* The process ends: the resolver gives an unexpected answer or a queue is full.
Dying ==
  /\ ~Alive' /\ UNCHANGED <<dns, flags>>
  /\ \A w \in Workers : pc'[w] = "aborted"
  /\ \/ mq' = mq \/ Dispatch \/ MgrNext \/ MgrForward
     \/ \E w \in Workers : WorkerReport(w)
     \/ \E t \in Threads : VSignalSubmit(t)

\* What a worker has been admitted to and not begun.
Admitted(w) == IF pc[w] = "extract" /\ winbox[w] # <<>> THEN Head(winbox[w]) ELSE None

\* What all other steps have in common.
Idle ==
  /\ UNCHANGED <<winbox, inbox, processed, dns>> /\ Alive' = Alive
  /\ ("EXIT" \in flags') = ("EXIT" \in flags)
  /\ \A w \in Workers : /\ InHand(w)' = InHand(w) /\ Admitted(w)' = Admitted(w)
                        /\ pc'[w] = "lookup" <=> pc[w] = "lookup"
                        /\ pc[w] = "lookup" => task'[w] = task[w]
  /\ "EXIT" \notin flags => \A w \in Workers : Retired(w)' => Retired(w)

\* A step is one of those, or idle, or ends the process.
LEMMA IdleStep ==
  ASSUME TypeOK, CallInv, SpawnInv, HoldInv, AliveInv, ExitInv, [Next]_vars
  PROVE  Idle \/ Handles \/ Dying
  <1>1. CASE Spawn
    <2>1. /\ \A w \in Workers : pc'[w] = pc[w] \/ (pc[w] = "unborn" /\ pc'[w] = "starting")
          /\ pc[Mgr] = "spawn" /\ pc'[Mgr] = "await"
      <3>1. spawned \in Workers /\ pc[spawned] = "unborn" /\ pc[Mgr] = "spawn"
        BY <1>1, Names DEF TypeOK, Spawn, SpawnInv, Workers
      <3> QED BY <1>1, <3>1, Names DEF TypeOK, Spawn
    <2>2. UNCHANGED <<winbox, inbox, processed, dns, flags, sigs, call, task>>
      BY <1>1 DEF Spawn, mgrVars, timeVars, taskVars
    <2> QED BY <2>1, <2>2 DEF Idle, Admitted, Alive, InHand, Serving, Retired, Noticing
  <1>2. CASE SpawnDone
    BY <1>2, Names
       DEF TypeOK, At, CallInv, HoldInv, ExitInv, VSignalTo, Idle, Admitted, Alive, InHand,
           Serving, Retired,
           Noticing, Pcs, mgrVars, timeVars, taskVars, SpawnDone
  <1>3. CASE Dispatch
    BY <1>3 DEF Handles
  <1>4. CASE DispatchDone
    BY <1>4, Names
       DEF TypeOK, At, CallInv, HoldInv, ExitInv, VSignalTo, Idle, Admitted, Alive, InHand,
           Serving, Retired,
           Noticing, Pcs, mgrVars, timeVars, taskVars, DispatchDone
  <1>5. CASE MgrCheckInbox
    BY <1>5, Names
       DEF TypeOK, At, CallInv, HoldInv, ExitInv, VSignalTo, Idle, Admitted, Alive, InHand,
           Serving, Retired,
           Noticing, Pcs, mgrVars, timeVars, taskVars, MgrCheckInbox, Drain
  <1>6. CASE MgrInboxEmpty
    BY <1>6, Names
       DEF TypeOK, At, CallInv, HoldInv, ExitInv, VSignalTo, Idle, Admitted, Alive, InHand,
           Serving, Retired,
           Noticing, Pcs, mgrVars, timeVars, taskVars, MgrInboxEmpty
  <1>7. CASE MgrPrune
    BY <1>7 DEF Handles
  <1>8. CASE MgrNext
    BY <1>8 DEF Handles
  <1>9. CASE MgrForward
    BY <1>9 DEF Handles
  <1>10. ASSUME NEW w \in Workers, MgrJoin(w) PROVE Idle \/ Handles \/ Dying
    BY <1>10, Names
       DEF TypeOK, At, CallInv, HoldInv, ExitInv, VSignalTo, Idle, Admitted, Alive, InHand,
           Serving, Retired,
           Noticing, Pcs, mgrVars, timeVars, taskVars, MgrJoin, Drain
  <1>11. CASE MgrJoined
    BY <1>11, Names
       DEF TypeOK, At, CallInv, HoldInv, ExitInv, VSignalTo, Idle, Admitted, Alive, InHand,
           Serving, Retired,
           Noticing, Pcs, mgrVars, timeVars, taskVars, MgrJoined
  <1>12. CASE PollTimesOut
    BY <1>12, Names
       DEF TypeOK, At, CallInv, HoldInv, ExitInv, VSignalTo, Idle, Admitted, Alive, InHand,
           Serving, Retired,
           Noticing, Pcs, mgrVars, timeVars, taskVars, PollTimesOut
  <1>13. CASE NoTimerDue
    BY <1>13, Names
       DEF TypeOK, At, CallInv, HoldInv, ExitInv, VSignalTo, Idle, Admitted, Alive, InHand,
           Serving, Retired,
           Noticing, Pcs, mgrVars, timeVars, taskVars, NoTimerDue
  <1>14. CASE TimeoutF
    BY <1>14 DEF Handles
  <1>15. CASE StopWorker
    <2>1. \A t \in Threads : pc'[t] = pc[t] \/ (pc[t] = "poll" /\ pc'[t] = "usr2")
      BY <1>15, StopPc
    <2>2. UNCHANGED <<winbox, inbox, processed, dns, flags, task, call>>
      BY <1>15 DEF StopWorker, timeVars, taskVars
    <2>3. "EXIT" \in flags /\ pc[Mgr] = "stop"
      BY <1>15 DEF StopWorker, ExitInv
    <2> QED BY <2>1, <2>2, <2>3, Names DEF Idle, Admitted, Alive, InHand, Serving
  <1>16. CASE StopDone
    BY <1>16, Names
       DEF TypeOK, At, CallInv, HoldInv, ExitInv, VSignalTo, Idle, Admitted, Alive, InHand,
           Serving, Retired,
           Noticing, Pcs, mgrVars, timeVars, taskVars, StopDone, ShutdownAfterTimeout
  <1>17. CASE ShutdownF
    BY <1>17, Names
       DEF TypeOK, At, CallInv, HoldInv, ExitInv, VSignalTo, Idle, Admitted, Alive, InHand,
           Serving, Retired,
           Noticing, Pcs, mgrVars, timeVars, taskVars, ShutdownF
  <1>18. CASE PassUsr2(Mgr, "timers") /\ Keep
    BY <1>18, Names
       DEF TypeOK, At, CallInv, HoldInv, ExitInv, VSignalTo, Idle, Admitted, Alive, InHand,
           Serving, Retired,
           Noticing, Pcs, mgrVars, timeVars, taskVars, Keep, PassUsr2
  <1>19. ASSUME NEW w \in Workers, WorkerStart(w) PROVE Idle \/ Handles \/ Dying
    <2>1. /\ \A v \in Workers : pc'[v] = pc[v] \/ (pc[v] = "starting" /\ pc'[v] = "run")
          /\ pc[Mgr] = "await" /\ pc'[Mgr] = "spawn"
      BY <1>19, Names DEF TypeOK, WorkerStart, SpawnInv
    <2>2. UNCHANGED <<winbox, inbox, processed, dns, flags, sigs, call, task>>
      BY <1>19 DEF WorkerStart, timeVars, taskVars
    <2> QED BY <2>1, <2>2 DEF Idle, Admitted, Alive, InHand, Serving, Retired, Noticing
  <1>20. ASSUME NEW w \in Workers, WorkerTerm(w) PROVE Idle \/ Handles \/ Dying
    <2>1. /\ \A v \in Workers : v # w => /\ pc'[v] = pc[v] /\ call'[v] = call[v]
                                     /\ sigs'[v] = sigs[v]
          /\ pc'[Mgr] = pc[Mgr] /\ pc[w] = "term" /\ pc'[w] \in {"exiting", "run"}
      BY <1>20, Names DEF TypeOK, WorkerTerm, At
    <2>2. Retired(w)' => Retired(w)
      BY <1>20, <2>1 DEF TypeOK, WorkerTerm, At, Retired, Noticing
    <2>3. UNCHANGED <<winbox, inbox, processed, dns, flags, task>>
      BY <1>20 DEF WorkerTerm, mgrVars, timeVars, taskVars
    <2> QED BY <2>1, <2>2, <2>3 DEF Idle, Admitted, HoldInv, Alive, InHand, Serving, Retired,
    Noticing
  <1>21. ASSUME NEW w \in Workers, WorkerCheckInbox(w) PROVE Idle \/ Handles \/ Dying
    BY <1>21, Names
       DEF TypeOK, At, CallInv, HoldInv, ExitInv, VSignalTo, Idle, Admitted, Alive, InHand,
           Serving, Retired,
           Noticing, Pcs, mgrVars, timeVars, taskVars, WorkerCheckInbox, Drain
  <1>22. ASSUME NEW w \in Workers, WorkerTake(w) PROVE Idle \/ Handles \/ Dying
    BY <1>22 DEF Handles, Handling
  <1>23. ASSUME NEW w \in Workers, WorkerInboxEmpty(w) PROVE Idle \/ Handles \/ Dying
    BY <1>23, Names
       DEF TypeOK, At, CallInv, HoldInv, ExitInv, VSignalTo, Idle, Admitted, Alive, InHand,
           Serving, Retired,
           Noticing, Pcs, mgrVars, timeVars, taskVars, WorkerInboxEmpty
  <1>39. ASSUME NEW w \in Workers, WorkerTest(w) PROVE Idle \/ Handles \/ Dying
    BY <1>39 DEF Handles, Handling
  <1>40. ASSUME NEW w \in Workers, WorkerFollowUp(w) PROVE Idle \/ Handles \/ Dying
    BY <1>40, Names
       DEF TypeOK, At, CallInv, HoldInv, ExitInv, VSignalTo, Idle, Admitted, Alive, InHand,
           Serving, Retired,
           Noticing, Pcs, mgrVars, timeVars, taskVars, WorkerFollowUp
  <1>24. ASSUME NEW w \in Workers, WorkerReport(w) PROVE Idle \/ Handles \/ Dying
    BY <1>24 DEF Handles, Handling
  <1>25. ASSUME NEW w \in Workers, WorkerLeave(w) PROVE Idle \/ Handles \/ Dying
    BY <1>25 DEF Handles, Handling
  <1>26. ASSUME NEW w \in Workers, WorkerExit(w) PROVE Idle \/ Handles \/ Dying
    <2>1. /\ \A v \in Workers : v # w => pc'[v] = pc[v] /\ call'[v] = call[v]
          /\ pc'[Mgr] = pc[Mgr] /\ pc[w] = "exiting" /\ pc'[w] \in {"vsig", "cleanup"}
      BY <1>26, Names DEF TypeOK, WorkerExit, At
    <2>2. UNCHANGED <<winbox, inbox, processed, dns, flags, task, sigs>>
      BY <1>26 DEF WorkerExit, mgrVars, timeVars, taskVars
    <2> QED BY <2>1, <2>2 DEF Idle, Admitted, HoldInv, Alive, InHand, Serving, Retired,
    Noticing
  <1>27. ASSUME NEW w \in Workers, PassUsr2(w, "term"), Keep PROVE Idle \/ Handles \/ Dying
    BY <1>27, Names
       DEF TypeOK, At, CallInv, HoldInv, ExitInv, VSignalTo, Idle, Admitted, Alive, InHand,
           Serving, Retired,
           Noticing, Pcs, mgrVars, timeVars, taskVars, Keep, PassUsr2
  <1>28. ASSUME NEW w \in Workers, Reverse(w) PROVE Idle \/ Handles \/ Dying
    BY <1>28 DEF Handles, Handling
  <1>29. ASSUME NEW w \in Workers, Forward(w) PROVE Idle \/ Handles \/ Dying
    BY <1>29 DEF Handles, Handling
  <1>30. ASSUME NEW w \in Workers, LookupFails(w) PROVE Idle \/ Handles \/ Dying
    BY <1>30, Names
       DEF TypeOK, At, CallInv, HoldInv, ExitInv, VSignalTo, Idle, Admitted, Alive, InHand,
           Serving, Retired,
           Noticing, Pcs, mgrVars, timeVars, taskVars, LookupFails, Aborted, Dying, Aborted
  <1>31. ASSUME NEW t \in Threads, EnterPoll(t), Keep PROVE Idle \/ Handles \/ Dying
    BY <1>31, Names
       DEF TypeOK, At, CallInv, HoldInv, ExitInv, VSignalTo, Idle, Admitted, Alive, InHand,
           Serving, Retired,
           Noticing, Pcs, mgrVars, timeVars, taskVars, Keep, EnterPoll
  <1>32. ASSUME NEW t \in Threads, ServeUsr2(t), Keep PROVE Idle \/ Handles \/ Dying
    BY <1>32, Names
       DEF TypeOK, At, CallInv, HoldInv, ExitInv, VSignalTo, Idle, Admitted, Alive, InHand,
           Serving, Retired,
           Noticing, Pcs, mgrVars, timeVars, taskVars, Keep, ServeUsr2
  <1>33. ASSUME NEW t \in Threads, DrainEmpty(t), Keep PROVE Idle \/ Handles \/ Dying
    BY <1>33, Names
       DEF TypeOK, At, CallInv, HoldInv, ExitInv, VSignalTo, Idle, Admitted, Alive, InHand,
           Serving, Retired,
           Noticing, Pcs, mgrVars, timeVars, taskVars, Keep, DrainEmpty
  <1>34. ASSUME NEW t \in Threads, VSignalNotFound(t), Keep PROVE Idle \/ Handles \/ Dying
    BY <1>34, Names
       DEF TypeOK, At, CallInv, HoldInv, ExitInv, VSignalTo, Idle, Admitted, Alive, InHand,
           Serving, Retired,
           Noticing, Pcs, mgrVars, timeVars, taskVars, Keep, VSignalNotFound, NoCall
  <1>35. ASSUME NEW t \in Threads, VSignalSubmit(t), Keep PROVE Idle \/ Handles \/ Dying
    BY <1>35, Names
       DEF TypeOK, At, CallInv, HoldInv, ExitInv, VSignalTo, Idle, Admitted, Alive, InHand,
           Serving, Retired,
           Noticing, Pcs, mgrVars, timeVars, taskVars, Keep, VSignalSubmit, Aborted, Dying,
           Aborted
  <1>36. ASSUME NEW t \in Threads, VSignalKill(t), Keep PROVE Idle \/ Handles \/ Dying
    <2>1. UNCHANGED winbox
      BY <1>36 DEF Keep, taskVars
    <2>2. \A v \in Workers :
            \/ pc'[v] = pc[v]
            \/ pc[v] = "poll" /\ pc'[v] = "usr2"
            \/ pc[v] = "kill" /\ pc'[v] \in {"drain", "cleanup"}
      BY <1>36, Names DEF TypeOK, At, CallInv, VSignalTo, VSignalKill, Raise, Woken
    <2>3. \A v \in Workers : /\ Admitted(v)' = Admitted(v) /\ InHand(v)' = InHand(v)
                             /\ pc'[v] = "lookup" <=> pc[v] = "lookup"
      BY <1>36, <2>1, <2>2 DEF Admitted, InHand, Serving, Keep, taskVars
    <2>4. Alive' = Alive
      BY <1>36, Names DEF Alive, TypeOK, At, CallInv, VSignalTo, VSignalKill, Raise, Woken
    <2>5. UNCHANGED <<winbox, inbox, processed, dns, flags, task>>
      BY <1>36 DEF Keep, mgrVars, timeVars, taskVars
    <2>6. "EXIT" \notin flags => \A v \in Workers : Retired(v)' => Retired(v)
      BY <1>36, Names
         DEF TypeOK, At, CallInv, ExitInv, VSignalTo, VSignalKill, Raise, Woken, Retired,
             Noticing, Keep, timeVars, NoCall
    <2> QED
      BY <2>3, <2>4, <2>5, <2>6 DEF Idle
  <1>37. ASSUME NEW t \in Threads, Cleanup(t), Keep PROVE Idle \/ Handles \/ Dying
    BY <1>37, Names
       DEF TypeOK, At, CallInv, HoldInv, ExitInv, VSignalTo, Idle, Admitted, Alive, InHand,
           Serving, Retired,
           Noticing, Pcs, mgrVars, timeVars, taskVars, Keep, Cleanup
  <1>38. CASE UNCHANGED vars
    BY <1>38, Names
       DEF TypeOK, At, CallInv, HoldInv, ExitInv, VSignalTo, Idle, Admitted, Alive, InHand,
           Serving, Retired,
           Noticing, Pcs, mgrVars, timeVars, taskVars, vars, esVars
  <1> QED
    BY <1>1, <1>2, <1>3, <1>4, <1>5, <1>6, <1>7, <1>8, <1>9, <1>10, <1>11, <1>12, <1>13, <1>14,
       <1>15, <1>16, <1>17, <1>18, <1>19, <1>20, <1>21, <1>22, <1>23, <1>24, <1>25, <1>26,
       <1>27, <1>28, <1>29, <1>30, <1>31, <1>32, <1>33, <1>34, <1>35, <1>36, <1>37, <1>38,
       <1>39, <1>40
       DEF Next, MgrStep, WorkerStep, Resolve, Engine

\* A step keeps the entries where they are,
Kept == processed' = processed /\ \A v \in Workers : Entries(v)' = Entries(v)

\* or gives a worker, whose entry, if it has one, is done, the next entry,
Given(w) ==
  /\ processed \in Items /\ processed' = processed + 1
  /\ Entries(w)' = {processed} /\ \A e \in Entries(w) : IsDone(e)
  /\ \A v \in Workers : v # w => Entries(v)' = Entries(v)

\* or prunes such a worker when no entry is left.
Pruned(w) ==
  /\ processed = NItems /\ processed' = processed
  /\ Entries(w)' = {} /\ \A e \in Entries(w) : IsDone(e)
  /\ \A v \in Workers : v # w => Entries(v)' = Entries(v)

LEMMA IdleKeeps ==
  ASSUME Idle
  PROVE  Kept
  <1>1. \A w \in Workers : Reports(w)' = Reports(w)
    BY DEF Idle, Reports
  <1> QED BY <1>1 DEF Idle, Kept, Entries

LEMMA OneLong ==
  ASSUME NEW S, NEW s \in Seq(S), s # <<>>, Len(s) <= 1
  PROVE  Len(s) = 1 /\ Tail(s) = <<>> /\ Head(s) = s[1]
  <1>1. Len(s) = 1
    <2> DEFINE n == Len(s)
    <2>1. n \in Nat /\ n # 0 /\ n <= 1
      OBVIOUS
    <2> HIDE DEF n
    <2>2. n = 1
      BY <2>1
    <2> QED BY <2>2 DEF n
  <1>2. Tail(s) \in Seq(S) /\ Len(Tail(s)) = 0
    BY <1>1
  <1>3. Tail(s) = <<>>
    BY <1>2
  <1>4. Head(s) = s[1]
    BY HeadTail
  <1> QED BY <1>1, <1>3, <1>4

\* A worker takes its task, performs it and reports it: it is the same entry.
LEMMA TakeKeeps ==
  ASSUME Inv, NEW w \in Workers, WorkerTake(w)
  PROVE  Kept
  <1>1. UNCHANGED <<inbox, processed>> /\ winbox[w] # <<>> /\ winbox[w] \in Seq(Items)
    BY DEF Inv, TypeOK, WorkerTake, mgrVars
  <1>2. Reports(w) = {} /\ InHand(w) = {} /\ Len(winbox[w]) = 1
    <2>1. Len(winbox[w]) <= 1 /\ Reports(w) = {} /\ InHand(w) = {}
      BY <1>1 DEF Inv, OneTaskEach
    <2> QED BY <1>1, <2>1, OneLong
  <1>3. \A v \in Workers : v # w => pc'[v] = pc[v] /\ winbox'[v] = winbox[v] /\ task'[v] = task[v]
    BY Names DEF Inv, TypeOK, WorkerTake, At
  <1>4. winbox'[w] = <<>> /\ task'[w] = winbox[w][1] /\ pc'[w] = "lookup"
    <2>1. /\ winbox'[w] = Tail(winbox[w]) /\ task'[w] = Head(winbox[w])
          /\ pc'[w] = "lookup"
      BY Names DEF Inv, TypeOK, WorkerTake, At
    <2>2. Tail(winbox[w]) = <<>> /\ Head(winbox[w]) = winbox[w][1]
      <3>1. Len(winbox[w]) <= 1
        BY <1>2
      <3> QED BY <1>1, <3>1, OneLong
    <2> QED BY <2>1, <2>2
  <1>5. \A v \in Workers : Reports(v)' = Reports(v)
    BY <1>1 DEF Reports
  <1>6. ASSUME NEW v \in Workers, v # w PROVE Entries(v)' = Entries(v)
    BY <1>1, <1>3, <1>5, <1>6 DEF Entries, InHand, Serving
  <1>7. Entries(w) = {winbox[w][1]}
    BY <1>1, <1>2 DEF Entries
  <1>8. Entries(w)' = {winbox[w][1]}
    <2>1. winbox[w][1] \in Items
      BY <1>1, <1>2
    <2>2. InHand(w)' = {winbox[w][1]}
      BY <1>4, <2>1, Names DEF InHand, Serving
    <2> QED BY <1>2, <1>4, <1>5, <2>2 DEF Entries
  <1> QED BY <1>1, <1>6, <1>7, <1>8 DEF Kept

LEMMA LookedKeeps ==
  ASSUME Inv, NEW w \in Workers, Reverse(w) \/ Forward(w)
  PROVE  Kept
  <1>1. /\ \A v \in Workers : v # w => pc'[v] = pc[v]
        /\ pc[w] = "lookup" /\ pc'[w] \in {"check", "post"}
        /\ UNCHANGED <<mgrVars, inbox, winbox, task>>
    BY LookedPc, Names DEF Inv
  <1>2. \A v \in Workers : Reports(v)' = Reports(v) /\ InHand(v)' = InHand(v)
    BY <1>1 DEF Reports, InHand, Serving
  <1> QED BY <1>1, <1>2 DEF Kept, Entries, mgrVars

\* A worker that tests EXIT_FLG keeps what it has.
LEMMA TestKeeps ==
  ASSUME Inv, NEW w \in Workers, WorkerTest(w)
  PROVE  Kept
  <1>1. /\ \A v \in Workers : v # w => pc'[v] = pc[v]
        /\ pc[w] = "check" /\ pc'[w] \in {"extract", "post"}
        /\ UNCHANGED <<mgrVars, inbox, winbox, task>>
    BY Names DEF Inv, TypeOK, WorkerTest, At, taskVars
  <1>2. \A v \in Workers : Reports(v)' = Reports(v) /\ InHand(v)' = InHand(v)
    BY <1>1 DEF Reports, InHand, Serving
  <1> QED BY <1>1, <1>2 DEF Kept, Entries, mgrVars

LEMMA ReportKeeps ==
  ASSUME Inv, NEW w \in Workers, WorkerReport(w), Alive'
  PROVE  Kept
  <1>1. UNCHANGED <<winbox, processed>> /\ pc[w] = "report" /\ task[w] \in Items
    BY DEF Inv, TypeOK, WorkerReport, NoUninitialisedReport, mgrVars
  <1>2. InHand(w) = {task[w]}
    BY <1>1, Names DEF InHand, Serving
  <1>3. Reports(w) = {} /\ winbox[w] = <<>>
    BY <1>2 DEF Inv, OneTaskEach
  <1>4. /\ \A v \in Workers : v # w => InHand(v)' = InHand(v)
        /\ InHand(w)' = {}
    BY Names DEF Inv, TypeOK, WorkerReport, At, Aborted, Alive, InHand, Serving
  <1>5. /\ Len(inbox') = Len(inbox) + 1 /\ Len(inbox) \in Nat
        /\ \A k \in 1 .. Len(inbox) : inbox'[k] = inbox[k]
        /\ inbox'[Len(inbox) + 1] = [e |-> task[w], w |-> w]
    BY <1>1 DEF Inv, TypeOK, WorkerReport
  <1>6. \A v \in Workers : v # w => /\ Reports(v)' = Reports(v)
                                    /\ \A k \in Reports(v) : inbox'[k] = inbox[k]
    BY <1>5 DEF Reports
  <1>7. /\ Reports(w)' = {Len(inbox) + 1}
        /\ inbox'[Len(inbox) + 1].e = task[w]
    BY <1>3, <1>5 DEF Reports
  <1>8. \A v \in Workers : v # w => Entries(v)' = Entries(v)
    BY <1>1, <1>4, <1>6 DEF Entries
  <1>9. Entries(w)' = Entries(w)
    BY <1>1, <1>2, <1>3, <1>4, <1>7 DEF Entries
  <1> QED BY <1>1, <1>8, <1>9 DEF Kept

\* The sender of the first report has the entry it reports, and no other; the
\* entries of the other workers stay where they are.
LEMMA HeadEntry ==
  ASSUME Inv, Extracted
  PROVE  \E w \in Workers : w = Head(inbox).w /\ Entries(w) = {Head(inbox).e}
  <1>1. PICK w \in Workers : w = Head(inbox).w
    BY HeadOfInbox DEF Inv, Extracted
  <1>2. 1 \in Reports(w) /\ inbox[1] = Head(inbox)
    BY <1>1, HeadOfInbox DEF Inv, Reports, Extracted
  <1>3. winbox[w] = <<>> /\ InHand(w) = {} /\ Reports(w) = {1}
    BY <1>2 DEF Inv, OneTaskEach
  <1> QED BY <1>1, <1>3, <1>2 DEF Entries

LEMMA OthersEntries ==
  ASSUME Inv, Extracted, NEW v \in Workers, v # Head(inbox).w,
         winbox'[v] = winbox[v], InHand(v)' = InHand(v)
  PROVE  Entries(v)' = Entries(v)
  <1>1. /\ inbox \in Seq([e : Items, w : Workers]) /\ inbox # <<>> /\ inbox' = Tail(inbox)
        /\ Head(inbox) = inbox[1]
    BY HeadOfInbox DEF Inv, TypeOK, Extracted
  <1>2. /\ Len(inbox) \in Nat /\ Len(inbox') = Len(inbox) - 1
        /\ \A k \in 1 .. Len(inbox') : inbox'[k] = inbox[k + 1]
    BY <1>1
  <1>3. \A k \in Reports(v)' : k + 1 \in Reports(v) /\ inbox'[k] = inbox[k + 1]
    BY <1>2 DEF Reports
  <1>4. \A k \in Reports(v) : k - 1 \in Reports(v)' /\ inbox'[k - 1] = inbox[k]
    BY <1>1, <1>2 DEF Reports
  <1>5. {inbox[k].e : k \in Reports(v)}' = {inbox[k].e : k \in Reports(v)}
    BY <1>3, <1>4
  <1> QED BY <1>5 DEF Entries

\* A worker is handed an entry.
LEMMA AssignEntries ==
  ASSUME Inv, NEW w \in Workers, NEW e \in Items, NEW ret, Assign(w, e, ret), Alive',
         task' = task
  PROVE  /\ winbox'[w] = Append(winbox[w], e) /\ pc'[Mgr] = "vsig"
         /\ \A v \in Workers : v # w => winbox'[v] = winbox[v]
         /\ \A v \in Workers : InHand(v)' = InHand(v) /\ pc'[v] = pc[v] /\ call'[v] = call[v]
  <1>1. /\ \A v \in Workers : pc'[v] = pc[v] /\ call'[v] = call[v]
        /\ pc'[Mgr] = "vsig"
    BY Names DEF Inv, TypeOK, Assign, At, Aborted, Alive
  <1> QED BY <1>1 DEF Inv, TypeOK, Assign, InHand, Serving

LEMMA DispatchGives ==
  ASSUME Inv, Dispatch, Alive'
  PROVE  \E w \in Workers : Given(w)
  <1>1. PICK w \in Workers : w = processed
    BY Names DEF Inv, TypeOK, Dispatch, Workers
  <1>2. w \in Items /\ Assign(w, w, "dispatch")
    BY <1>1, Names DEF Dispatch
  <1>3. UNCHANGED <<inbox, task>> /\ processed' = processed + 1
    BY DEF Dispatch
  <1>4. Entries(w) = {}
    BY <1>1, Names DEF Inv, Dispatch, EarlyInv, Early
  <1>5. winbox[w] = <<>> /\ InHand(w) = {} /\ Reports(w) = {}
    BY <1>4, NoEntries DEF Inv
  <1>6. /\ winbox'[w] = Append(winbox[w], w)
        /\ \A v \in Workers : v # w => winbox'[v] = winbox[v]
        /\ \A v \in Workers : InHand(v)' = InHand(v)
    BY <1>2, <1>3, AssignEntries
  <1>7. \A v \in Workers : Reports(v)' = Reports(v)
    BY <1>3 DEF Reports
  <1>8. Entries(w)' = {w}
    BY <1>2, <1>5, <1>6, <1>7, Handed DEF Inv
  <1>9. \A v \in Workers : v # w => Entries(v)' = Entries(v)
    BY <1>3, <1>6, <1>7 DEF Entries
  <1> QED BY <1>1, <1>2, <1>3, <1>4, <1>8, <1>9 DEF Given

\* A worker that has reported is given one entry: its own or a fresh one.
LEMMA AnswerEntries ==
  ASSUME Inv, Extracted, NEW w \in Workers, w = Head(inbox).w, NEW e \in Items,
         Assign(w, e, "inbox"), Alive', task' = task
  PROVE  Entries(w)' = {e} /\ \A v \in Workers : v # w => Entries(v)' = Entries(v)
  <1>1. /\ winbox'[w] = Append(winbox[w], e)
        /\ \A v \in Workers : v # w => winbox'[v] = winbox[v]
        /\ \A v \in Workers : InHand(v)' = InHand(v)
    BY AssignEntries
  <1>2. Reports(w)' = {} /\ InHand(w)' = {} /\ winbox[w] = <<>>
    BY <1>1, AnswerTasks DEF Inv
  <1>3. Entries(w)' = {e}
    BY <1>1, <1>2, Handed DEF Inv
  <1>4. \A v \in Workers : v # w => Entries(v)' = Entries(v)
    BY <1>1, OthersEntries
  <1> QED BY <1>3, <1>4

LEMMA NextGives ==
  ASSUME Inv, MgrNext, Alive'
  PROVE  \E w \in Workers : Given(w)
  <1>1. PICK e \in Items : e = processed
    BY Names DEF Inv, TypeOK, MgrNext, NoneLeft, Items
  <1>2. PICK w \in Workers : w = Head(inbox).w /\ Entries(w) = {Head(inbox).e}
    BY HeadEntry DEF MgrNext
  <1>3. /\ Extracted /\ Assign(w, e, "inbox") /\ task' = task
        /\ processed' = processed + 1 /\ IsDone(Head(inbox).e)
    BY <1>1, <1>2 DEF MgrNext, AfterNext
  <1>4. Entries(w)' = {e} /\ \A v \in Workers : v # w => Entries(v)' = Entries(v)
    BY <1>2, <1>3, AnswerEntries
  <1>5. Given(w)
    BY <1>1, <1>2, <1>3, <1>4 DEF Given
  <1> QED BY <1>5

LEMMA ForwardKeeps ==
  ASSUME Inv, MgrForward, Alive'
  PROVE  Kept
  <1>1. PICK w \in Workers : w = Head(inbox).w /\ Entries(w) = {Head(inbox).e}
    BY HeadEntry DEF MgrForward
  <1>2. PICK e \in Items : e = Head(inbox).e
    BY HeadOfInbox DEF Inv, MgrForward, Extracted
  <1>3. Extracted /\ Assign(w, e, "inbox") /\ task' = task /\ processed' = processed
    BY <1>1, <1>2 DEF MgrForward, mgrVars
  <1>4. Entries(w)' = {e} /\ \A v \in Workers : v # w => Entries(v)' = Entries(v)
    BY <1>1, <1>3, AnswerEntries
  <1> QED BY <1>1, <1>2, <1>3, <1>4 DEF Kept

LEMMA PrunePrunes ==
  ASSUME Inv, MgrPrune
  PROVE  \E w \in Workers : w = Head(inbox).w /\ Pruned(w)
  <1>1. PICK w \in Workers : w = Head(inbox).w /\ Entries(w) = {Head(inbox).e}
    BY HeadEntry DEF MgrPrune
  <1>2. /\ Extracted /\ UNCHANGED <<winbox, task, processed>>
        /\ IsDone(Head(inbox).e) /\ processed = NItems
    BY DEF MgrPrune, MayPrune, NoneLeft, mgrVars
  <1>3. \A t \in Threads : pc'[t] = pc[t] \/ (pc[t] = "poll" /\ pc'[t] = "usr2")
    BY RaisePc DEF MgrPrune, Inv, TypeOK
  <1>4. \A v \in Workers : InHand(v)' = InHand(v)
    BY <1>2, <1>3, Names DEF InHand, Serving
  <1>5. \A v \in Workers : v # w => Entries(v)' = Entries(v)
    BY <1>1, <1>2, <1>4, OthersEntries
  <1>6. Reports(w)' = {} /\ InHand(w)' = {} /\ winbox'[w] = <<>>
    BY <1>1, <1>2, <1>4, AnswerTasks DEF Inv
  <1>7. Entries(w)' = {}
    BY <1>6 DEF Entries
  <1> QED BY <1>1, <1>2, <1>5, <1>7 DEF Pruned

\* As long as the time limit has not passed, nothing else happens to the entries.
LEMMA HandoverStep ==
  ASSUME Inv, AliveInv, ExitInv, Alive', "EXIT" \notin flags, [Next]_vars
  PROVE  Kept \/ \E w \in Workers : Given(w) \/ (Pruned(w) /\ MgrPrune /\ w = Head(inbox).w)
  <1>1. CASE Idle
    BY <1>1, IdleKeeps
  <1>2. CASE TimeoutF
    <2>1. UNCHANGED <<winbox, inbox, processed, task>> /\ \A v \in Workers : pc'[v] = pc[v]
      BY <1>2, Names DEF TimeoutF, mgrVars, taskVars, Inv, TypeOK, At
    <2>2. \A v \in Workers : Reports(v)' = Reports(v) /\ InHand(v)' = InHand(v)
      BY <2>1 DEF Reports, InHand, Serving
    <2> QED BY <2>1, <2>2 DEF Kept, Entries
  <1>3. ASSUME NEW w \in Workers, Handling(w) PROVE Kept
    <2>1. ~WorkerLeave(w)
      BY DEF WorkerLeave
    <2> QED BY <1>3, <2>1, TestKeeps, TakeKeeps, LookedKeeps, ReportKeeps DEF Handling
  <1>4. CASE Dispatch \/ MgrPrune \/ MgrNext \/ MgrForward
    BY <1>4, DispatchGives, NextGives, ForwardKeeps, PrunePrunes
  <1> QED BY <1>1, <1>2, <1>3, <1>4, IdleStep DEF Handles, Dying, Inv

---------------------------------------------------------------------------
(* What becomes of the flags of an entry.                                  *)

Unresolved(e) == dns[e] \in {{}, {"REV"}}
Resolved(e) ==
  \/ dns[e] \in {{"NXDOMAIN"}, {"SERVFAIL"}, {"REV", "FWD"}}
  \/ dns[e] \in {{"REV", "FWD", "MISMATCH"}, {"REV", "FWD", "NONE"}, {"REV", "FWD", "FAIL"}}

\* An entry that is to be looked up, or is being looked up, is unresolved; one
\* that has not been handed out has no flags.
DnsInv ==
  /\ \A e \in Items : Unresolved(e) \/ Resolved(e)
  /\ Alive => /\ \A e \in Items : e >= processed => dns[e] = {}
              /\ \A w \in Workers : pc[w] = "lookup" => Unresolved(task[w])
              /\ \A w \in Workers : \A k \in 1 .. Len(winbox[w]) : Unresolved(winbox[w][k])

\* What PDNS_DONE_MASK tells of an entry.
LEMMA DoneIsResolved ==
  ASSUME DnsInv, NEW e \in Items
  PROVE  IsDone(e) <=> ~Unresolved(e)
  BY DEF DnsInv, IsDone, DoneMask, Unresolved, Resolved

\* What a lookup does: one step towards the final flags of its entry.
LEMMA LookupResult ==
  ASSUME Inv, DnsInv, Alive, NEW w \in Workers, Reverse(w) \/ Forward(w)
  PROVE  \E f \in Items :
           /\ f = task[w] /\ pc[w] = "lookup" /\ processed' = processed
           /\ \/ /\ dns[f] = {}
                 /\ \E o \in {{"REV"}, {"NXDOMAIN"}, {"SERVFAIL"}} : dns' = [dns EXCEPT ![f] = o]
              \/ /\ dns[f] = {"REV"}
                 /\ \E o \in {{"FWD"}, {"FWD", "MISMATCH"}, {"FWD", "NONE"}, {"FWD", "FAIL"}} :
                      dns' = [dns EXCEPT ![f] = @ \cup o]
  <1>1. pc[w] = "lookup" /\ task[w] \in Items /\ Unresolved(task[w])
    BY Names DEF Inv, TypeOK, HoldInv, DnsInv, Reverse, Forward
  <1>2. PICK f \in Items : f = task[w]
    BY <1>1
  <1>3. CASE Reverse(w)
    <2>1. PICK r \in {"REV", "NXDOMAIN", "SERVFAIL"} : Looked(w, {r})
      BY <1>3 DEF Reverse
    <2>2. dns[f] = {}
      BY <1>1, <1>2, <1>3 DEF Reverse, Unresolved
    <2>3. dns' = [dns EXCEPT ![f] = {r}] /\ processed' = processed
      BY <1>2, <2>1, <2>2 DEF Looked, mgrVars
    <2> QED BY <1>1, <1>2, <2>1, <2>2, <2>3
  <1>4. CASE Forward(w)
    <2>1. PICK o \in {{"FWD"}, {"FWD", "MISMATCH"}, {"FWD", "NONE"}, {"FWD", "FAIL"}} :
            Looked(w, o)
      BY <1>4 DEF Forward
    <2>2. dns[f] = {"REV"}
      BY <1>1, <1>2, <1>4 DEF Forward, Unresolved
    <2>3. dns' = [dns EXCEPT ![f] = @ \cup o] /\ processed' = processed
      BY <1>2, <2>1 DEF Looked, mgrVars
    <2> QED BY <1>1, <1>2, <2>1, <2>2, <2>3
  <1> QED BY <1>3, <1>4

\* The flags a lookup leaves are final, or REV alone, and no other entry's.
LEMMA LookupFlags ==
  ASSUME Inv, DnsInv, Alive, NEW w \in Workers, Reverse(w) \/ Forward(w)
  PROVE  \E f \in Items :
           /\ f = task[w] /\ processed' = processed /\ dns[f] \subseteq dns'[f]
           /\ (dns[f] = {} /\ dns'[f] = {"REV"}) \/ (Unresolved(f) /\ Resolved(f)')
           /\ \A e \in Items : e # f => dns'[e] = dns[e]
  <1>1. PICK f \in Items :
           /\ f = task[w] /\ pc[w] = "lookup" /\ processed' = processed
           /\ \/ /\ dns[f] = {}
                 /\ \E o \in {{"REV"}, {"NXDOMAIN"}, {"SERVFAIL"}} : dns' = [dns EXCEPT ![f] = o]
              \/ /\ dns[f] = {"REV"}
                 /\ \E o \in {{"FWD"}, {"FWD", "MISMATCH"}, {"FWD", "NONE"}, {"FWD", "FAIL"}} :
                      dns' = [dns EXCEPT ![f] = @ \cup o]
    BY LookupResult
  <1>2. DOMAIN dns = Items
    BY DEF Inv, TypeOK
  <1>3. CASE dns[f] = {}
    <2>1. PICK o \in {{"REV"}, {"NXDOMAIN"}, {"SERVFAIL"}} : dns' = [dns EXCEPT ![f] = o]
      BY <1>1, <1>3
    <2>2. dns'[f] = o /\ \A e \in Items : e # f => dns'[e] = dns[e]
      BY <1>2, <2>1
    <2> QED BY <1>1, <1>3, <2>1, <2>2 DEF Unresolved, Resolved
  <1>4. CASE dns[f] = {"REV"}
    <2>1. PICK o \in {{"FWD"}, {"FWD", "MISMATCH"}, {"FWD", "NONE"}, {"FWD", "FAIL"}} :
            dns' = [dns EXCEPT ![f] = @ \cup o]
      BY <1>1, <1>4
    <2>2. dns'[f] = {"REV"} \cup o /\ \A e \in Items : e # f => dns'[e] = dns[e]
      BY <1>2, <1>4, <2>1
    <2>3. Resolved(f)'
      BY <2>1, <2>2 DEF Resolved
    <2> QED BY <1>1, <1>4, <2>2, <2>3 DEF Unresolved
  <1> QED BY <1>1, <1>3, <1>4

\* An unresolved entry is handed out.
LEMMA AssignDns ==
  ASSUME Inv, DnsInv, Alive, Alive', NEW w \in Workers, NEW e \in Items, NEW ret,
         Assign(w, e, ret), UNCHANGED <<dns, task>>, Unresolved(e),
         processed' \in {processed, processed + 1}
  PROVE  DnsInv'
  <1>1. /\ winbox'[w] = Append(winbox[w], e) /\ winbox[w] \in Seq(Items)
        /\ \A v \in Workers : v # w => winbox'[v] = winbox[v]
        /\ \A v \in Workers : pc'[v] = pc[v]
    BY AssignEntries DEF Inv, TypeOK
  <1>2. \A v \in Workers : \A k \in 1 .. Len(winbox'[v]) : Unresolved(winbox'[v][k])
    <2>1. \A k \in 1 .. Len(winbox'[w]) :
            winbox'[w][k] = e \/ (k \in 1 .. Len(winbox[w]) /\ winbox'[w][k] = winbox[w][k])
      BY <1>1
    <2> QED BY <1>1, <2>1 DEF DnsInv
  <1>3. \A d \in Items : d >= processed' => d >= processed
    BY Names DEF Inv, TypeOK
  <1> QED BY <1>1, <1>2, <1>3 DEF DnsInv, Unresolved, Resolved

\* A step keeps what is known of the flags.
LEMMA DnsStep ==
  ASSUME Inv, AliveInv, ExitInv, DnsInv, [Next]_vars
  PROVE  DnsInv'
  <1>1. CASE ~Alive
    <2>1. UNCHANGED <<pc, dns>>
      BY <1>1, DeadStep DEF Inv, vars, esVars, taskVars
    <2> QED BY <1>1, <2>1 DEF DnsInv, Alive, Unresolved, Resolved
  <1>2. CASE Dying
    BY <1>2 DEF Dying, DnsInv, Unresolved, Resolved
  <1>3. CASE Idle /\ Alive
    BY <1>3 DEF Idle, DnsInv, Unresolved, Resolved
  <1>4. CASE Handles /\ Alive
    <2>1. CASE ~Alive' /\ dns' = dns
      BY <2>1 DEF DnsInv, Unresolved, Resolved
    <2>2. CASE Dispatch /\ Alive'
      <3>1. PICK e \in Items : e = processed /\ e \in Workers
        BY <2>2, Names DEF Inv, TypeOK, Dispatch, Workers
      <3>2. /\ Assign(e, e, "dispatch")
            /\ UNCHANGED <<dns, task>> /\ processed' = processed + 1
        BY <2>2, <3>1 DEF Dispatch
      <3>3. Unresolved(e)
        BY <1>4, <3>1, Names DEF DnsInv, Unresolved
      <3> QED BY <1>4, <2>2, <3>1, <3>2, <3>3, AssignDns
    <2>3. CASE MgrNext /\ Alive'
      <3>1. PICK e \in Items : e = processed
        BY <2>3, Names DEF Inv, TypeOK, MgrNext, NoneLeft, Items
      <3>2. PICK w \in Workers : w = Head(inbox).w
        BY <2>3, HeadEntry DEF MgrNext
      <3>3. Assign(w, e, "inbox") /\ UNCHANGED <<dns, task>> /\ processed' = processed + 1
        BY <2>3, <3>1, <3>2 DEF MgrNext, AfterNext
      <3>4. Unresolved(e)
        BY <1>4, <3>1, Names DEF DnsInv, Unresolved
      <3> QED BY <1>4, <2>3, <3>3, <3>4, AssignDns
    <2>4. CASE MgrForward /\ Alive'
      <3>1. PICK e \in Items : e = Head(inbox).e
        BY <2>4, HeadOfInbox DEF Inv, MgrForward, Extracted
      <3>2. PICK w \in Workers : w = Head(inbox).w
        BY <2>4, HeadEntry DEF MgrForward
      <3>3. Assign(w, e, "inbox") /\ UNCHANGED <<dns, task, processed>>
        BY <2>4, <3>1, <3>2 DEF MgrForward, mgrVars
      <3>4. Unresolved(e)
        BY <2>4, <3>1, DoneIsResolved DEF MgrForward
      <3> QED BY <1>4, <2>4, <3>3, <3>4, AssignDns
    <2>5. CASE MgrPrune \/ TimeoutF
      <3>1. UNCHANGED <<dns, winbox, task, processed>>
        BY <2>5 DEF MgrPrune, TimeoutF, mgrVars, taskVars
      <3>2. \A w \in Workers : pc'[w] = pc[w] \/ pc'[w] = "usr2"
        <4>1. CASE MgrPrune
          <5>1. \A t \in Threads : pc'[t] = pc[t] \/ (pc[t] = "poll" /\ pc'[t] = "usr2")
            BY <4>1, RaisePc DEF MgrPrune, Inv, TypeOK
          <5> QED BY <5>1, Names
        <4>2. CASE TimeoutF
          BY <4>2, Names DEF Inv, TypeOK, TimeoutF, At
        <4> QED BY <2>5, <4>1, <4>2
      <3> QED BY <1>4, <3>1, <3>2 DEF DnsInv, Unresolved, Resolved
    <2>6. ASSUME NEW w \in Workers, WorkerTake(w) PROVE DnsInv'
      <3>1. /\ UNCHANGED <<dns, processed>> /\ winbox[w] # <<>> /\ winbox[w] \in Seq(Items)
            /\ task'[w] = Head(winbox[w]) /\ winbox'[w] = Tail(winbox[w])
            /\ \A v \in Workers : v # w => /\ pc'[v] = pc[v] /\ winbox'[v] = winbox[v]
                                           /\ task'[v] = task[v]
        BY <2>6, Names DEF Inv, TypeOK, WorkerTake, mgrVars, At
      <3>2. Unresolved(task'[w])
        BY <1>4, <3>1, HeadTail DEF DnsInv
      <3>3. \A k \in 1 .. Len(winbox'[w]) :
              k + 1 \in 1 .. Len(winbox[w]) /\ winbox'[w][k] = winbox[w][k + 1]
        BY <3>1
      <3>4. \A k \in 1 .. Len(winbox'[w]) : Unresolved(winbox'[w][k])
        BY <1>4, <3>3 DEF DnsInv
      <3> QED BY <1>4, <3>1, <3>2, <3>4 DEF DnsInv, Unresolved, Resolved
    <2>7. ASSUME NEW w \in Workers, WorkerReport(w) \/ WorkerLeave(w) \/ WorkerTest(w), Alive'
          PROVE  DnsInv'
      <3>1. /\ UNCHANGED <<dns, winbox, processed>>
            /\ \A v \in Workers : v # w => pc'[v] = pc[v] /\ task'[v] = task[v]
            /\ pc'[w] # "lookup"
        <4>1. CASE WorkerReport(w)
          BY <2>7, <4>1, Names DEF Inv, TypeOK, WorkerReport, mgrVars, At, Aborted, Alive
        <4>2. CASE WorkerLeave(w)
          BY <4>2, Names DEF Inv, TypeOK, WorkerLeave, mgrVars, At
        <4>3. CASE WorkerTest(w)
          BY <4>3, Names DEF Inv, TypeOK, WorkerTest, mgrVars, taskVars, At
        <4> QED BY <2>7, <4>1, <4>2, <4>3
      <3> QED BY <1>4, <3>1 DEF DnsInv, Unresolved, Resolved
    <2>8. ASSUME NEW w \in Workers, Reverse(w) \/ Forward(w) PROVE DnsInv'
      <3>1. /\ \A v \in Workers : v # w => pc'[v] = pc[v]
            /\ pc[w] = "lookup" /\ pc'[w] # "lookup" /\ UNCHANGED <<winbox, task>>
        BY <2>8, LookedPc, Names DEF Inv
      <3>2. PICK f \in Items :
              /\ f = task[w] /\ processed' = processed
              /\ (dns[f] = {} /\ dns'[f] = {"REV"}) \/ (Unresolved(f) /\ Resolved(f)')
              /\ \A e \in Items : e # f => dns'[e] = dns[e]
        BY <1>4, <2>8, LookupFlags
      <3>3. f \in Entries(w)
        BY <3>1, <3>2, Names DEF Entries, InHand, Serving
      <3>4. \A e \in Items : e # f => dns'[e] = dns[e]
        BY <3>2
      <3>5. \A v \in Workers : pc'[v] = "lookup" => task[v] # f
        <4>1. ASSUME NEW v \in Workers, pc'[v] = "lookup", task[v] = f PROVE FALSE
          <5>1. v # w /\ pc[v] = "lookup"
            BY <3>1, <4>1
          <5>2. f \in Entries(v)
            BY <4>1, <5>1, Names DEF Entries, InHand, Serving
          <5> QED BY <3>3, <5>1, <5>2 DEF Inv, OneTaskEach
        <4> QED BY <4>1
      <3>6. \A v \in Workers : \A k \in 1 .. Len(winbox[v]) : winbox[v][k] # f
        <4>1. ASSUME NEW v \in Workers, NEW k \in 1 .. Len(winbox[v]), winbox[v][k] = f
              PROVE FALSE
          <5>1. f \in Entries(v)
            BY <4>1 DEF Entries
          <5>2. v = w
            BY <3>3, <5>1 DEF Inv, OneTaskEach
          <5>3. InHand(w) # {}
            BY <3>1, <3>2, Names DEF InHand, Serving
          <5>4. winbox[w] # <<>>
            BY <4>1, <5>2
          <5> QED BY <5>3, <5>4 DEF Inv, OneTaskEach
        <4> QED BY <4>1
      <3>7. f < processed
        BY <3>3 DEF Inv, FreshInv
      <3>8. \A v \in Workers : /\ pc'[v] = "lookup" => task'[v] \in Items
                               /\ \A k \in 1 .. Len(winbox[v]) : winbox[v][k] \in Items
        BY <3>1, Names, ElementOf DEF Inv, TypeOK, HoldInv
      <3>9. \A e \in Items : Unresolved(e)' \/ Resolved(e)'
        BY <3>2, <3>4 DEF DnsInv, Unresolved, Resolved
      <3>10. \A e \in Items : e >= processed' => dns'[e] = {}
        <4>1. ASSUME NEW e \in Items, e >= processed' PROVE dns'[e] = {}
          <5>1. e # f /\ e >= processed
            BY <3>2, <3>7, <4>1, Names DEF Inv, TypeOK
          <5> QED BY <1>4, <3>4, <5>1 DEF DnsInv
        <4> QED BY <4>1
      <3>11. \A v \in Workers : pc'[v] = "lookup" => Unresolved(task[v])'
        BY <1>4, <3>1, <3>4, <3>5, <3>8 DEF DnsInv, Unresolved
      <3>12. \A v \in Workers : \A k \in 1 .. Len(winbox'[v]) : Unresolved(winbox[v][k])'
        BY <1>4, <3>1, <3>4, <3>6, <3>8 DEF DnsInv, Unresolved
      <3> QED BY <3>9, <3>10, <3>11, <3>12 DEF DnsInv
    <2>9. dns' = dns \/ \E w \in Workers : Reverse(w) \/ Forward(w)
      BY <1>4 DEF Handles, Handling, Dispatch, MgrPrune, MgrNext, MgrForward, TimeoutF,
                  WorkerTest, WorkerTake, WorkerReport, WorkerLeave, taskVars
    <2> QED BY <1>4, <2>1, <2>2, <2>3, <2>4, <2>5, <2>6, <2>7, <2>8, <2>9
            DEF Handles, Handling
  <1> QED BY <1>1, <1>2, <1>3, <1>4, IdleStep DEF Inv

---------------------------------------------------------------------------
(* PDNS_lookup() returns with all lookups done.                            *)

\* Workers are stopped only when no entry is left for them, and an entry that
\* was handed out is done or with a worker, until the time limit passes.
RetireInv ==
  Alive /\ "EXIT" \notin flags =>
    \A w \in Workers : Retired(w) => processed = NItems /\ Entries(w) = {}
PlacedInv ==
  Alive /\ "EXIT" \notin flags =>
    \A e \in Items : e < processed => IsDone(e) \/ \E w \in Workers : e \in Entries(w)

\* The time limit, once passed, stays passed.
LEMMA ExitFlagStays ==
  ASSUME Inv, AliveInv, ExitInv, [Next]_vars
  PROVE  "EXIT" \in flags => "EXIT" \in flags'
  <1>1. \A w \in Workers : Handling(w) => flags' = flags
    BY DEF Handling, WorkerTest, WorkerTake, Reverse, Forward, Looked, WorkerReport,
           WorkerLeave, timeVars
  <1>2. Handles => flags' = flags \/ TimeoutF
    BY <1>1 DEF Handles, Dispatch, MgrPrune, MgrNext, MgrForward, timeVars
  <1>3. TimeoutF => "EXIT" \in flags'
    BY DEF TimeoutF
  <1> QED BY <1>2, <1>3, IdleStep DEF Inv, Idle, Dying

\* No entry loses a flag.
LEMMA FlagsStay ==
  ASSUME Inv, AliveInv, ExitInv, DnsInv, Alive, [Next]_vars, NEW e \in Items
  PROVE  dns[e] \subseteq dns'[e]
  <1>1. ASSUME NEW w \in Workers, Reverse(w) \/ Forward(w) PROVE dns[e] \subseteq dns'[e]
    BY <1>1, LookupFlags
  <1>2. dns' = dns \/ \E w \in Workers : Reverse(w) \/ Forward(w)
    BY IdleStep
       DEF Inv, Idle, Dying, Handles, Handling, Dispatch, MgrPrune, MgrNext, MgrForward,
           TimeoutF, WorkerTest, WorkerTake, WorkerReport, WorkerLeave, taskVars
  <1> QED BY <1>1, <1>2

\* Only a worker that is pruned retires.
LEMMA RetireStep ==
  ASSUME Inv, AliveInv, ExitInv, Alive', "EXIT" \notin flags, "EXIT" \notin flags',
         [Next]_vars, NEW v \in Workers, Retired(v)'
  PROVE  Retired(v) \/ (MgrPrune /\ v = Head(inbox).w)
  <1>1. CASE Idle
    BY <1>1 DEF Idle
  <1>2. CASE Dispatch \/ MgrNext \/ MgrForward
    <2>1. pc'[v] = pc[v] /\ call'[v] = call[v] /\ sigs' = sigs
      <3>1. sigs' = sigs /\ \E w, e, ret : Assign(w, e, ret)
        BY <1>2 DEF Dispatch, MgrNext, MgrForward
      <3> QED BY <3>1, Names DEF Inv, TypeOK, Assign, At, Aborted, Alive
    <2> QED BY <2>1 DEF Retired, Noticing
  <1>3. CASE MgrPrune
    <2>1. \A t \in Threads : pc'[t] = pc[t] \/ (pc[t] = "poll" /\ pc'[t] = "usr2")
      BY <1>3, RaisePc DEF MgrPrune, Inv, TypeOK
    <2>2. call' = call /\ (v # Head(inbox).w => sigs'[v] = sigs[v])
      BY <1>3 DEF MgrPrune, Raise, Inv, TypeOK
    <2> QED BY <1>3, <2>1, <2>2, Names DEF Retired, Noticing
  <1>4. CASE TimeoutF
    BY <1>4 DEF TimeoutF
  <1>5. ASSUME NEW w \in Workers, Handling(w) PROVE Retired(v)
    <2>1. CASE Reverse(w) \/ Forward(w)
      <3>1. /\ \A u \in Workers : u # w => pc'[u] = pc[u]
            /\ pc'[w] \in {"check", "post"} /\ call' = call
        BY <2>1, LookedPc, Names DEF Inv
      <3>2. sigs' = sigs
        BY <2>1 DEF Reverse, Forward, Looked
      <3> QED BY <3>1, <3>2 DEF Retired, Noticing
    <2>2. CASE WorkerTake(w)
      BY <2>2, Names DEF Inv, TypeOK, WorkerTake, At, Retired, Noticing
    <2>3. CASE WorkerReport(w)
      BY <2>3, Names
         DEF Inv, TypeOK, WorkerReport, At, Aborted, Alive, VSignalTo, Retired, Noticing
    <2>4. ~WorkerLeave(w)
      BY DEF WorkerLeave
    <2>5. CASE WorkerTest(w)
      BY <2>5, Names DEF Inv, TypeOK, WorkerTest, At, Retired, Noticing
    <2> QED BY <1>5, <2>1, <2>2, <2>3, <2>4, <2>5 DEF Handling
  <1> QED BY <1>1, <1>2, <1>3, <1>4, <1>5, IdleStep DEF Inv, Handles, Dying

\* A step keeps what is known of the entries.
LEMMA EntriesStep ==
  ASSUME Inv, AliveInv, ExitInv, DnsInv, RetireInv, PlacedInv, [Next]_vars
  PROVE  RetireInv' /\ PlacedInv'
  <1> SUFFICES ASSUME Alive', "EXIT" \notin flags'
               PROVE  /\ \A v \in Workers : Retired(v)' => processed' = NItems /\ Entries(v)' = {}
                      /\ \A e \in Items : e < processed' =>
                           IsDone(e)' \/ \E v \in Workers : e \in Entries(v)'
    BY DEF RetireInv, PlacedInv
  <1>1. "EXIT" \notin flags /\ Alive
    BY ExitFlagStays, DeadStep DEF Inv, Alive, vars, esVars
  <1>2. /\ \A v \in Workers : Retired(v) => processed = NItems /\ Entries(v) = {}
        /\ \A e \in Items : e < processed => IsDone(e) \/ \E v \in Workers : e \in Entries(v)
    BY <1>1 DEF RetireInv, PlacedInv
  <1>3. \A v \in Workers : Retired(v)' => Retired(v) \/ (MgrPrune /\ v = Head(inbox).w)
    BY <1>1, RetireStep
  <1>4. \A e \in Items : IsDone(e) => IsDone(e)'
    BY <1>1, FlagsStay DEF IsDone
  <1>5. NItems \notin Items /\ \A e \in Items : e < processed + 1 => e < processed \/ e = processed
    BY Names DEF Items, Inv, TypeOK
  <1>6. CASE Kept /\ ~MgrPrune
    BY <1>2, <1>3, <1>4, <1>6 DEF Kept
  <1>7. ASSUME NEW w \in Workers, Given(w)
        PROVE  /\ \A v \in Workers : Retired(v)' => processed' = NItems /\ Entries(v)' = {}
               /\ \A e \in Items : e < processed' =>
                    IsDone(e)' \/ \E v \in Workers : e \in Entries(v)'
    <2>1. \A v \in Workers : ~Retired(v)
      BY <1>2, <1>5, <1>7 DEF Given
    <2>2. ~MgrPrune
      BY <1>5, <1>7 DEF MgrPrune, MayPrune, NoneLeft, Given
    <2>3. ASSUME NEW e \in Items, e < processed'
          PROVE  IsDone(e)' \/ \E v \in Workers : e \in Entries(v)'
      <3>1. CASE e = processed
        BY <1>7, <3>1 DEF Given
      <3>2. CASE e < processed
        BY <1>2, <1>4, <1>7, <3>2 DEF Given
      <3> QED BY <1>5, <1>7, <2>3, <3>1, <3>2 DEF Given
    <2> QED BY <1>3, <2>1, <2>2, <2>3
  <1>8. ASSUME NEW w \in Workers, Pruned(w), w = Head(inbox).w
        PROVE  /\ \A v \in Workers : Retired(v)' => processed' = NItems /\ Entries(v)' = {}
               /\ \A e \in Items : e < processed' =>
                    IsDone(e)' \/ \E v \in Workers : e \in Entries(v)'
    BY <1>2, <1>3, <1>4, <1>8 DEF Pruned
  <1>9. CASE MgrPrune
    BY <1>8, <1>9, PrunePrunes
  <1> QED BY <1>1, <1>6, <1>7, <1>8, <1>9, HandoverStep

\* What holds of the entries in every reachable state.
EntryInv == ExitInv /\ DnsInv /\ RetireInv /\ PlacedInv

LEMMA InitEntries == Init => EntryInv
  <1> SUFFICES ASSUME Init PROVE EntryInv
    OBVIOUS
  <1>1. ExitInv
    BY Names DEF Init, ExitInv
  <1>2. DnsInv
    BY Names DEF Init, DnsInv, Unresolved
  <1>3. \A w \in Workers : ~Retired(w)
    BY Names DEF Init, Retired, Noticing
  <1>4. PlacedInv
    BY Names DEF Init, PlacedInv, Items
  <1> QED BY <1>1, <1>2, <1>3, <1>4 DEF EntryInv, RetireInv

LEMMA StepEntries ==
  ASSUME Inv, TalkInv, EntryInv, [Next]_vars
  PROVE  EntryInv'
  BY ExitStep, DnsStep, EntriesStep DEF Inv, TalkInv, EntryInv

LEMMA EntryInvariance == Spec => []EntryInv
  <1>1. Inv /\ TalkInv /\ EntryInv /\ [Next]_vars => EntryInv'
    BY StepEntries
  <1> QED BY InitEntries, Invariance, TalkInvariance, <1>1, PTL DEF Spec

\* When PDNS_lookup() returns before its time limit, every entry has its final
\* flags and every worker has ended and been joined.
THEOREM AllLookedUp == Spec => []CompleteUnlessTimedOut
  <1>1. Inv /\ TalkInv /\ EntryInv => CompleteUnlessTimedOut
    <2> SUFFICES ASSUME Inv, TalkInv, EntryInv, pc[Mgr] = "returned", "EXIT" \notin flags
                 PROVE  /\ \A e \in Items : dns[e] \notin {{}, {"REV"}}
                        /\ \A w \in Workers : joined[w] /\ pc[w] = "done"
      BY DEF CompleteUnlessTimedOut
    <2>1. Alive
      BY DEF Alive
    <2>2. \A w \in Workers : joined[w] /\ pc[w] = "done"
      BY <2>1 DEF EntryInv, ExitInv, AllJoined, TalkInv, JoinInv, NoticeInv
    <2>3. processed = NItems /\ \A w \in Workers : Entries(w) = {}
      <3>1. 0 \in Workers
        BY Names DEF Workers
      <3>2. \A w \in Workers : Retired(w)
        BY <2>2 DEF Retired
      <3> QED BY <2>1, <3>1, <3>2 DEF EntryInv, RetireInv
    <2>4. \A e \in Items : IsDone(e)
      <3>1. \A e \in Items : e < processed
        BY <2>3, Names DEF Items
      <3> QED BY <2>1, <2>3, <3>1 DEF EntryInv, PlacedInv
    <2>5. \A e \in Items : ~Unresolved(e)
      BY <2>4, DoneIsResolved DEF EntryInv
    <2> QED BY <2>2, <2>5 DEF Unresolved
  <1> QED BY <1>1, Invariance, TalkInvariance, EntryInvariance, PTL

---------------------------------------------------------------------------
(* Refinement of LookupProgress.                                           *)

\* The workers that look an entry up: none, or one.
Lookers(e) == {w \in Workers : pc[w] = "lookup" /\ task[w] = e}
Count == [e \in Items |-> Cardinality(Lookers(e))]

LEMMA LookersCount ==
  ASSUME Inv, NEW e \in Items
  PROVE  /\ Lookers(e) = {} => Count[e] = 0
         /\ \A w \in Lookers(e) : Lookers(e) = {w} /\ Count[e] = 1
  <1>1. \A w \in Lookers(e) : e \in Entries(w)
    BY Names DEF Lookers, Entries, InHand, Serving
  <1>2. \A v, w \in Lookers(e) : v = w
    BY <1>1 DEF Lookers, Inv, OneTaskEach
  <1>3. ASSUME NEW w \in Lookers(e) PROVE Lookers(e) = {w} /\ Cardinality(Lookers(e)) = 1
    <2>1. Lookers(e) = {w}
      BY <1>2, <1>3
    <2> QED BY <2>1, FS_Singleton
  <1>4. Lookers(e) = {} => Cardinality(Lookers(e)) = 0
    BY FS_EmptySet
  <1> QED BY <1>3, <1>4 DEF Count

\* When the same workers look up the same entries, nothing is seen of the step.
LEMMA LookersKept ==
  ASSUME \A w \in Workers : /\ pc'[w] = "lookup" <=> pc[w] = "lookup"
                            /\ pc[w] = "lookup" => task'[w] = task[w]
  PROVE  Count' = Count
  <1>1. \A e \in Items : Lookers(e)' = Lookers(e)
    BY DEF Lookers
  <1> QED BY <1>1 DEF Count

\* The process ends.
LEMMA AbortSeen ==
  ASSUME \A w \in Workers : pc'[w] # "lookup"
  PROVE  Count' = [e \in Items |-> 0]
  <1>1. \A e \in Items : Lookers(e)' = {}
    BY DEF Lookers
  <1> QED BY <1>1, FS_EmptySet DEF Count

\* What is admitted and not begun.
Adm == [w \in Workers |-> Admitted(w)]

LEMMA AdmKept ==
  ASSUME \A w \in Workers : Admitted(w)' = Admitted(w)
  PROVE  Adm' = Adm
  BY DEF Adm

\* An entry is handed to a worker that is not about to look in its inbox: one that
\* is has a task in its hands or in its inbox.
LEMMA HandedElsewhere ==
  ASSUME Inv, Dispatch \/ MgrNext \/ MgrForward
  PROVE  \E w \in Workers : pc[w] # "extract" /\ \E e, ret : Assign(w, e, ret)
  <1>1. ASSUME NEW w \in Workers, winbox[w] = <<>>, InHand(w) = {}
        PROVE  pc[w] # "extract"
    <2>1. ~Prompted(w)
      BY <1>1 DEF Inv, PromptInv
    <2> QED BY <1>1, <2>1 DEF Prompted, InHand, Serving
  <1>2. CASE Dispatch
    <2>1. PICK w \in Workers : w = processed
      BY <1>2, Names DEF Inv, TypeOK, Dispatch, Workers
    <2>2. Entries(w) = {}
      BY <1>2, <2>1, Names DEF Inv, Dispatch, EarlyInv, Early
    <2>3. winbox[w] = <<>> /\ InHand(w) = {}
      BY <2>2, NoEntries DEF Inv
    <2> QED BY <1>1, <1>2, <2>1, <2>3 DEF Dispatch
  <1>3. CASE MgrNext \/ MgrForward
    <2>1. Extracted /\ \E e : Assign(Head(inbox).w, e, "inbox")
      BY <1>3 DEF MgrNext, MgrForward
    <2>2. PICK w \in Workers : w = Head(inbox).w /\ 1 \in Reports(w)
      BY <2>1, HeadOfInbox DEF Inv, Extracted, Reports
    <2>3. winbox[w] = <<>> /\ InHand(w) = {}
      BY <2>2 DEF Inv, OneTaskEach
    <2> QED BY <1>1, <2>1, <2>2, <2>3
  <1> QED BY <1>2, <1>3

\* A worker passes the test of EXIT_FLG: when its inbox has an entry, it is one that
\* nobody looks up or may begin to, and for which a lookup is due.
LEMMA TestSeen ==
  ASSUME Inv, DnsInv, Alive, NEW w \in Workers, WorkerTest(w)
  PROVE  /\ UNCHANGED <<dns, flags>> /\ Alive' = Alive /\ Count' = Count
         /\ \/ Adm' = Adm
            \/ /\ "EXIT" \notin flags /\ Adm[w] = None
               /\ \E e \in Items : /\ Unresolved(e) /\ Count[e] = 0
                                   /\ \A v \in Workers : Adm[v] # e
                                   /\ Adm' = [Adm EXCEPT ![w] = e]
  <1>1. /\ UNCHANGED <<dns, flags, winbox, task>> /\ pc'[Mgr] = pc[Mgr]
        /\ \A v \in Workers : v # w => pc'[v] = pc[v]
        /\ pc[w] = "check" /\ pc'[w] = IF "EXIT" \notin flags THEN "extract" ELSE "post"
    BY Names DEF Inv, TypeOK, WorkerTest, MayGoOn, At, taskVars, timeVars
  <1>2. Count' = Count /\ Alive' = Alive
    BY <1>1, LookersKept DEF Alive
  <1>3. \A v \in Workers : v # w => Admitted(v)' = Admitted(v)
    BY <1>1 DEF Admitted
  <1>4. Admitted(w) = None
    BY <1>1 DEF Admitted
  <1>5. CASE "EXIT" \in flags \/ winbox[w] = <<>>
    <2>1. Admitted(w)' = None
      BY <1>1, <1>5 DEF Admitted
    <2>2. Adm' = Adm
      BY <1>3, <1>4, <2>1, AdmKept
    <2> QED BY <1>1, <1>2, <2>2
  <1>6. CASE "EXIT" \notin flags /\ winbox[w] # <<>>
    <2>1. winbox[w] \in Seq(Items)
      BY DEF Inv, TypeOK
    <2>2. PICK e \in Items : e = Head(winbox[w]) /\ e = winbox[w][1] /\ 1 \in 1 .. Len(winbox[w])
      BY <1>6, <2>1, HeadTail
    <2>3. Unresolved(e)
      BY <2>2 DEF DnsInv
    <2>4. e \in Entries(w)
      BY <2>2 DEF Entries
    <2>5. Lookers(e) = {}
      <3>1. ASSUME NEW v \in Lookers(e) PROVE FALSE
        <4>1. e \in Entries(v) /\ v # w
          BY <1>1, <3>1, Names DEF Lookers, Entries, InHand, Serving
        <4> QED BY <2>4, <3>1, <4>1 DEF Lookers, Inv, OneTaskEach
      <3> QED BY <3>1
    <2>6. ASSUME NEW v \in Workers PROVE Admitted(v) # e
      <3>1. CASE v = w
        BY <1>4, <3>1, Names
      <3>2. CASE v # w
        <4>1. e \notin Entries(v)
          BY <2>4, <3>2 DEF Inv, OneTaskEach
        <4>2. ASSUME winbox[v] # <<>> PROVE Head(winbox[v]) \in Entries(v)
          <5>1. winbox[v] \in Seq(Items)
            BY DEF Inv, TypeOK
          <5>2. Head(winbox[v]) = winbox[v][1] /\ 1 \in 1 .. Len(winbox[v])
            BY <4>2, <5>1, HeadTail
          <5> QED BY <5>2 DEF Entries
        <4> QED BY <4>1, <4>2, Names DEF Admitted
      <3> QED BY <3>1, <3>2
    <2>7. Admitted(w)' = e
      BY <1>1, <1>6, <2>2 DEF Admitted
    <2>8. Adm' = [Adm EXCEPT ![w] = e]
      BY <1>3, <2>7 DEF Adm
    <2>9. Count[e] = 0
      BY <2>5, LookersCount
    <2>10. Adm[w] = None /\ \A v \in Workers : Adm[v] # e
      BY <1>4, <2>6 DEF Adm
    <2> QED BY <1>1, <1>2, <1>6, <2>3, <2>8, <2>9, <2>10
  <1> QED BY <1>5, <1>6

\* A worker begins to look up the entry it was admitted to: nobody looks it up, and a
\* lookup is due for it.
LEMMA TakeSeen ==
  ASSUME Inv, DnsInv, Alive, NEW w \in Workers, WorkerTake(w)
  PROVE  \E e \in Items : /\ Unresolved(e) /\ Count[e] = 0 /\ Adm[w] = e
                          /\ Count' = [Count EXCEPT ![e] = 1]
                          /\ Adm' = [Adm EXCEPT ![w] = None]
  <1>1. /\ winbox[w] # <<>> /\ winbox[w] \in Seq(Items) /\ task'[w] = Head(winbox[w])
        /\ \A v \in Workers : v # w => /\ pc'[v] = pc[v] /\ task'[v] = task[v]
                                       /\ winbox'[v] = winbox[v]
        /\ pc[w] = "extract" /\ pc'[w] = "lookup"
    BY Names DEF Inv, TypeOK, WorkerTake, At
  <1>2. PICK e \in Items : e = task'[w] /\ e = winbox[w][1] /\ 1 \in 1 .. Len(winbox[w])
    BY <1>1, HeadTail
  <1>3. Unresolved(e)
    BY <1>2 DEF DnsInv
  <1>4. e \in Entries(w)
    BY <1>2 DEF Entries
  <1>5. Lookers(e) = {}
    <2>1. ASSUME NEW v \in Lookers(e) PROVE FALSE
      <3>1. e \in Entries(v) /\ v # w
        BY <1>1, <2>1, Names DEF Lookers, Entries, InHand, Serving
      <3> QED BY <1>4, <2>1, <3>1 DEF Lookers, Inv, OneTaskEach
    <2> QED BY <2>1
  <1>6. Lookers(e)' = {w} /\ \A d \in Items : d # e => Lookers(d)' = Lookers(d)
    BY <1>1, <1>2, <1>5 DEF Lookers
  <1>7. Count[e] = 0
    BY <1>5, LookersCount
  <1>8. Count'[e] = 1
    BY <1>6, FS_Singleton DEF Count
  <1>9. \A d \in Items : d # e => Count'[d] = Count[d]
    BY <1>6 DEF Count
  <1>10. Count' = [Count EXCEPT ![e] = 1]
    BY <1>8, <1>9 DEF Count
  <1>11. /\ Admitted(w) = e /\ Admitted(w)' = None
         /\ \A v \in Workers : v # w => Admitted(v)' = Admitted(v)
    <2>1. Head(winbox[w]) = e
      BY <1>1, <1>2
    <2> QED BY <1>1, <2>1 DEF Admitted
  <1>12. Adm[w] = e /\ Adm' = [Adm EXCEPT ![w] = None]
    BY <1>11 DEF Adm
  <1> QED BY <1>3, <1>7, <1>10, <1>12

\* A worker ends the lookup of its entry.
LEMMA LookedSeen ==
  ASSUME Inv, NEW w \in Workers, NEW f \in Items, f = task[w], Reverse(w) \/ Forward(w)
  PROVE  Count[f] = 1 /\ Count' = [Count EXCEPT ![f] = 0]
  <1>1. /\ \A v \in Workers : v # w => pc'[v] = pc[v]
        /\ pc[w] = "lookup" /\ pc'[w] # "lookup" /\ task' = task
    BY LookedPc, Names DEF Inv
  <1>2. w \in Lookers(f)
    BY <1>1 DEF Lookers
  <1>3. Lookers(f) = {w} /\ Count[f] = 1
    BY <1>2, LookersCount
  <1>4. Lookers(f)' = {}
    BY <1>1, <1>3 DEF Lookers
  <1>5. \A d \in Items : d # f => Lookers(d)' = Lookers(d)
    BY <1>1 DEF Lookers
  <1>6. Count' = [Count EXCEPT ![f] = 0]
    BY <1>4, <1>5, FS_EmptySet DEF Count
  <1> QED BY <1>3, <1>6

\* Every step of the lookups is one that LookupProgress allows.
LEMMA ProgressStep ==
  ASSUME Inv, TalkInv, EntryInv, [Next]_vars
  PROVE  [Progress!ProgressNext]_(Progress!progressVars)
  <1> DEFINE Unseen == /\ UNCHANGED <<dns, Count, Adm>> /\ Alive' = Alive
                       /\ ("EXIT" \in flags') = ("EXIT" \in flags)
  <1>1. ASSUME Unseen PROVE UNCHANGED Progress!progressVars
    BY <1>1 DEF Progress!progressVars, Count, Lookers, Adm, Admitted, Alive
  <1>2. ASSUME ~Alive', \A w \in Workers : pc'[w] \notin {"extract", "lookup"},
               UNCHANGED <<dns, flags>>
        PROVE  Progress!Abort
    <2>1. Count' = [e \in Items |-> 0]
      BY <1>2, AbortSeen
    <2>2. Adm' = [w \in Workers |-> None]
      BY <1>2 DEF Adm, Admitted
    <2> QED BY <1>2, <2>1, <2>2 DEF Progress!Abort, Count, Lookers, Adm, Admitted, Alive
  <1>3. CASE ~Alive
    <2>1. UNCHANGED <<pc, task, dns, flags, winbox>>
      BY <1>3, DeadStep DEF Inv, TalkInv, vars, esVars, taskVars, timeVars
    <2>2. Unseen
      BY <2>1, LookersKept, AdmKept DEF Alive, Admitted
    <2> QED BY <1>1, <2>2
  <1>4. CASE Idle
    <2>1. Unseen
      BY <1>4, LookersKept, AdmKept DEF Idle
    <2> QED BY <1>1, <2>1
  <1>5. CASE Dying
    BY <1>2, <1>5 DEF Dying, Progress!ProgressNext
  <1>6. CASE Handles /\ Alive
    <2>1. ASSUME NEW w \in Workers, NEW e, NEW ret, Assign(w, e, ret), pc[w] # "extract",
                 UNCHANGED <<dns, flags, task>>
          PROVE  [Progress!ProgressNext]_(Progress!progressVars)
      <3>1. CASE Alive'
        <4>1. \A v \in Workers : pc'[v] = pc[v] /\ (v # w => winbox'[v] = winbox[v])
          BY <2>1, <3>1, Names DEF Inv, TypeOK, Assign, At, Aborted, Alive
        <4>2. \A v \in Workers : Admitted(v)' = Admitted(v)
          BY <2>1, <4>1 DEF Admitted
        <4>3. Unseen
          BY <1>6, <2>1, <3>1, <4>1, <4>2, LookersKept, AdmKept
        <4> QED BY <1>1, <4>3
      <3>2. CASE ~Alive'
        <4>1. \A v \in Workers : pc'[v] \notin {"extract", "lookup"}
          BY <2>1, <3>2, Names DEF Inv, TypeOK, Assign, At, Aborted, Alive
        <4> QED BY <1>2, <2>1, <3>2, <4>1 DEF Progress!ProgressNext
      <3> QED BY <3>1, <3>2
    <2>2. CASE Dispatch \/ MgrNext \/ MgrForward
      <3>1. UNCHANGED <<dns, flags, task>>
        BY <2>2 DEF Dispatch, MgrNext, MgrForward, timeVars
      <3> QED BY <2>1, <2>2, <3>1, HandedElsewhere
    <2>3. CASE MgrPrune
      <3>1. \A t \in Threads : pc'[t] = pc[t] \/ (pc[t] = "poll" /\ pc'[t] = "usr2")
        BY <2>3, RaisePc DEF MgrPrune, Inv, TypeOK
      <3>2. UNCHANGED <<task, dns, flags, winbox>>
        BY <2>3 DEF MgrPrune, timeVars
      <3>3. \A v \in Workers : Admitted(v)' = Admitted(v)
        BY <3>1, <3>2, Names DEF Admitted
      <3>4. Unseen
        BY <3>1, <3>2, <3>3, Names, LookersKept, AdmKept DEF Alive
      <3> QED BY <1>1, <3>4
    <2>4. CASE TimeoutF
      <3>1. \A v \in Workers : pc'[v] = pc[v]
        BY <2>4, Names DEF Inv, TypeOK, TimeoutF, At
      <3>2. /\ UNCHANGED <<task, dns, winbox>> /\ "EXIT" \in flags'
            /\ pc[Mgr] # "aborted" /\ pc'[Mgr] # "aborted"
        BY <2>4 DEF TimeoutF, taskVars, Inv, TypeOK, At
      <3>3. Count' = Count /\ Adm' = Adm
        BY <3>1, <3>2, LookersKept, AdmKept DEF Admitted
      <3>4. Progress!TimeOut
        BY <3>2, <3>3 DEF Progress!TimeOut, Count, Lookers, Adm, Admitted
      <3> QED BY <3>4 DEF Progress!ProgressNext
    <2>5. ASSUME NEW w \in Workers, WorkerTake(w) PROVE Progress!ProgressNext
      <3>1. PICK e \in Items : /\ Unresolved(e) /\ Count[e] = 0 /\ Adm[w] = e
                               /\ Count' = [Count EXCEPT ![e] = 1]
                               /\ Adm' = [Adm EXCEPT ![w] = None]
        BY <1>6, <2>5, TakeSeen DEF EntryInv
      <3>2. UNCHANGED <<dns, flags>> /\ pc'[Mgr] = pc[Mgr]
        BY <2>5, Names DEF Inv, TypeOK, WorkerTake, timeVars, At
      <3>3. Progress!Begin(w, e)
        BY <1>6, <3>1, <3>2
           DEF Progress!Begin, Progress!Unresolved, Unresolved, Count, Lookers, Adm, Admitted
      <3> QED BY <3>3 DEF Progress!ProgressNext
    <2>6. ASSUME NEW w \in Workers, Reverse(w) \/ Forward(w) PROVE Progress!ProgressNext
      <3>1. PICK f \in Items :
              /\ f = task[w]
              /\ \/ /\ dns[f] = {}
                    /\ \E o \in {{"REV"}, {"NXDOMAIN"}, {"SERVFAIL"}} : dns' = [dns EXCEPT ![f] = o]
                 \/ /\ dns[f] = {"REV"}
                    /\ \E o \in {{"FWD"}, {"FWD", "MISMATCH"}, {"FWD", "NONE"},
                                  {"FWD", "FAIL"}} :
                         dns' = [dns EXCEPT ![f] = @ \cup o]
        BY <1>6, <2>6, LookupResult DEF EntryInv
      <3>2. Count[f] = 1 /\ Count' = [Count EXCEPT ![f] = 0]
        BY <2>6, <3>1, LookedSeen
      <3>3. /\ pc'[Mgr] = pc[Mgr] /\ flags' = flags
            /\ \A v \in Workers : Admitted(v)' = Admitted(v)
        <4>1. /\ \A v \in Workers : v # w => pc'[v] = pc[v]
              /\ pc'[Mgr] = pc[Mgr] /\ pc[w] = "lookup" /\ pc'[w] \in {"check", "post"}
              /\ winbox' = winbox
          BY <2>6, LookedPc, Names DEF Inv
        <4>2. flags' = flags
          BY <2>6 DEF Reverse, Forward, Looked, timeVars
        <4> QED BY <4>1, <4>2 DEF Admitted
      <3>4. Adm' = Adm
        BY <3>3, AdmKept
      <3>5. Progress!Finish(f)
        BY <3>1, <3>2, <3>3, <3>4
           DEF Progress!Finish, Progress!ReverseOutcomes, Progress!ForwardOutcomes, Count,
               Lookers,
               Adm, Admitted
      <3> QED BY <3>5 DEF Progress!ProgressNext
    <2>7. ASSUME NEW w \in Workers, WorkerReport(w)
          PROVE  [Progress!ProgressNext]_(Progress!progressVars)
      <3>1. UNCHANGED <<dns, flags, winbox>> /\ pc[w] = "report"
            /\ \A v \in Workers : v # w => task'[v] = task[v]
        BY <2>7 DEF WorkerReport, timeVars, Inv, TypeOK
      <3>2. CASE Alive'
        <4>1. pc'[w] = "vsig" /\ \A v \in Workers : v # w => pc'[v] = pc[v]
          BY <2>7, <3>2, Names DEF Inv, TypeOK, WorkerReport, At, Aborted, Alive
        <4>2. Count' = Count /\ Adm' = Adm
          BY <3>1, <4>1, LookersKept, AdmKept DEF Admitted
        <4> QED BY <1>1, <1>6, <3>1, <3>2, <4>2
      <3>3. CASE ~Alive'
        <4>1. \A v \in Workers : pc'[v] \notin {"extract", "lookup"}
          BY <1>6, <2>7, <3>3, Names DEF Inv, TypeOK, WorkerReport, At, Aborted, Alive
        <4> QED BY <1>2, <3>1, <3>3, <4>1 DEF Progress!ProgressNext
      <3> QED BY <3>2, <3>3
    <2>8. ASSUME NEW w \in Workers, WorkerLeave(w) PROVE UNCHANGED Progress!progressVars
      <3>1. /\ UNCHANGED <<dns, flags, winbox>> /\ pc[w] = "post" /\ pc'[w] = "exiting"
            /\ pc'[Mgr] = pc[Mgr]
            /\ \A v \in Workers : v # w => pc'[v] = pc[v] /\ task'[v] = task[v]
        BY <2>8, Names DEF WorkerLeave, timeVars, Inv, TypeOK, At
      <3>2. Count' = Count /\ Adm' = Adm
        BY <3>1, LookersKept, AdmKept DEF Admitted
      <3> QED BY <1>1, <3>1, <3>2 DEF Alive
    <2>9. ASSUME NEW w \in Workers, WorkerTest(w)
          PROVE  [Progress!ProgressNext]_(Progress!progressVars)
      <3>1. UNCHANGED <<dns, flags>> /\ Alive' = Alive /\ Count' = Count
        BY <1>6, <2>9, TestSeen DEF EntryInv
      <3>2. CASE Adm' = Adm
        BY <1>1, <3>1, <3>2
      <3>3. CASE Adm' # Adm
        <4>1. "EXIT" \notin flags /\ Adm[w] = None
          BY <1>6, <2>9, <3>3, TestSeen DEF EntryInv
        <4>2. PICK e \in Items : /\ Unresolved(e) /\ Count[e] = 0
                                 /\ \A v \in Workers : Adm[v] # e
                                 /\ Adm' = [Adm EXCEPT ![w] = e]
          BY <1>6, <2>9, <3>3, TestSeen DEF EntryInv
        <4>3. Progress!Admit(w, e)
          BY <1>6, <3>1, <4>1, <4>2
             DEF Progress!Admit, Progress!Unresolved, Unresolved, Count, Lookers, Adm,
                 Admitted,
                 Alive
        <4> QED BY <4>3 DEF Progress!ProgressNext
      <3> QED BY <3>2, <3>3
    <2> QED BY <1>6, <2>2, <2>3, <2>4, <2>5, <2>6, <2>7, <2>8, <2>9 DEF Handles, Handling
  <1> QED BY <1>3, <1>4, <1>5, <1>6, IdleStep DEF Inv, TalkInv, EntryInv

\* PDNS_lookup() implements LookupProgress: each entry is looked up by one worker
\* at a time, in reverse and then forward, each once, and its flags record the outcome
\* and are final once done.  After the time limit a worker begins a lookup only when it
\* had tested EXIT_FLG before the limit and had not yet looked in its inbox: at most one
\* more lookup for each worker.
THEOREM LookupsImplementProgress == Spec => ImplementsProgress
  <1>1. Init => Progress!ProgressInit
    <2> SUFFICES ASSUME Init PROVE Progress!ProgressInit
      OBVIOUS
    <2>1. \A e \in Items : {w \in Workers : pc[w] = "lookup" /\ task[w] = e} = {}
      BY Names DEF Init
    <2>2. dns = [e \in Items |-> {}] /\ flags = {} /\ pc[Mgr] = "spawn"
      BY Names DEF Init
    <2>3. \A e \in Items : Cardinality({w \in Workers : pc[w] = "lookup" /\ task[w] = e}) = 0
      BY <2>1, FS_EmptySet
    <2>4. \A w \in Workers : pc[w] # "extract"
      BY Names DEF Init
    <2> QED BY <2>2, <2>3, <2>4 DEF Progress!ProgressInit
  <1>2. Inv /\ TalkInv /\ EntryInv /\ [Next]_vars
          => [Progress!ProgressNext]_(Progress!progressVars)
    BY ProgressStep
  <1> QED BY <1>1, <1>2, Invariance, TalkInvariance, EntryInvariance, PTL
          DEF Spec, ImplementsProgress, Progress!ProgressSpec

---------------------------------------------------------------------------
(* The queues suffice.                                                     *)

\* A worker that will queue a virtual signal for the manager, or is about to; one
\* that has left ES_run() and asked, or is asking, to be joined.
Owes(w) ==
  pc[w] = "vsig" \/ (pc[w] \in {"check", "extract", "post", "report"} /\ task[w] # None)
Gone(w) == pc[w] \in {"cleanup", "done"} \/ Noticing(w)

\* Every virtual signal queued for the manager, or owed to it, is paid for by a
\* lookup that was made, at most two for each entry, or by a worker that has gone.
Owing == {w \in Workers : Owes(w)}
Begun == {e \in Items : dns[e] # {}}
Ended == {e \in Items : ~Unresolved(e)}
Leavers == {w \in Workers : Gone(w)}
CountInv ==
  Alive => Len(mq[Mgr]) + Cardinality(Owing)
             <= Cardinality(Begun) + Cardinality(Ended) + Cardinality(Leavers)

\* The steps that make a lookup, ask to be joined or queue a virtual signal.
Counted(w) == Reverse(w) \/ Forward(w) \/ WorkerExit(w) \/ (VSignalSubmit(w) /\ Keep)
Pays == \E w \in Workers : Counted(w)

\* What all other steps have in common.
Level ==
  /\ Len(mq'[Mgr]) <= Len(mq[Mgr]) /\ dns' = dns
  /\ \A w \in Workers : (Owes(w)' => Owes(w)) /\ (Gone(w) => Gone(w)')

\* A step is one of those, or pays for what it owes, or ends the process.
LEMMA LevelStep ==
  ASSUME TypeOK, CallInv, SpawnInv, HoldInv, AliveInv, NoUninitialisedReport, [Next]_vars
  PROVE  ~Alive' \/ Level \/ Pays
  <1>1. CASE Spawn
    <2>1. \A w \in Workers : pc'[w] = pc[w] \/ (pc[w] = "unborn" /\ pc'[w] = "starting")
      <3>1. spawned \in Workers /\ pc[spawned] = "unborn" /\ pc[Mgr] = "spawn"
        BY <1>1, Names DEF TypeOK, Spawn, SpawnInv, Workers
      <3> QED BY <1>1, <3>1, Names DEF TypeOK, Spawn
    <2>2. UNCHANGED <<mq, call, task, dns>> /\ Len(mq[Mgr]) \in Nat
      BY <1>1, Names DEF Spawn, taskVars, TypeOK
    <2> QED BY <2>1, <2>2 DEF Level, Owes, Gone, Noticing
  <1>2. CASE SpawnDone
    BY <1>2, Names
       DEF TypeOK, At, CallInv, HoldInv, AliveInv, MgrPcs, NoUninitialisedReport, VSignalTo,
           Level, Alive, Owes, Gone, Noticing, mgrVars, taskVars, SpawnDone
  <1>3. CASE Dispatch
    BY <1>3, Names
       DEF TypeOK, At, CallInv, HoldInv, AliveInv, MgrPcs, NoUninitialisedReport, VSignalTo,
           Level, Alive, Owes, Gone, Noticing, mgrVars, taskVars, Dispatch, Assign, Aborted,
           VSignalTo
  <1>4. CASE DispatchDone
    BY <1>4, Names
       DEF TypeOK, At, CallInv, HoldInv, AliveInv, MgrPcs, NoUninitialisedReport, VSignalTo,
           Level, Alive, Owes, Gone, Noticing, mgrVars, taskVars, DispatchDone
  <1>5. CASE MgrCheckInbox
    BY <1>5, Names
       DEF TypeOK, At, CallInv, HoldInv, AliveInv, MgrPcs, NoUninitialisedReport, VSignalTo,
           Level, Alive, Owes, Gone, Noticing, mgrVars, taskVars, MgrCheckInbox, Drain
  <1>6. CASE MgrInboxEmpty
    BY <1>6, Names
       DEF TypeOK, At, CallInv, HoldInv, AliveInv, MgrPcs, NoUninitialisedReport, VSignalTo,
           Level, Alive, Owes, Gone, Noticing, mgrVars, taskVars, MgrInboxEmpty
  <1>7. CASE MgrPrune
    BY <1>7, Names
       DEF TypeOK, At, CallInv, HoldInv, AliveInv, MgrPcs, NoUninitialisedReport, VSignalTo,
           Level, Alive, Owes, Gone, Noticing, mgrVars, taskVars, MgrPrune, Extracted, Raise,
           Woken
  <1>8. CASE MgrNext
    BY <1>8, Names
       DEF TypeOK, At, CallInv, HoldInv, AliveInv, MgrPcs, NoUninitialisedReport, VSignalTo,
           Level, Alive, Owes, Gone, Noticing, mgrVars, taskVars, MgrNext, Extracted, Assign,
           Aborted, VSignalTo
  <1>9. CASE MgrForward
    BY <1>9, Names
       DEF TypeOK, At, CallInv, HoldInv, AliveInv, MgrPcs, NoUninitialisedReport, VSignalTo,
           Level, Alive, Owes, Gone, Noticing, mgrVars, taskVars, MgrForward, Extracted,
           Assign,
           Aborted, VSignalTo
  <1>10. ASSUME NEW w \in Workers, MgrJoin(w) PROVE ~Alive' \/ Level \/ Pays
    BY <1>10, Names
       DEF TypeOK, At, CallInv, HoldInv, AliveInv, MgrPcs, NoUninitialisedReport, VSignalTo,
           Level, Alive, Owes, Gone, Noticing, mgrVars, taskVars, MgrJoin, Drain
  <1>11. CASE MgrJoined
    BY <1>11, Names
       DEF TypeOK, At, CallInv, HoldInv, AliveInv, MgrPcs, NoUninitialisedReport, VSignalTo,
           Level, Alive, Owes, Gone, Noticing, mgrVars, taskVars, MgrJoined
  <1>12. CASE PollTimesOut
    BY <1>12, Names
       DEF TypeOK, At, CallInv, HoldInv, AliveInv, MgrPcs, NoUninitialisedReport, VSignalTo,
           Level, Alive, Owes, Gone, Noticing, mgrVars, taskVars, PollTimesOut
  <1>13. CASE NoTimerDue
    BY <1>13, Names
       DEF TypeOK, At, CallInv, HoldInv, AliveInv, MgrPcs, NoUninitialisedReport, VSignalTo,
           Level, Alive, Owes, Gone, Noticing, mgrVars, taskVars, NoTimerDue
  <1>14. CASE TimeoutF
    BY <1>14, Names
       DEF TypeOK, At, CallInv, HoldInv, AliveInv, MgrPcs, NoUninitialisedReport, VSignalTo,
           Level, Alive, Owes, Gone, Noticing, mgrVars, taskVars, TimeoutF
  <1>15. CASE StopWorker
    BY <1>15, Names
       DEF TypeOK, At, CallInv, HoldInv, AliveInv, MgrPcs, NoUninitialisedReport, VSignalTo,
           Level, Alive, Owes, Gone, Noticing, mgrVars, taskVars, StopWorker, Raise, Woken
  <1>16. CASE StopDone
    BY <1>16, Names
       DEF TypeOK, At, CallInv, HoldInv, AliveInv, MgrPcs, NoUninitialisedReport, VSignalTo,
           Level, Alive, Owes, Gone, Noticing, mgrVars, taskVars, StopDone,
           ShutdownAfterTimeout
  <1>17. CASE ShutdownF
    BY <1>17, Names
       DEF TypeOK, At, CallInv, HoldInv, AliveInv, MgrPcs, NoUninitialisedReport, VSignalTo,
           Level, Alive, Owes, Gone, Noticing, mgrVars, taskVars, ShutdownF
  <1>18. CASE PassUsr2(Mgr, "timers") /\ Keep
    BY <1>18, Names
       DEF TypeOK, At, CallInv, HoldInv, AliveInv, MgrPcs, NoUninitialisedReport, VSignalTo,
           Level, Alive, Owes, Gone, Noticing, mgrVars, taskVars, Keep, PassUsr2
  <1>19. ASSUME NEW w \in Workers, WorkerStart(w) PROVE ~Alive' \/ Level \/ Pays
    <2>1. \A v \in Workers : pc'[v] = pc[v] \/ (pc[v] = "starting" /\ pc'[v] = "run")
      BY <1>19, Names DEF TypeOK, WorkerStart, SpawnInv
    <2>2. UNCHANGED <<mq, call, task, dns>> /\ Len(mq[Mgr]) \in Nat
      BY <1>19, Names DEF WorkerStart, taskVars, TypeOK
    <2> QED BY <2>1, <2>2 DEF Level, Owes, Gone, Noticing
  <1>20. ASSUME NEW w \in Workers, WorkerTerm(w) PROVE ~Alive' \/ Level \/ Pays
    BY <1>20, Names
       DEF TypeOK, At, CallInv, HoldInv, AliveInv, MgrPcs, NoUninitialisedReport, VSignalTo,
           Level, Alive, Owes, Gone, Noticing, mgrVars, taskVars, WorkerTerm
  <1>21. ASSUME NEW w \in Workers, WorkerCheckInbox(w) PROVE ~Alive' \/ Level \/ Pays
    BY <1>21, Names
       DEF TypeOK, At, CallInv, HoldInv, AliveInv, MgrPcs, NoUninitialisedReport, VSignalTo,
           Level, Alive, Owes, Gone, Noticing, mgrVars, taskVars, WorkerCheckInbox, Drain
  <1>22. ASSUME NEW w \in Workers, WorkerTake(w) PROVE ~Alive' \/ Level \/ Pays
    BY <1>22, Names
       DEF TypeOK, At, CallInv, HoldInv, AliveInv, MgrPcs, NoUninitialisedReport, VSignalTo,
           Level, Alive, Owes, Gone, Noticing, mgrVars, taskVars, WorkerTake
  <1>23. ASSUME NEW w \in Workers, WorkerInboxEmpty(w) PROVE ~Alive' \/ Level \/ Pays
    BY <1>23, Names
       DEF TypeOK, At, CallInv, HoldInv, AliveInv, MgrPcs, NoUninitialisedReport, VSignalTo,
           Level, Alive, Owes, Gone, Noticing, mgrVars, taskVars, WorkerInboxEmpty
  <1>39. ASSUME NEW w \in Workers, WorkerTest(w) PROVE ~Alive' \/ Level \/ Pays
    BY <1>39, Names
       DEF TypeOK, At, CallInv, HoldInv, AliveInv, MgrPcs, NoUninitialisedReport, VSignalTo,
           Level, Alive, Owes, Gone, Noticing, mgrVars, taskVars, WorkerTest, MayGoOn
  <1>40. ASSUME NEW w \in Workers, WorkerFollowUp(w) PROVE ~Alive' \/ Level \/ Pays
    BY <1>40, Names
       DEF TypeOK, At, CallInv, HoldInv, AliveInv, MgrPcs, NoUninitialisedReport, VSignalTo,
           Level, Alive, Owes, Gone, Noticing, mgrVars, taskVars, WorkerFollowUp
  <1>24. ASSUME NEW w \in Workers, WorkerReport(w) PROVE ~Alive' \/ Level \/ Pays
    BY <1>24, Names
       DEF TypeOK, At, CallInv, HoldInv, AliveInv, MgrPcs, NoUninitialisedReport, VSignalTo,
           Level, Alive, Owes, Gone, Noticing, mgrVars, taskVars, WorkerReport, Aborted,
           VSignalTo
  <1>25. ASSUME NEW w \in Workers, WorkerLeave(w) PROVE ~Alive' \/ Level \/ Pays
    BY <1>25, Names
       DEF TypeOK, At, CallInv, HoldInv, AliveInv, MgrPcs, NoUninitialisedReport, VSignalTo,
           Level, Alive, Owes, Gone, Noticing, mgrVars, taskVars, WorkerLeave
  <1>26. ASSUME NEW w \in Workers, WorkerExit(w) PROVE ~Alive' \/ Level \/ Pays
    BY <1>26 DEF Counted, Pays
  <1>27. ASSUME NEW w \in Workers, PassUsr2(w, "term"), Keep PROVE ~Alive' \/ Level \/ Pays
    BY <1>27, Names
       DEF TypeOK, At, CallInv, HoldInv, AliveInv, MgrPcs, NoUninitialisedReport, VSignalTo,
           Level, Alive, Owes, Gone, Noticing, mgrVars, taskVars, Keep, PassUsr2
  <1>28. ASSUME NEW w \in Workers, Reverse(w) PROVE ~Alive' \/ Level \/ Pays
    BY <1>28 DEF Counted, Pays
  <1>29. ASSUME NEW w \in Workers, Forward(w) PROVE ~Alive' \/ Level \/ Pays
    BY <1>29 DEF Counted, Pays
  <1>30. ASSUME NEW w \in Workers, LookupFails(w) PROVE ~Alive' \/ Level \/ Pays
    BY <1>30, Names
       DEF TypeOK, At, CallInv, HoldInv, AliveInv, MgrPcs, NoUninitialisedReport, VSignalTo,
           Level, Alive, Owes, Gone, Noticing, mgrVars, taskVars, LookupFails, Aborted
  <1>31. ASSUME NEW t \in Threads, EnterPoll(t), Keep PROVE ~Alive' \/ Level \/ Pays
    BY <1>31, Names
       DEF TypeOK, At, CallInv, HoldInv, AliveInv, MgrPcs, NoUninitialisedReport, VSignalTo,
           Level, Alive, Owes, Gone, Noticing, mgrVars, taskVars, Keep, EnterPoll
  <1>32. ASSUME NEW t \in Threads, ServeUsr2(t), Keep PROVE ~Alive' \/ Level \/ Pays
    BY <1>32, Names
       DEF TypeOK, At, CallInv, HoldInv, AliveInv, MgrPcs, NoUninitialisedReport, VSignalTo,
           Level, Alive, Owes, Gone, Noticing, mgrVars, taskVars, Keep, ServeUsr2
  <1>33. ASSUME NEW t \in Threads, DrainEmpty(t), Keep PROVE ~Alive' \/ Level \/ Pays
    BY <1>33, Names
       DEF TypeOK, At, CallInv, HoldInv, AliveInv, MgrPcs, NoUninitialisedReport, VSignalTo,
           Level, Alive, Owes, Gone, Noticing, mgrVars, taskVars, Keep, DrainEmpty
  <1>34. ASSUME NEW t \in Threads, VSignalNotFound(t), Keep PROVE ~Alive' \/ Level \/ Pays
    BY <1>34, Names
       DEF TypeOK, At, CallInv, HoldInv, AliveInv, MgrPcs, NoUninitialisedReport, VSignalTo,
           Level, Alive, Owes, Gone, Noticing, mgrVars, taskVars, Keep, VSignalNotFound, NoCall
  <1>35. ASSUME NEW t \in Threads, VSignalSubmit(t), Keep PROVE ~Alive' \/ Level \/ Pays
    <2>1. CASE t \in Workers
      BY <1>35, <2>1 DEF Counted, Pays
    <2>2. CASE t = Mgr /\ Alive'
      <3>1. call[Mgr].to \in Workers
        BY <1>35, <2>2 DEF CallInv, VSignalSubmit
      <3>2. /\ UNCHANGED <<call, task, dns>> /\ mq'[Mgr] = mq[Mgr] /\ Len(mq[Mgr]) \in Nat
            /\ \A w \in Workers : pc'[w] = pc[w]
        BY <1>35, <2>2, <3>1, Names DEF TypeOK, VSignalSubmit, Keep, taskVars, At, Aborted,
           Alive
      <3> QED BY <3>2 DEF Level, Owes, Gone, Noticing
    <2> QED BY <2>1, <2>2, Names
  <1>36. ASSUME NEW t \in Threads, VSignalKill(t), Keep PROVE ~Alive' \/ Level \/ Pays
    BY <1>36, Names
       DEF TypeOK, At, CallInv, HoldInv, AliveInv, MgrPcs, NoUninitialisedReport, VSignalTo,
           Level, Alive, Owes, Gone, Noticing, mgrVars, taskVars, Keep, VSignalKill, Raise,
           Woken, NoCall
  <1>37. ASSUME NEW t \in Threads, Cleanup(t), Keep PROVE ~Alive' \/ Level \/ Pays
    BY <1>37, Names
       DEF TypeOK, At, CallInv, HoldInv, AliveInv, MgrPcs, NoUninitialisedReport, VSignalTo,
           Level, Alive, Owes, Gone, Noticing, mgrVars, taskVars, Keep, Cleanup
  <1>38. CASE UNCHANGED vars
    BY <1>38, Names
       DEF TypeOK, At, CallInv, HoldInv, AliveInv, MgrPcs, NoUninitialisedReport, VSignalTo,
           Level, Alive, Owes, Gone, Noticing, mgrVars, taskVars, vars, esVars
  <1> QED
    BY <1>1, <1>2, <1>3, <1>4, <1>5, <1>6, <1>7, <1>8, <1>9, <1>10, <1>11, <1>12, <1>13, <1>14,
       <1>15, <1>16, <1>17, <1>18, <1>19, <1>20, <1>21, <1>22, <1>23, <1>24, <1>25, <1>26,
       <1>27, <1>28, <1>29, <1>30, <1>31, <1>32, <1>33, <1>34, <1>35, <1>36, <1>37, <1>38,
       <1>39, <1>40
       DEF Next, MgrStep, WorkerStep, Resolve, Engine

\* The sets that are counted are finite.
LEMMA Finite ==
  /\ IsFiniteSet(Workers) /\ Cardinality(Workers) = NThreads
  /\ IsFiniteSet(Items) /\ Cardinality(Items) = NItems
  /\ \A S \in SUBSET Workers : /\ IsFiniteSet(S) /\ Cardinality(S) \in Nat
                               /\ Cardinality(S) <= NThreads
  /\ \A S \in SUBSET Items : /\ IsFiniteSet(S) /\ Cardinality(S) \in Nat
                             /\ Cardinality(S) <= NItems
  <1>1. IsFiniteSet(Workers) /\ Cardinality(Workers) = NThreads
    BY Names, FS_Interval DEF Workers
  <1>2. IsFiniteSet(Items) /\ Cardinality(Items) = NItems
    BY Names, FS_Interval DEF Items
  <1>3. \A S \in SUBSET Workers : IsFiniteSet(S) /\ Cardinality(S) <= NThreads
    BY <1>1, FS_Subset
  <1>4. \A S \in SUBSET Items : IsFiniteSet(S) /\ Cardinality(S) <= NItems
    BY <1>2, FS_Subset
  <1> QED BY <1>1, <1>2, <1>3, <1>4, FS_CardinalityType

\* A set that gains an element grows by one.
LEMMA OneMore ==
  ASSUME NEW S, NEW T, NEW x, IsFiniteSet(S), IsFiniteSet(T), x \notin S,
  S \cup {x} \subseteq T
  PROVE  Cardinality(S) + 1 <= Cardinality(T)
  <1>1. IsFiniteSet(S \cup {x}) /\ Cardinality(S \cup {x}) = Cardinality(S) + 1
    BY FS_AddElement
  <1>2. Cardinality(S \cup {x}) <= Cardinality(T)
    BY FS_Subset
  <1> QED BY <1>1, <1>2

LEMMA AtMostOneMore ==
  ASSUME NEW S, NEW T, NEW x, IsFiniteSet(S), T \subseteq S \cup {x}
  PROVE  Cardinality(T) <= Cardinality(S) + 1
  <1>1. /\ IsFiniteSet(S \cup {x})
        /\ Cardinality(S \cup {x}) = IF x \in S THEN Cardinality(S) ELSE Cardinality(S) + 1
    BY FS_AddElement
  <1>2. IsFiniteSet(T) /\ Cardinality(T) <= Cardinality(S \cup {x})
    BY <1>1, FS_Subset
  <1>3. Cardinality(S) \in Nat /\ Cardinality(T) \in Nat
    BY <1>2, FS_CardinalityType
  <1> QED BY <1>1, <1>2, <1>3

\* The sets that are counted, and how far they reach.
LEMMA Counts ==
  /\ IsFiniteSet(Owing) /\ Cardinality(Owing) \in Nat
  /\ IsFiniteSet(Begun) /\ Cardinality(Begun) \in Nat /\ Cardinality(Begun) <= NItems
  /\ IsFiniteSet(Ended) /\ Cardinality(Ended) \in Nat /\ Cardinality(Ended) <= NItems
  /\ IsFiniteSet(Leavers) /\ Cardinality(Leavers) \in Nat /\ Cardinality(Leavers) <= NThreads
  BY Finite DEF Owing, Begun, Ended, Leavers

LEMMA CountsNext ==
  /\ IsFiniteSet(Owing') /\ Cardinality(Owing') \in Nat
  /\ IsFiniteSet(Begun') /\ Cardinality(Begun') \in Nat
  /\ IsFiniteSet(Ended') /\ Cardinality(Ended') \in Nat
  /\ IsFiniteSet(Leavers') /\ Cardinality(Leavers') \in Nat
  BY Finite DEF Owing, Begun, Ended, Leavers

\* What is owed grows by one and so does what pays for it.
LEMMA Balance ==
  ASSUME NEW q \in Nat, NEW o \in Nat, NEW b \in Nat, NEW n \in Nat, NEW g \in Nat,
         NEW o1 \in Nat, NEW b1 \in Nat, NEW n1 \in Nat,
         q + o <= b + n + g, o1 <= o + 1, b <= b1, n <= n1, b + 1 <= b1 \/ n + 1 <= n1
  PROVE  q + o1 <= b1 + n1 + g
  OBVIOUS

\* A lookup pays for the report of its entry.
LEMMA LookupPays ==
  ASSUME Inv, DnsInv, CountInv, Alive, NEW w \in Workers, Reverse(w) \/ Forward(w)
  PROVE  CountInv'
  <1>1. /\ \A v \in Workers : v # w => pc'[v] = pc[v]
        /\ pc[w] = "lookup" /\ pc'[w] \in {"check", "post"} /\ UNCHANGED <<mq, call, task>>
    BY LookedPc, Names DEF Inv
  <1>2. PICK f \in Items :
          /\ f = task[w]
          /\ (dns[f] = {} /\ dns'[f] = {"REV"}) \/ (Unresolved(f) /\ Resolved(f)')
          /\ dns[f] \subseteq dns'[f] /\ \A e \in Items : e # f => dns'[e] = dns[e]
    BY LookupFlags
  <1>3. Cardinality(Owing') <= Cardinality(Owing) + 1
    <2>1. Owing' \subseteq Owing \cup {w}
      BY <1>1 DEF Owing, Owes
    <2> QED BY <2>1, Counts, AtMostOneMore
  <1>4. Cardinality(Leavers') = Cardinality(Leavers)
    <2>1. Leavers' = Leavers
      BY <1>1 DEF Leavers, Gone, Noticing
    <2> QED BY <2>1
  <1>5. Begun \subseteq Begun' /\ Ended \subseteq Ended'
    BY <1>2 DEF Begun, Ended, Unresolved, Resolved
  <1>6. Cardinality(Begun) <= Cardinality(Begun') /\ Cardinality(Ended) <= Cardinality(Ended')
    BY <1>5, CountsNext, FS_Subset
  <1>7. \/ Cardinality(Begun) + 1 <= Cardinality(Begun')
        \/ Cardinality(Ended) + 1 <= Cardinality(Ended')
    <2>1. CASE dns[f] = {} /\ dns'[f] = {"REV"}
      <3>1. f \notin Begun /\ Begun \cup {f} \subseteq Begun'
        BY <1>5, <2>1 DEF Begun
      <3> QED BY <3>1, Counts, CountsNext, OneMore
    <2>2. CASE Unresolved(f) /\ Resolved(f)'
      <3>1. f \notin Ended /\ Ended \cup {f} \subseteq Ended'
        BY <1>5, <2>2 DEF Ended, Unresolved, Resolved
      <3> QED BY <3>1, Counts, CountsNext, OneMore
    <2> QED BY <1>2, <2>1, <2>2
  <1>8. Len(mq'[Mgr]) = Len(mq[Mgr]) /\ Len(mq[Mgr]) \in Nat
    BY <1>1, Names DEF Inv, TypeOK
  <1>9. Len(mq[Mgr]) + Cardinality(Owing)
          <= Cardinality(Begun) + Cardinality(Ended) + Cardinality(Leavers)
    BY DEF CountInv
  <1>10. Len(mq'[Mgr]) + Cardinality(Owing')
           <= Cardinality(Begun') + Cardinality(Ended') + Cardinality(Leavers')
    <2>1. /\ Cardinality(Owing) \in Nat /\ Cardinality(Begun) \in Nat
          /\ Cardinality(Ended) \in Nat /\ Cardinality(Leavers) \in Nat
      BY Counts
    <2>2. /\ Cardinality(Owing') \in Nat /\ Cardinality(Begun') \in Nat
          /\ Cardinality(Ended') \in Nat
      BY CountsNext
    <2>3. Len(mq[Mgr]) + Cardinality(Owing')
            <= Cardinality(Begun') + Cardinality(Ended') + Cardinality(Leavers)
      BY <1>3, <1>6, <1>7, <1>8, <1>9, <2>1, <2>2, Balance
    <2> QED BY <1>4, <1>8, <2>3
  <1> QED BY <1>10 DEF CountInv

\* A worker that goes pays for its request to be joined.
LEMMA ExitPays ==
  ASSUME Inv, CountInv, Alive, NEW w \in Workers, WorkerExit(w)
  PROVE  CountInv'
  <1>1. /\ \A v \in Workers : v # w => pc'[v] = pc[v] /\ call'[v] = call[v]
        /\ pc[w] = "exiting" /\ UNCHANGED <<mq, task, dns>>
        /\ pc'[w] = "cleanup" \/ (pc'[w] = "vsig" /\ call'[w] = VSignalTo(Mgr, w, "cleanup"))
    <2>1. pc[w] = "exiting" /\ UNCHANGED <<mq, task, dns>>
      BY DEF WorkerExit, taskVars
    <2>2. /\ \A t \in Threads : t # w => pc'[t] = pc[t] /\ call'[t] = call[t]
          /\ \/ pc'[w] \in {"exiting", "run", "cleanup"}
             \/ pc'[w] = "vsig" /\ call'[w] = VSignalTo(Mgr, w, "cleanup")
      BY EndingPc DEF Inv
    <2>3. pc'[w] \in {"cleanup", "vsig"}
      BY Names DEF WorkerExit, At, Inv, TypeOK
    <2> QED BY <2>1, <2>2, <2>3, Names
  <1>2. Owing' \subseteq Owing \cup {w}
    BY <1>1 DEF Owing, Owes
  <1>3. w \notin Leavers /\ Leavers \cup {w} \subseteq Leavers'
    BY <1>1 DEF Leavers, Gone, Noticing, VSignalTo
  <1>4. Cardinality(Leavers) + 1 <= Cardinality(Leavers')
    BY <1>3, Counts, CountsNext, OneMore
  <1>5. Cardinality(Owing') <= Cardinality(Owing) + 1
    BY <1>2, Counts, AtMostOneMore
  <1>6. Begun' = Begun /\ Ended' = Ended
    BY <1>1 DEF Begun, Ended, Unresolved
  <1>7. Len(mq'[Mgr]) = Len(mq[Mgr]) /\ Len(mq[Mgr]) \in Nat
    BY <1>1, Names DEF Inv, TypeOK
  <1> QED BY <1>4, <1>5, <1>6, <1>7, Counts, CountsNext DEF CountInv

\* A worker queues what it owes.
LEMMA SubmitPays ==
  ASSUME Inv, CountInv, Alive, Alive', NEW w \in Workers, VSignalSubmit(w), Keep
  PROVE  CountInv'
  <1>1. /\ \A v \in Workers : v # w => pc'[v] = pc[v]
        /\ pc[w] = "vsig" /\ pc'[w] = "kill" /\ UNCHANGED <<call, task, dns>>
        /\ mq'[Mgr] = Append(mq[Mgr], call[w].vsig)
    BY Names
       DEF Inv, TypeOK, CallInv, VSignalTo, VSignalSubmit, At, Aborted, Alive, Keep, taskVars
  <1>2. Len(mq'[Mgr]) = Len(mq[Mgr]) + 1 /\ Len(mq[Mgr]) \in Nat
    BY <1>1, Names DEF Inv, TypeOK
  <1>3. w \notin Owing' /\ Owing' \cup {w} \subseteq Owing
    BY <1>1 DEF Owing, Owes
  <1>4. Cardinality(Owing') + 1 <= Cardinality(Owing)
    BY <1>3, Counts, CountsNext, OneMore
  <1>5. Begun' = Begun /\ Ended' = Ended
    BY <1>1 DEF Begun, Ended, Unresolved
  <1>6. Cardinality(Leavers) <= Cardinality(Leavers')
    <2>1. Leavers \subseteq Leavers'
      BY <1>1 DEF Leavers, Gone, Noticing
    <2> QED BY <2>1, CountsNext, FS_Subset
  <1> QED BY <1>2, <1>4, <1>5, <1>6, Counts, CountsNext DEF CountInv

LEMMA CountStep ==
  ASSUME Inv, TalkInv, EntryInv, CountInv, [Next]_vars
  PROVE  CountInv'
  <1>1. CASE ~Alive'
    BY <1>1 DEF CountInv
  <1>2. CASE Alive' /\ ~Alive
    BY <1>2, DeadStep DEF Inv, TalkInv, Alive, vars, esVars
  <1>3. CASE Alive /\ Alive'
    <2>1. CASE Level
      <3>1. Owing' \subseteq Owing /\ Leavers \subseteq Leavers'
        BY <2>1 DEF Level, Owing, Leavers
      <3>2. Begun' = Begun /\ Ended' = Ended
        BY <2>1 DEF Level, Begun, Ended, Unresolved
      <3>3. /\ Cardinality(Owing') <= Cardinality(Owing)
            /\ Cardinality(Leavers) <= Cardinality(Leavers')
        BY <3>1, Counts, CountsNext, FS_Subset
      <3>4. Len(mq'[Mgr]) <= Len(mq[Mgr]) /\ Len(mq[Mgr]) \in Nat /\ Len(mq'[Mgr]) \in Nat
        BY <2>1, StepInv, Names DEF Level, Inv, TypeOK
      <3> QED BY <1>3, <3>2, <3>3, <3>4, Counts, CountsNext DEF CountInv
    <2>2. CASE Pays
      BY <1>3, <2>2, LookupPays, ExitPays, SubmitPays DEF EntryInv, Pays, Counted
    <2> QED BY <1>3, <2>1, <2>2, LevelStep DEF Inv, TalkInv
  <1> QED BY <1>1, <1>2, <1>3

\* The manager's inbox holds at most one report of each worker.
LEMMA InboxBound ==
  ASSUME Inv
  PROVE  Len(inbox) \in Nat /\ Len(inbox) <= NThreads
  <1> DEFINE n == Len(inbox)
             from == [k \in 1 .. n |-> inbox[k].w]
  <1>1. n \in Nat /\ inbox \in Seq([e : Items, w : Workers])
    BY DEF Inv, TypeOK
  <1>2. \A k \in 1 .. n : inbox[k].w \in Workers
    <2>1. \A k \in 1 .. Len(inbox) : inbox[k] \in [e : Items, w : Workers]
      BY ElementOf DEF Inv, TypeOK
    <2> QED BY <1>1, <2>1
  <1>3. \A j, k \in 1 .. n : inbox[j].w = inbox[k].w => j = k
    BY <1>2 DEF Inv, OneTaskEach, Reports
  <1>4. from \in Injection(1 .. n, Workers)
    BY <1>2, <1>3 DEF Injection, IsInjective
  <1>5. Cardinality(1 .. n) <= Cardinality(Workers)
    BY <1>4, Finite, FS_Injection
  <1>6. Cardinality(1 .. n) = n
    <2> HIDE DEF n
    <2> QED BY <1>1, FS_Interval
  <1> QED BY <1>1, <1>5, <1>6, Finite

\* What the manager may have on its queue of virtual signals.
Need == 2 * NItems + NThreads
Room == Len(mq[Mgr]) <= Need

\* A worker that queues a virtual signal for the manager had owed it; the manager
\* queues none for itself.
LEMMA SignalRoom ==
  ASSUME Inv, CountInv, Room, Alive, NEW t \in Threads, VSignalSubmit(t)
  PROVE  Room'
  <1>1. CASE t \in Workers
    <2>1. call[t].to = Mgr /\ pc[t] = "vsig"
      BY <1>1 DEF Inv, CallInv, VSignalSubmit, VSignalTo
    <2>2. Cardinality(Owing) >= 1
      <3>1. t \in Owing
        BY <1>1, <2>1 DEF Owing, Owes
      <3>2. Cardinality(Owing) # 0
        BY <3>1, Counts, FS_EmptySet
      <3> QED BY <3>2, Counts
    <2>3. Len(mq[Mgr]) \in Nat /\ Len(mq'[Mgr]) = Len(mq[Mgr]) + 1
      BY <1>1, <2>1, Names DEF Inv, TypeOK, VSignalSubmit
    <2>4. Len(mq[Mgr]) + Cardinality(Owing)
            <= Cardinality(Begun) + Cardinality(Ended) + Cardinality(Leavers)
      BY DEF CountInv
    <2>5. Cardinality(Begun) + Cardinality(Ended) + Cardinality(Leavers) <= Need
      BY Counts, Names DEF Need
    <2> QED BY <2>2, <2>3, <2>4, <2>5, Counts, Names DEF Room, Need
  <1>2. CASE t = Mgr
    <2>1. call[Mgr].to \in Workers
      BY <1>2 DEF Inv, CallInv, VSignalSubmit
    <2>2. mq'[Mgr] = mq[Mgr]
      BY <1>2, <2>1, Names DEF Inv, TypeOK, VSignalSubmit
    <2> QED BY <2>2 DEF Room
  <1> QED BY <1>1, <1>2, Names

\* A step keeps the manager's queue within its bound, the step that ends the process
\* included.
LEMMA RoomStep ==
  ASSUME Inv, TalkInv, EntryInv, CountInv, Room, [Next]_vars
  PROVE  CountInv' /\ Room'
  <1>1. CountInv' /\ Inv'
    BY CountStep, StepInv
  <1>2. CASE Alive'
    <2>1. Len(mq'[Mgr]) \in Nat
      BY <1>1, Names DEF Inv, TypeOK
    <2>2. /\ Cardinality(Owing') \in Nat
          /\ Cardinality(Begun') \in Nat /\ Cardinality(Begun') <= NItems
          /\ Cardinality(Ended') \in Nat /\ Cardinality(Ended') <= NItems
          /\ Cardinality(Leavers') \in Nat /\ Cardinality(Leavers') <= NThreads
      BY Finite DEF Owing, Begun, Ended, Leavers
    <2>3. Len(mq'[Mgr]) + Cardinality(Owing')
            <= Cardinality(Begun') + Cardinality(Ended') + Cardinality(Leavers')
      BY <1>1, <1>2 DEF CountInv
    <2> QED BY <1>1, <2>1, <2>2, <2>3, Names DEF Room, Need
  <1>3. CASE ~Alive
    BY <1>1, <1>3, DeadStep DEF Inv, TalkInv, vars, esVars, Room
  <1>4. CASE Alive /\ ~Alive'
    <2>1. mq' = mq \/ \E t \in Threads : VSignalSubmit(t)
      <3>1. ASSUME NEW w \in Workers, WorkerReport(w) PROVE mq' = mq
        BY <3>1 DEF WorkerReport
      <3>2. ASSUME NEW w \in Workers, Handling(w) PROVE mq' = mq
        BY <3>2
           DEF Handling, WorkerTest, WorkerTake, Reverse, Forward, Looked, WorkerReport,
               WorkerLeave
      <3>3. Dispatch \/ MgrNext \/ MgrForward \/ MgrPrune \/ TimeoutF => mq' = mq
        BY DEF Dispatch, Assign, MgrNext, MgrForward, MgrPrune, TimeoutF, Raise
      <3>4. ~Idle
        BY <1>4 DEF Idle
      <3> QED BY <1>4, <3>1, <3>2, <3>3, <3>4, IdleStep
              DEF Inv, TalkInv, EntryInv, Dying, Handles
    <2> QED BY <1>1, <1>4, <2>1, SignalRoom DEF Room
  <1> QED BY <1>2, <1>3, <1>4

\* The inboxes of pdns.c are long enough for any number of entries; and whatever
\* VSIG_QUEUE_MAX is, no thread ever has more virtual signals queued than two per entry
\* and one per worker.  With the 1000 of es.c and the 200 workers of pdns.h that is room
\* for 400 entries; nothing is said of more.
THEOREM QueuesBounded == Spec => []QueuesSuffice
  <1>1. Init => CountInv /\ Room
    <2> SUFFICES ASSUME Init PROVE CountInv /\ Room
      OBVIOUS
    <2>1. Owing = {} /\ Len(mq[Mgr]) = 0 /\ pc[Mgr] = "spawn"
      BY Names DEF Init, Owing, Owes
    <2>2. Cardinality(Owing) = 0
      BY <2>1, FS_EmptySet
    <2> QED BY <2>1, <2>2, Counts, Names DEF CountInv, Room, Need
  <1>2. Inv /\ TalkInv /\ EntryInv /\ CountInv /\ Room /\ [Next]_vars => CountInv' /\ Room'
    BY RoomStep
  <1>3. Inv /\ Room => QueuesSuffice
    <2> SUFFICES ASSUME Inv, Room PROVE QueuesSuffice
      OBVIOUS
    <2>1. Len(inbox) <= MgrInboxMax
      BY InboxBound, Names DEF MgrInboxMax
    <2>2. \A w \in Workers : Len(winbox[w]) <= WorkerInboxMax
      BY DEF Inv, OneTaskEach, WorkerInboxMax
    <2>3. \A w \in Workers : Len(mq[w]) <= 2 * NItems + NThreads
      <3> SUFFICES ASSUME NEW w \in Workers PROVE Len(mq[w]) <= 2 * NItems + NThreads
        OBVIOUS
      <3>1. Len(mq[w]) <= 1 /\ Len(mq[w]) \in Nat
        BY Names DEF Inv, PromptInv, TypeOK
      <3> QED BY <3>1, Names
    <2> QED BY <2>1, <2>2, <2>3 DEF QueuesSuffice, Threads, Room, Need
  <1> QED BY <1>1, <1>2, <1>3, Invariance, TalkInvariance, EntryInvariance, PTL DEF Spec
=============================================================================
