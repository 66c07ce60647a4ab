-------------------------------- MODULE Pdns --------------------------------
(***************************************************************************)
(* pdns.c: the parallel DNS lookups.  The thread that calls PDNS_lookup()  *)
(* is the manager.  It spawns one worker per entry, up to MaxThreads, gives *)
(* each a first entry, and then, in its own ES_run(), answers each worker  *)
(* that reports with the entry's forward lookup, with the next entry, or,  *)
(* when no entry is left, with SIGTERM.  A timer bounds the whole; a second *)
(* one bounds the wait for workers blocked in the resolver.                *)
(***************************************************************************)
EXTENDS EventEngine, FiniteSets

CONSTANTS Mgr,         \* the thread that calls PDNS_lookup()
          NItems,      \* length of lePtrArr
          MaxThreads,  \* PDNS_MAX_THREADS
          Outcomes     \* the answers of the resolver considered

ASSUME NItemsAssumption == NItems \in Nat \ {0}
ASSUME MaxThreadsAssumption == MaxThreads \in Nat \ {0}
ASSUME VsigMaxAssumption == VsigMax \in Nat
ASSUME OutcomesAssumption ==
  Outcomes \subseteq {"REV", "NXDOMAIN", "SERVFAIL", "MATCH", "MISMATCH", "NONE", "FAIL", "FATAL"}
ASSUME NamesAssumption == Mgr \notin Int /\ None \notin Int /\ Mgr # None

NThreads == IF NItems < MaxThreads THEN NItems ELSE MaxThreads
Items == 0 .. NItems - 1
Workers == 0 .. NThreads - 1
Threads == Workers \cup {Mgr}
\* Mutant: the manager's inbox is smaller than the number of workers.
MgrInboxMax_small == MaxThreads - 1
MgrInboxMax == 2 * MaxThreads
WorkerInboxMax == 1

\* Virtual signals below MaxThreads say which worker is ready to be joined.
CheckInbox == MaxThreads + 1

VARIABLES spawned,     \* workers spawned so far, the manager's loop index
          stopNdx,     \* loop index of stop_remaining_workers()
          processed,   \* S.processedNdx
          timeout,     \* the countdown timer: off or armed
          shutdown,    \* the shutdown timer
          flags,       \* S.flags, a subset of {"EXIT", "ORPHAN"}
          inbox,       \* the manager's inbox
          joinee,      \* the worker the manager is joining
          joined,      \* is_joined of each worker
          winbox,      \* each worker's inbox
          task,        \* msg.e of each worker inside worker_check_inbox_f()
          dns          \* dns.flags of each entry

mgrVars == <<spawned, stopNdx, processed, joinee, joined>>
timeVars == <<timeout, shutdown, flags>>
taskVars == <<inbox, winbox, task, dns>>
vars == <<esVars, mgrVars, timeVars, taskVars>>

Init ==
  /\ pc = [t \in Threads |-> IF t = Mgr THEN "spawn" ELSE "unborn"]
  /\ sigs = [t \in Threads |-> {}]
  /\ mq = [t \in Threads |-> <<>>]
  /\ registered = {Mgr}
  /\ vsigMtx = None
  /\ call = [t \in Threads |-> NoCall]
  /\ spawned = 0 /\ stopNdx = 0 /\ processed = 0
  /\ joinee = None
  /\ joined = [w \in Workers |-> FALSE]
  /\ timeout = "armed" /\ shutdown = "off" /\ flags = {}
  /\ inbox = <<>>
  /\ winbox = [w \in Workers |-> <<>>]
  /\ task = [w \in Workers |-> None]
  /\ dns = [e \in Items |-> {}]

---------------------------------------------------------------------------
(* PDNS_lookup(): spawn the workers one at a time, waiting for each to     *)
(* release its parent; then hand each its first entry.                     *)

Spawn ==
  /\ pc[Mgr] = "spawn" /\ spawned < NThreads
  /\ pc' = [pc EXCEPT ![Mgr] = "await", ![spawned] = "starting"]
  /\ UNCHANGED <<sigs, mq, registered, vsigMtx, call, mgrVars, timeVars, taskVars>>

SpawnDone ==
  /\ pc[Mgr] = "spawn" /\ spawned = NThreads
  /\ pc' = At(Mgr, "dispatch")
  /\ UNCHANGED <<sigs, mq, registered, vsigMtx, call, mgrVars, timeVars, taskVars>>

\* Put e in w's inbox and go on to prompt w.
Assign(w, e, ret) ==
  /\ winbox' = [winbox EXCEPT ![w] = Append(@, e)]
  /\ call' = [call EXCEPT ![Mgr] = VSignalTo(w, CheckInbox, ret)]
  /\ pc' = IF Len(winbox[w]) < WorkerInboxMax THEN At(Mgr, "vsig") ELSE Aborted

Dispatch ==
  /\ pc[Mgr] = "dispatch" /\ processed < NThreads
  /\ Assign(processed, processed, "dispatch")
  /\ processed' = processed + 1
  /\ UNCHANGED <<sigs, mq, registered, vsigMtx, spawned, stopNdx, joinee, joined, timeVars,
                 inbox, task, dns>>

DispatchDone ==
  /\ pc[Mgr] = "dispatch" /\ processed = NThreads
  /\ pc' = At(Mgr, "run")
  /\ UNCHANGED <<sigs, mq, registered, vsigMtx, call, mgrVars, timeVars, taskVars>>

---------------------------------------------------------------------------
(* mgr_check_inbox_f(): answer every worker that has reported.             *)

MgrCheckInbox ==
  /\ Drain(Mgr, CheckInbox, "inbox")
  /\ UNCHANGED <<sigs, registered, vsigMtx, call, mgrVars, timeVars, taskVars>>

MgrInboxEmpty ==
  /\ pc[Mgr] = "inbox" /\ inbox = <<>>
  /\ pc' = At(Mgr, "drain")
  /\ UNCHANGED <<sigs, mq, registered, vsigMtx, call, mgrVars, timeVars, taskVars>>

DoneMask == {"SERVFAIL", "NXDOMAIN", "FWD"}
IsDone(e) == dns[e] \cap DoneMask # {}

\* Mutant: one entry too many is handed out.
NoneLeft_late == processed > NItems
NoneLeft == processed = NItems

\* Mutant: a worker is pruned although its entry still wants a forward lookup.
MayPrune_early(e) == NoneLeft
MayPrune(e) == IsDone(e) /\ NoneLeft

\* Mutant: the index of the next entry is not advanced.
AfterNext_stuck == processed
AfterNext == processed + 1

Extracted ==
  /\ pc[Mgr] = "inbox" /\ inbox # <<>>
  /\ inbox' = Tail(inbox)

\* Mutant: a worker that is no longer needed is prompted instead of stopped.
MgrPrune_prompts ==
  /\ Extracted
  /\ MayPrune(Head(inbox).e)
  /\ call' = [call EXCEPT ![Mgr] = VSignalTo(Head(inbox).w, CheckInbox, "inbox")]
  /\ pc' = At(Mgr, "vsig")
  /\ UNCHANGED <<sigs, mq, registered, vsigMtx, mgrVars, timeVars, winbox, task, dns>>

\* The entry is done and none is left: prune the worker.
MgrPrune ==
  /\ Extracted
  /\ MayPrune(Head(inbox).e)
  /\ Raise(pc, Head(inbox).w, "TERM")
  /\ UNCHANGED <<mq, registered, vsigMtx, call, mgrVars, timeVars, winbox, task, dns>>

\* The entry is done: give the worker the next one.
MgrNext ==
  /\ Extracted
  /\ IsDone(Head(inbox).e) /\ ~NoneLeft
  /\ Assign(Head(inbox).w, processed, "inbox")
  /\ processed' = AfterNext
  /\ UNCHANGED <<sigs, mq, registered, vsigMtx, spawned, stopNdx, joinee, joined, timeVars,
                 task, dns>>

\* The reverse lookup found a name: the same worker looks it up forward.
MgrForward ==
  /\ Extracted
  /\ ~IsDone(Head(inbox).e)
  /\ Assign(Head(inbox).w, Head(inbox).e, "inbox")
  /\ UNCHANGED <<sigs, mq, registered, vsigMtx, mgrVars, timeVars, task, dns>>

---------------------------------------------------------------------------
(* join_f(): the worker's number came as the virtual signal.               *)

MgrJoin(w) ==
  /\ Drain(Mgr, w, "join")
  /\ joinee' = w
  /\ UNCHANGED <<sigs, registered, vsigMtx, call, spawned, stopNdx, processed, joined,
                 timeVars, taskVars>>

AllJoined(j) == \A w \in Workers : j[w]

\* pthread_join() returns once the thread has ended, and nothing is left of it,
\* not even signals it never served; when all workers have been joined,
\* join_f() returns -1, and so do ES_run() and the wait of PDNS_lookup().
MgrJoined ==
  /\ pc[Mgr] = "join" /\ pc[joinee] = "done"
  /\ joined' = [joined EXCEPT ![joinee] = TRUE]
  /\ joinee' = None
  /\ sigs' = [sigs EXCEPT ![joinee] = {}]
  /\ pc' = At(Mgr, IF AllJoined(joined') THEN "returned" ELSE "drain")
  /\ UNCHANGED <<mq, registered, vsigMtx, call, spawned, stopNdx, processed,
                 timeVars, taskVars>>

---------------------------------------------------------------------------
(* Timers.  ES_run() reads the clock when it enters poll() and again when  *)
(* it has served signals: at either time an armed timer may be due.        *)

PollTimesOut ==
  /\ pc[Mgr] = "poll" /\ "armed" \in {timeout, shutdown}
  /\ pc' = At(Mgr, "usr2")
  /\ UNCHANGED <<sigs, mq, registered, vsigMtx, call, mgrVars, timeVars, taskVars>>

NoTimerDue ==
  /\ pc[Mgr] = "timers"
  /\ pc' = At(Mgr, "run")
  /\ UNCHANGED <<sigs, mq, registered, vsigMtx, call, mgrVars, timeVars, taskVars>>

\* timeout_f(): publish EXIT_FLG, signal the workers that have not been
\* joined, and start the shutdown timer.
TimeoutF ==
  /\ pc[Mgr] = "timers" /\ timeout = "armed"
  /\ timeout' = "off"
  /\ flags' = flags \cup {"EXIT"}
  /\ pc' = At(Mgr, "stop")
  /\ UNCHANGED <<sigs, mq, registered, vsigMtx, call, mgrVars, shutdown, taskVars>>

\* Mutant: workers already joined are signalled too.
MustStop_all(w) == TRUE
MustStop(w) == ~joined[w]

StopWorker ==
  /\ pc[Mgr] = "stop" /\ stopNdx < NThreads
  /\ IF MustStop(stopNdx) THEN Raise(pc, stopNdx, "TERM") ELSE UNCHANGED <<sigs, pc>>
  /\ stopNdx' = stopNdx + 1
  /\ UNCHANGED <<mq, registered, vsigMtx, call, spawned, processed, joinee, joined,
                 timeVars, taskVars>>

\* Mutant: the shutdown timer is not registered.
ShutdownAfterTimeout_forgotten == "off"
ShutdownAfterTimeout == "armed"

StopDone ==
  /\ pc[Mgr] = "stop" /\ stopNdx = NThreads
  /\ shutdown' = ShutdownAfterTimeout
  /\ stopNdx' = 0
  /\ pc' = At(Mgr, "run")
  /\ UNCHANGED <<sigs, mq, registered, vsigMtx, call, spawned, processed, joinee, joined,
                 timeout, flags, taskVars>>

\* shutdown_f(): the workers that remain are orphans; ES_run() returns.
ShutdownF ==
  /\ pc[Mgr] = "timers" /\ shutdown = "armed"
  /\ shutdown' = "off"
  /\ flags' = flags \cup {"ORPHAN"}
  /\ pc' = At(Mgr, "returned")
  /\ UNCHANGED <<sigs, mq, registered, vsigMtx, call, mgrVars, timeout, taskVars>>

---------------------------------------------------------------------------
(* worker_main(): set up, release the parent, and serve prompts.           *)

WorkerStart(w) ==
  /\ pc[w] = "starting"
  /\ Register(w)
  /\ pc' = [pc EXCEPT ![w] = "run", ![Mgr] = "spawn"]
  /\ spawned' = spawned + 1
  /\ UNCHANGED <<sigs, mq, vsigMtx, call, stopNdx, processed, joinee, joined, timeVars,
                 taskVars>>

\* SIGTERM is served after SIGUSR2: worker_exit_f() ends ES_run().
WorkerTerm(w) ==
  /\ pc[w] = "term"
  /\ IF "TERM" \in sigs[w]
     THEN sigs' = [sigs EXCEPT ![w] = @ \ {"TERM"}] /\ pc' = At(w, "exiting")
     ELSE pc' = At(w, "run") /\ UNCHANGED sigs
  /\ UNCHANGED <<mq, registered, vsigMtx, call, mgrVars, timeVars, taskVars>>

WorkerCheckInbox(w) ==
  /\ Drain(w, CheckInbox, "check")
  /\ UNCHANGED <<sigs, registered, vsigMtx, call, mgrVars, timeVars, taskVars>>

\* Mutant: the loop goes on after the time limit too.
MayGoOn_late == TRUE
MayGoOn == "EXIT" \notin flags

\* worker_check_inbox_f(): the loop first tests EXIT_FLG and then looks in the inbox;
\* the manager may publish EXIT_FLG between the two.
WorkerTest(w) ==
  /\ pc[w] = "check"
  /\ pc' = At(w, IF MayGoOn THEN "extract" ELSE "post")
  /\ UNCHANGED <<sigs, mq, registered, vsigMtx, call, mgrVars, timeVars, taskVars>>

\* A task is there: take it, and begin its lookup.
WorkerTake(w) ==
  /\ pc[w] = "extract" /\ winbox[w] # <<>>
  /\ task' = [task EXCEPT ![w] = Head(winbox[w])]
  /\ winbox' = [winbox EXCEPT ![w] = Tail(@)]
  /\ pc' = At(w, "lookup")
  /\ UNCHANGED <<sigs, mq, registered, vsigMtx, call, mgrVars, timeVars, inbox, dns>>

WorkerInboxEmpty(w) ==
  /\ pc[w] = "extract" /\ winbox[w] = <<>>
  /\ pc' = At(w, "post")
  /\ UNCHANGED <<sigs, mq, registered, vsigMtx, call, mgrVars, timeVars, taskVars>>

\* The outcome of a lookup is recorded in the entry's flags.
Looked(w, outcome) ==
  /\ dns' = [dns EXCEPT ![task[w]] = @ \cup outcome]
  /\ pc' = At(w, IF "EXIT" \in flags THEN "post" ELSE "check")
  /\ UNCHANGED <<sigs, mq, registered, vsigMtx, call, mgrVars, timeVars, inbox, winbox,
                 task>>

Reverse(w) ==
  /\ pc[w] = "lookup" /\ "REV" \notin dns[task[w]]
  /\ \E outcome \in Outcomes \cap {"REV", "NXDOMAIN", "SERVFAIL"} : Looked(w, {outcome})

Forward(w) ==
  /\ pc[w] = "lookup" /\ "REV" \in dns[task[w]]
  /\ \/ "MATCH" \in Outcomes /\ Looked(w, {"FWD"})
     \/ \E outcome \in Outcomes \cap {"MISMATCH", "NONE", "FAIL"} : Looked(w, {"FWD", outcome})

\* Any other answer of the resolver aborts the process.
LookupFails(w) ==
  /\ pc[w] = "lookup" /\ "FATAL" \in Outcomes
  /\ pc' = Aborted
  /\ UNCHANGED <<sigs, mq, registered, vsigMtx, call, mgrVars, timeVars, taskVars>>

\* After the loop EXIT_FLG is tested once more: follow up, or leave.
WorkerFollowUp(w) ==
  /\ pc[w] = "post" /\ "EXIT" \notin flags
  /\ pc' = At(w, "report")
  /\ UNCHANGED <<sigs, mq, registered, vsigMtx, call, mgrVars, timeVars, taskVars>>

\* The follow-up: report to the manager.
WorkerReport(w) ==
  /\ pc[w] = "report"
  /\ inbox' = Append(inbox, [e |-> task[w], w |-> w])
  /\ call' = [call EXCEPT ![w] = VSignalTo(Mgr, CheckInbox, "drain")]
  /\ task' = [task EXCEPT ![w] = None]
  /\ pc' = IF Len(inbox) < MgrInboxMax THEN At(w, "vsig") ELSE Aborted
  /\ UNCHANGED <<sigs, mq, registered, vsigMtx, mgrVars, timeVars, winbox, dns>>

WorkerLeave(w) ==
  /\ pc[w] = "post" /\ "EXIT" \in flags
  /\ task' = [task EXCEPT ![w] = None]
  /\ pc' = At(w, "exiting")
  /\ UNCHANGED <<sigs, mq, registered, vsigMtx, call, mgrVars, timeVars, inbox, winbox, dns>>

\* Out of ES_run(): ask to be joined unless orphaned, then clean up.
WorkerExit(w) ==
  /\ pc[w] = "exiting"
  /\ IF "ORPHAN" \in flags
     THEN pc' = At(w, "cleanup") /\ UNCHANGED call
     ELSE pc' = At(w, "vsig") /\ call' = [call EXCEPT ![w] = VSignalTo(Mgr, w, "cleanup")]
  /\ UNCHANGED <<sigs, mq, registered, vsigMtx, mgrVars, timeVars, taskVars>>

---------------------------------------------------------------------------

Keep == UNCHANGED <<mgrVars, timeVars, taskVars>>

MgrStep ==
  \/ Spawn \/ SpawnDone \/ Dispatch \/ DispatchDone
  \/ MgrCheckInbox \/ MgrInboxEmpty \/ MgrPrune \/ MgrNext \/ MgrForward
  \/ \E w \in Workers : MgrJoin(w)
  \/ MgrJoined
  \/ PollTimesOut \/ NoTimerDue \/ TimeoutF \/ StopWorker \/ StopDone \/ ShutdownF
  \/ PassUsr2(Mgr, "timers") /\ Keep

\* A worker's steps, but for the resolver's, whose answer may never come.
WorkerStep(w) ==
  \/ WorkerStart(w) \/ WorkerTerm(w) \/ WorkerCheckInbox(w) \/ WorkerTest(w)
  \/ WorkerTake(w) \/ WorkerInboxEmpty(w) \/ WorkerFollowUp(w) \/ WorkerReport(w) \/ WorkerLeave(w) \/ WorkerExit(w)
  \/ PassUsr2(w, "term") /\ Keep

Resolve(w) == Reverse(w) \/ Forward(w) \/ LookupFails(w)

\* The steps of ES_run(), ES_VSignal() and ES_cleanup() that run no callback.
Engine(t) ==
  \/ EnterPoll(t) /\ Keep
  \/ ServeUsr2(t) /\ Keep
  \/ DrainEmpty(t) /\ Keep
  \/ VSignalNotFound(t) /\ Keep
  \/ VSignalSubmit(t) /\ Keep
  \/ VSignalKill(t) /\ Keep
  \/ Cleanup(t) /\ Keep

\* The process is over, as far as the lookups are concerned.
Over == pc[Mgr] \in {"returned", "aborted"}

Next ==
  \/ MgrStep
  \/ \E w \in Workers : WorkerStep(w) \/ Resolve(w)
  \/ \E t \in Threads : Engine(t)
  \/ Over /\ UNCHANGED vars

Spec == Init /\ [][Next]_vars

\* The scheduler runs every thread that can run, and a timer whose clock is
\* read again and again becomes due; the resolver may block forever.
Fairness ==
  /\ WF_vars(MgrStep \/ Engine(Mgr))
  /\ SF_vars(TimeoutF) /\ SF_vars(ShutdownF)
  /\ \A w \in Workers : WF_vars(WorkerStep(w) \/ Engine(w))

FairSpec == Spec /\ Fairness

---------------------------------------------------------------------------
(* Properties                                                              *)

Pcs == {"spawn", "await", "dispatch", "inbox", "join", "timers", "stop", "returned", "unborn",
        "starting", "term", "check", "extract", "lookup", "post", "report", "exiting", "cleanup",
        "done", "run", "poll", "usr2", "drain", "vsig", "kill", "aborted"}
DnsFlags == {"REV", "NXDOMAIN", "SERVFAIL", "FWD", "MISMATCH", "NONE", "FAIL"}

\* Every variable has its type.
TypeOK ==
  /\ pc \in [Threads -> Pcs]
  /\ sigs \in [Threads -> SUBSET {"USR2", "TERM"}]
  /\ mq \in [Threads -> Seq(Workers \cup {CheckInbox})]
  /\ registered \in SUBSET Threads
  /\ vsigMtx \in Threads \cup {None}
  /\ call \in [Threads -> [to : Threads \cup {None}, vsig : Workers \cup {CheckInbox, -1},
                           ret : {"dispatch", "inbox", "drain", "cleanup", "none"}]]
  /\ spawned \in 0 .. NThreads /\ stopNdx \in 0 .. NThreads /\ processed \in 0 .. NItems
  /\ timeout \in {"off", "armed"} /\ shutdown \in {"off", "armed"}
  /\ flags \in SUBSET {"EXIT", "ORPHAN"}
  /\ inbox \in Seq([e : Items, w : Workers])
  /\ joinee \in Workers \cup {None}
  /\ joined \in [Workers -> BOOLEAN]
  /\ winbox \in [Workers -> Seq(Items)]
  /\ task \in [Workers -> Items \cup {None}]
  /\ dns \in [Items -> SUBSET DnsFlags]

\* A task of worker w is in its inbox, in its hands, or in its report.
Serving == {"check", "extract", "lookup", "post", "report"}
InHand(w) == IF pc[w] \in Serving THEN {task[w]} \ {None} ELSE {}
Reports(w) == {k \in 1 .. Len(inbox) : inbox[k].w = w}
Entries(w) == {winbox[w][k] : k \in 1 .. Len(winbox[w])} \cup InHand(w)
                \cup {inbox[k].e : k \in Reports(w)}

\* At every moment a worker has at most one task, wherever the task is on its
\* way between manager and worker, and no two workers have the same entry: so
\* the unlocked writes to an entry's flags never race with one another, nor
\* with the manager's reading them.
OneTaskEach ==
  /\ \A w \in Workers :
       /\ Len(winbox[w]) <= 1
       /\ \A j, k \in Reports(w) : j = k
       /\ winbox[w] # <<>> => InHand(w) = {} /\ Reports(w) = {}
       /\ InHand(w) # {} => Reports(w) = {}
  /\ \A v, w \in Workers : v # w => Entries(v) \cap Entries(w) = {}

\* A worker never reports an entry it did not take: the msg it would report is
\* then an uninitialised variable.  This needs each prompt to find the task it
\* was sent for, although prompt and task travel through different queues.
NoUninitialisedReport ==
  \A w \in Workers :
    pc[w] = "report" \/ (pc[w] = "post" /\ "EXIT" \notin flags) => task[w] # None

\* Unless time ran out, PDNS_lookup() returns only when every entry has its
\* final flags and every worker has ended and been joined.
CompleteUnlessTimedOut ==
  pc[Mgr] = "returned" /\ "EXIT" \notin flags =>
    /\ \A e \in Items : dns[e] \notin {{}, {"REV"}}
    /\ \A w \in Workers : joined[w] /\ pc[w] = "done"

\* What the queues have to hold.  No submit finds an inbox full, as the inboxes are
\* sized; and whatever VSIG_QUEUE_MAX is, a thread never has more virtual signals on its
\* queue than two per entry and one per worker: no submit finds that queue full, which
\* would abort the process, while VSIG_QUEUE_MAX is at least that.
QueuesSuffice ==
  /\ Len(inbox) <= MgrInboxMax
  /\ \A w \in Workers : Len(winbox[w]) <= WorkerInboxMax
  /\ \A t \in Threads : Len(mq[t]) <= 2 * NItems + NThreads

\* pthread_kill() is never aimed at a thread that has been joined, whose
\* identifier is no longer valid.
NoSignalAfterJoin == \A w \in Workers : joined[w] => sigs[w] = {}

\* Each entry is looked up by one worker at a time, in reverse and then forward, each
\* once; and after the time limit a worker begins a lookup at most once more, and only
\* when it had tested EXIT_FLG before the limit and had not yet looked in its inbox.
Progress == INSTANCE LookupProgress WITH
  Lookers <- Workers,
  Nothing <- None,
  lookers <- [e \in Items |-> Cardinality({w \in Workers : pc[w] = "lookup" /\ task[w] = e})],
  admitted <- [w \in Workers |->
    IF pc[w] = "extract" /\ winbox[w] # <<>> THEN Head(winbox[w]) ELSE None],
  timedOut <- "EXIT" \in flags,
  aborted <- pc[Mgr] = "aborted"
ImplementsProgress == Progress!ProgressSpec

\* PDNS_lookup() returns, even when the resolver never answers and wake-ups
\* are lost.
Termination == <>Over

---------------------------------------------------------------------------
(* What comments of the code say and the code does not do.                 *)

\* es.c: the signal tells the target thread to check its message queue; so no
\* thread sleeps in poll() on a queued virtual signal that has been signalled.
NoLostWakeup ==
  \A t \in Threads : pc[t] = "poll" /\ mq[t] # <<>> =>
    \E u \in Threads : pc[u] = "kill" /\ call[u].to = t

\* pdns.h: PDNS_lookup() returns the number of lookups completed.
ReturnCountsCompleted ==
  pc[Mgr] = "returned" => processed <= Cardinality({e \in Items : IsDone(e)})
=============================================================================
