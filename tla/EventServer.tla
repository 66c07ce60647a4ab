---------------------------- MODULE EventServer ----------------------------
(***************************************************************************)
(* The event server of es.c as the code that uses it sees it: callbacks    *)
(* are registered and unregistered, from outside ES_run() and from within  *)
(* callbacks; ES_run() calls those of signals, virtual signals, timers and *)
(* file descriptors; and threads are spawned, which register callbacks of  *)
(* their own with keys from one counter that no lock protects.             *)
(*                                                                         *)
(* One thread, Main, does all that in any legal order; the threads it      *)
(* spawns begin like worker_main() of pdns.c.  How virtual signals travel  *)
(* from thread to thread is in EventEngine: here they arrive.              *)
(***************************************************************************)
EXTENDS Integers, SequencesExt

CONSTANTS Main, Workers,
          WorkerSpecs,   \* what a worker registers before it releases its parent
          Specs,         \* what Main may register
          Signals,       \* Unix signals in the order of their numbers
          Vsigs,         \* virtual signals that may arrive
          MaxCallbacks,  \* bounds how often Main registers
          MaxEvents,     \* bounds the signals that arrive
          MaxTime        \* bounds the clock, in ms

ASSUME WorkersAssumption == Main \notin Workers
ASSUME BoundsAssumption ==
  MaxCallbacks \in Nat /\ MaxEvents \in Nat /\ MaxTime \in Nat
ASSUME SignalsAssumption == Signals \in Seq(STRING)

Threads == {Main} \cup Workers
Types == {"fd", "sig", "vsig", "timer"}
\* What a callback is registered for: of tells the file descriptor, signal or
\* timer; pause and interval are a timer's.
SpecOf(type, of, pause, interval) ==
  [type |-> type, of |-> of, pause |-> pause, interval |-> interval]
\* initialize() has virtual signals served: sigusr2_h().
Usr2 == SpecOf("sig", "USR2", 0, 0)

\* The vectors a thread files its callbacks in: fd_vec, timer_vec, one of sig_vec_arr
\* for each signal, and what vsig.cb_map has for each virtual signal.
FdVec == <<"fd", "any">>
TimerVec == <<"timer", "any">>
SigVec(sig) == <<"sig", sig>>
VsigVec(v) == <<"vsig", v>>
Vectors == {FdVec, TimerVec} \cup {SigVec(sig) : sig \in ToSet(Signals)}
                             \cup {VsigVec(v) : v \in Vsigs}
\* The one for a callback, or for what it is registered for.
VecOf(o) == IF o.type \in {"sig", "vsig"} THEN <<o.type, o.of>> ELSE <<o.type, "any">>

AllSpecs == Specs \cup ToSet(WorkerSpecs) \cup {Usr2}
ASSUME SpecsAssumption ==
  /\ \A s \in AllSpecs :
       /\ s = SpecOf(s.type, s.of, s.pause, s.interval)
       /\ VecOf(s) \in Vectors /\ s.pause \in Nat /\ s.interval \in Nat
  /\ WorkerSpecs \in Seq(AllSpecs)
\* A handler is the process's, but the last callback of a thread takes it away.  In
\* pdns.c only the workers wait for a signal besides SIGUSR2, which initialize()
\* catches in every thread: SIGTERM, for which the manager has no callback.
ASSUME SignalsApart ==
  \A s \in Specs : s.type = "sig" =>
    s.of # "USR2" /\ \A r \in ToSet(WorkerSpecs) : VecOf(s) # VecOf(r)

VARIABLES
  pc, then,      \* where each thread is, and where it goes on from registering
  spec, loaded,  \* what it registers, and the value of S.keySrc it has read
  keySrc,        \* S.keySrc
  cb,            \* the callback objects, numbered as they were created
  key_map,       \* TS.key_map of each thread
  vec,           \* the vectors of each
  caught,        \* the signals for which UnixSignalHandler() is installed
  created, condMtx, release_parent,           \* S.spawn
  processing, deleted_vec, raised, mq,        \* TS of Main
  now, events,                                \* the clock; the signals so far
  poll_ms, time_ms, arr, ready, hits, ndx, signum, cur, phase,  \* locals of ES_run()
  unregistered, late, owed  \* history, for the properties only: callbacks that
                            \* were unregistered, the types of those called all
                            \* the same, and what this round has to call yet

objVars == <<cb, key_map, vec, caught>>
spawnVars == <<created, condMtx, release_parent>>
worldVars == <<now, events, raised, mq>>
runVars == <<poll_ms, time_ms, arr, ready, hits, ndx, signum, cur, phase>>
histVars == <<unregistered, late, owed>>
regVars == <<then, spec, loaded, keySrc>>
mainVars == <<processing, deleted_vec>>
vars == <<pc, regVars, objVars, spawnVars, worldVars, mainVars, runVars, histVars>>

None == SpecOf("none", "none", 0, 0)
NoVec == [slot \in Vectors |-> <<>>]

Init ==
  /\ pc = [t \in Threads |-> IF t = Main THEN "idle" ELSE "not_created"]
  /\ then = [t \in Threads |-> "idle"] /\ spec = [t \in Threads |-> None]
  /\ loaded = [t \in Threads |-> 0] /\ keySrc = 0
  /\ cb = <<>> /\ key_map = [t \in Threads |-> {}] /\ vec = [t \in Threads |-> NoVec]
  /\ caught = {} /\ created = {} /\ condMtx = FALSE /\ release_parent = FALSE
  /\ processing = FALSE /\ deleted_vec = <<>> /\ raised = {} /\ mq = <<>>
  /\ now = 0 /\ events = 0
  /\ poll_ms = 0 /\ time_ms = 0 /\ arr = <<>> /\ ready = {} /\ hits = <<>>
  /\ ndx = 1 /\ signum = 1 /\ cur = 0 /\ phase = "none"
  /\ unregistered = {} /\ late = {} /\ owed = {}

Goto(t, s) == pc' = [pc EXCEPT ![t] = s]

---------------------------------------------------------------------------
(* Registration: the key is a counter read and written in two steps, then  *)
(* the new callback enters the key map and the vector of its type.         *)

Register(t, s, back) ==
  /\ loaded' = [loaded EXCEPT ![t] = keySrc]
  /\ spec' = [spec EXCEPT ![t] = s] /\ then' = [then EXCEPT ![t] = back]
  /\ Goto(t, "store")
  /\ UNCHANGED <<keySrc, objVars, spawnVars, worldVars, mainVars, runVars, histVars>>

Store(t) ==
  /\ pc[t] = "store"
  /\ keySrc' = loaded[t] + 1
  /\ LET s  == spec[t]
         id == Len(cb) + 1
     IN  /\ cb' = Append(cb, [owner |-> t, key |-> keySrc', type |-> s.type, of |-> s.of,
                              deleted |-> FALSE, due |-> now + s.pause,
                              interval |-> s.interval, last |-> 0])
         /\ key_map' = [key_map EXCEPT ![t] = @ \cup {id}]
         /\ vec' = [vec EXCEPT ![t][VecOf(s)] = Append(@, id)]
         /\ caught' = IF s.type = "sig" /\ vec[t][VecOf(s)] = <<>>
                      THEN caught \cup {s.of} ELSE caught
  /\ Goto(t, then[t])
  /\ spec' = [spec EXCEPT ![t] = None] /\ loaded' = [loaded EXCEPT ![t] = 0]
  /\ then' = [then EXCEPT ![t] = "idle"]
  /\ UNCHANGED <<spawnVars, worldVars, mainVars, runVars, histVars>>

---------------------------------------------------------------------------
(* ES_unregister(): while callbacks are processed, which a return from     *)
(* ES_run() does not end, a callback is only marked; else it is removed.   *)

\* Mutant: a callback marked twice is put twice on the list.
Marks_again(id) == TRUE
Marks(id) == ~cb[id].deleted

Mark(id) ==
  IF Marks(id)
  THEN /\ cb' = [cb EXCEPT ![id].deleted = TRUE] /\ deleted_vec' = Append(deleted_vec, id)
       /\ UNCHANGED <<key_map, vec, caught>>
  ELSE UNCHANGED <<objVars, deleted_vec>>

\* Free()d: only the key it had is remembered.
Freed(o) == [o EXCEPT !.type = "freed", !.of = "none", !.deleted = FALSE,
                      !.due = 0, !.interval = 0, !.last = 0]

Destroy(id) ==
  LET o == cb[id]
  IN  /\ key_map' = [key_map EXCEPT ![Main] = @ \ {id}]
      /\ \E i \in DOMAIN vec[Main][VecOf(o)] :
           /\ vec[Main][VecOf(o)][i] = id
           /\ vec' = [vec EXCEPT ![Main][VecOf(o)] = RemoveAt(@, i)]
      /\ cb' = [cb EXCEPT ![id] = Freed(o)]
      /\ caught' = IF o.type = "sig" /\ vec'[Main][VecOf(o)] = <<>>
                   THEN caught \ {o.of} ELSE caught

\* The callbacks of a key: with two, either may be found.
Found(key) == {id \in key_map[Main] : cb[id].key = key}

\* What the application says it is done with is not to be called.
Unregister(id) ==
  /\ IF processing THEN Mark(id) ELSE Destroy(id) /\ UNCHANGED deleted_vec
  /\ unregistered' = unregistered \cup {id} /\ owed' = owed \ {id}

\* The keys the application has: of what it registered itself.
Keys == {cb[id].key : id \in {i \in DOMAIN cb : cb[i].owner = Main /\ cb[i].of # "USR2"}}

\* ES_unregister() of a key; -1, and nothing happens, if there is no callback.
UnregisterKey(next) ==
  /\ \E key \in Keys :
       IF Found(key) = {} THEN UNCHANGED <<objVars, mainVars, histVars>>
       ELSE /\ \E id \in Found(key) : Unregister(id)
            /\ UNCHANGED <<processing, late>>
  /\ Goto(Main, next)
  /\ UNCHANGED <<regVars, spawnVars, worldVars, runVars>>

---------------------------------------------------------------------------
(* Main outside ES_run().  Every call initializes the thread first.        *)

Initialized == vec[Main][SigVec("USR2")] # <<>>
Idle == pc[Main] = "idle"

OfMain == {id \in DOMAIN cb : cb[id].owner = Main}
MayRegister == Cardinality(OfMain) < MaxCallbacks + 1

Outside ==
  \/ Idle /\ ~Initialized /\ Register(Main, Usr2, "idle")
  \/ /\ Idle /\ Initialized
     /\ \/ MayRegister /\ \E s \in Specs : Register(Main, s, "idle")
        \/ UnregisterKey("idle")
        \/ /\ Goto(Main, "round")
           /\ UNCHANGED <<regVars, objVars, spawnVars, worldVars, mainVars, runVars, histVars>>

\* The vectors but deleted_vec, the maps and the queue are destroyed.
Cleanup ==
  /\ Idle /\ Initialized
  /\ Goto(Main, "ended")
  /\ cb' = [id \in DOMAIN cb |-> IF id \in key_map[Main] THEN Freed(cb[id]) ELSE cb[id]]
  /\ key_map' = [key_map EXCEPT ![Main] = {}]
  /\ vec' = [vec EXCEPT ![Main] = NoVec] /\ mq' = <<>>
  /\ UNCHANGED <<regVars, caught, spawnVars, now, events, raised, mainVars, runVars, histVars>>

---------------------------------------------------------------------------
(* ES_spawn_thread_sched(): the parent waits until the thread releases it. *)

\* Mutant: the parent goes on at once.
MayContinue_unreleased == TRUE
MayContinue == release_parent

Spawn(w) ==
  /\ Idle /\ w \notin created /\ ~condMtx
  /\ created' = created \cup {w} /\ condMtx' = TRUE /\ release_parent' = FALSE
  /\ pc' = [pc EXCEPT ![Main] = "test", ![w] = "started"]
  /\ UNCHANGED <<regVars, objVars, worldVars, mainVars, runVars, histVars>>

\* pthread_cond_wait() gives up the mutex, and may return for no reason.
TestReleased ==
  /\ pc[Main] = "test"
  /\ condMtx' = FALSE
  /\ Goto(Main, IF MayContinue THEN "idle" ELSE "wait")
  /\ UNCHANGED <<regVars, objVars, created, release_parent,
                 worldVars, mainVars, runVars, histVars>>

Awake ==
  /\ pc[Main] = "wait" /\ ~condMtx
  /\ condMtx' = TRUE
  /\ Goto(Main, "test")
  /\ UNCHANGED <<regVars, objVars, created, release_parent,
                 worldVars, mainVars, runVars, histVars>>

\* worker_main(): initialize() by the first registration, then the others, then
\* ES_release_parent(); in ES_run() the workers of pdns.c register nothing.
WorkerRegisters == <<Usr2>> \o WorkerSpecs

WorkerStarts(w) ==
  LET n == Cardinality(key_map[w])
  IN  /\ pc[w] = "started" /\ n < Len(WorkerRegisters)
      /\ Register(w, WorkerRegisters[n + 1], "started")

Release(w) ==
  /\ pc[w] = "started" /\ Cardinality(key_map[w]) = Len(WorkerRegisters) /\ ~condMtx
  /\ release_parent' = TRUE
  /\ Goto(w, "running")
  /\ UNCHANGED <<regVars, objVars, created, condMtx, worldVars, mainVars, runVars, histVars>>

---------------------------------------------------------------------------
(* A signal arrives: UnixSignalHandler() notes it.  Other threads send     *)
(* virtual signals with SIGUSR2; the steps of that are in EventEngine.     *)

Arrives ==
  /\ events < MaxEvents /\ events' = events + 1
  /\ Initialized
  /\ \/ \E sig \in caught \ {"USR2"} : raised' = raised \cup {sig} /\ UNCHANGED mq
     \/ \E v \in Vsigs : mq' = Append(mq, v) /\ raised' = raised \cup {"USR2"}
  /\ UNCHANGED <<pc, regVars, objVars, spawnVars, now, mainVars, runVars, histVars>>

---------------------------------------------------------------------------
(* ES_run(): a round.                                                      *)

\* The orders of ids a sort may leave.
Sorted(ids, key) ==
  {s \in [DOMAIN ids -> ToSet(ids)] :
     /\ IsInjective(s) /\ ToSet(s) = ToSet(ids)
     /\ \A i, j \in DOMAIN s : i < j => key[s[i]] <= key[s[j]]}

LastActivity == [id \in DOMAIN cb |-> cb[id].last]
\* Mutant: the timers are left as they were registered.
Timers_unsorted(ids) == {ids}
Timers(ids) == Sorted(ids, [id \in DOMAIN cb |-> cb[id].due])

\* Mutant: what is overdue makes a negative time-out, which is for ever.
PollMs_overdue(timers) == IF timers = <<>> THEN -1 ELSE cb[Head(timers)].due - now
PollMs(timers) ==
  IF timers = <<>> THEN -1
  ELSE IF cb[Head(timers)].due > now THEN cb[Head(timers)].due - now ELSE 0

\* file descriptors by their last activity, timers by urgency; equals in any order.
\* The timers this round finds it may have to call, if they are due.
StartRound ==
  /\ pc[Main] = "round"
  /\ processing' = TRUE
  /\ \E fds \in Sorted(vec[Main][FdVec], LastActivity), timers \in Timers(vec[Main][TimerVec]) :
       /\ vec' = [vec EXCEPT ![Main][FdVec] = fds, ![Main][TimerVec] = timers]
       /\ poll_ms' = PollMs(timers) /\ arr' = fds
       /\ owed' = {id \in ToSet(timers) : ~cb[id].deleted}
  /\ Goto(Main, "poll")
  /\ UNCHANGED <<regVars, cb, key_map, caught, spawnVars, worldVars, deleted_vec,
                 time_ms, ready, hits, ndx, signum, cur, phase, unregistered, late>>

\* poll() returns for file descriptors, for a signal, or when its time is up; the
\* coarse clock of timers may be a tick behind.
PollReturns ==
  /\ pc[Main] = "poll"
  /\ \E fds \in SUBSET ToSet(arr), t \in now .. MaxTime :
       /\ fds = {} /\ raised = {} => poll_ms # -1 /\ t - now >= poll_ms - 1
       /\ ready' = fds /\ now' = t
       /\ owed' = owed \cup {id \in fds : ~cb[id].deleted}
  /\ Goto(Main, "signals") /\ signum' = 1
  /\ UNCHANGED <<regVars, objVars, spawnVars, events, raised, mq, mainVars,
                 poll_ms, time_ms, arr, hits, ndx, cur, phase, unregistered, late>>

\* A callback that was marked is skipped.  Mutant: it is called.
Skips_none(id) == FALSE
Skips(id) == cb[id].deleted
Unmarked(ids) == {id \in ids : ~Skips(id)}

\* What is to be called next of a vector, from ndx on, or 0.
FirstOf(seq, wanted) ==
  LET is == {i \in ndx .. Len(seq) : seq[i] \in wanted} IN IF is = {} THEN 0 ELSE Min(is)

\* The callback at index i of the vector that is served is entered.
Calls(id, i, in) ==
  /\ ndx' = i /\ cur' = id /\ phase' = in
  /\ Goto(Main, "callback")
  /\ late' = IF id \in unregistered THEN late \cup {cb[id].type} ELSE late
  /\ owed' = owed \ {id}
  /\ UNCHANGED unregistered

\* On to the next vector.
Then(next) == Goto(Main, next) /\ ndx' = 1 /\ UNCHANGED <<cur, phase, histVars>>

\* The least signal that is noted, from signum on, is cleared and served.
ServeSignal ==
  /\ pc[Main] = "signals"
  /\ LET is == {i \in signum .. Len(Signals) : Signals[i] \in raised}
     IN  IF is = {}
         THEN /\ Then("timers")
              /\ time_ms' = now
              /\ UNCHANGED <<raised, signum>>
         ELSE /\ signum' = Min(is) /\ raised' = raised \ {Signals[Min(is)]}
              /\ Then(IF Signals[Min(is)] = "USR2" THEN "drain" ELSE "signal")
              /\ UNCHANGED time_ms
  /\ UNCHANGED <<regVars, objVars, spawnVars, now, events, mq, mainVars,
                 poll_ms, arr, ready, hits>>

CallSignal ==
  /\ pc[Main] = "signal"
  /\ LET ids == vec[Main][SigVec(Signals[signum])]
         i   == FirstOf(ids, Unmarked(ToSet(ids)))
     IN  IF i = 0 THEN Then("signals") ELSE Calls(ids[i], i, "signal")
  /\ UNCHANGED <<regVars, objVars, spawnVars, worldVars, mainVars,
                 poll_ms, time_ms, arr, ready, hits, signum>>

\* sigusr2_h(): a number without a callback ends it, and what is queued behind the
\* number waits for the next SIGUSR2.
Drain ==
  /\ pc[Main] = "drain"
  /\ IF mq = <<>> THEN Then("signals") /\ UNCHANGED <<mq, hits>>
     ELSE /\ mq' = Tail(mq) /\ hits' = vec[Main][VsigVec(Head(mq))]
          /\ Then(IF hits' = <<>> THEN "signals" ELSE "vsig")
  /\ UNCHANGED <<regVars, objVars, spawnVars, now, events, raised, mainVars,
                 poll_ms, time_ms, arr, ready, signum>>

\* What is marked is not told from the others here.
CallVSignal ==
  /\ pc[Main] = "vsig"
  /\ IF ndx > Len(hits) THEN Then("drain") /\ hits' = <<>>
     ELSE Calls(hits[ndx], ndx, "vsig") /\ UNCHANGED hits
  /\ UNCHANGED <<regVars, objVars, spawnVars, worldVars, mainVars,
                 poll_ms, time_ms, arr, ready, signum>>

\* "close enough": a timer that has less than 2 ms to go is called, and the first
\* that has more ends the loop.
IsDue(id) == cb[id].due - time_ms < 2

CallTimer ==
  /\ pc[Main] = "timers"
  /\ LET ids == vec[Main][TimerVec]
         i   == FirstOf(ids, Unmarked(ToSet(ids)))
     IN  IF i = 0 \/ (i # 0 /\ ~IsDue(ids[i]))
         THEN Then("fds") /\ UNCHANGED cb
         ELSE /\ cb' = [cb EXCEPT ![ids[i]].due = @ + cb[ids[i]].interval]
              /\ Calls(ids[i], i, "timers")
  /\ UNCHANGED <<regVars, key_map, vec, caught, spawnVars, worldVars, mainVars,
                 poll_ms, time_ms, arr, ready, hits, signum>>

CallFd ==
  /\ pc[Main] = "fds"
  /\ LET i == FirstOf(arr, Unmarked(ready))
     IN  IF i = 0
         THEN Then("purge") /\ UNCHANGED cb
         ELSE cb' = [cb EXCEPT ![arr[i]].last = now] /\ Calls(arr[i], i, "fds")
  /\ UNCHANGED <<regVars, key_map, vec, caught, spawnVars, worldVars, mainVars,
                 poll_ms, time_ms, arr, ready, hits, signum>>

---------------------------------------------------------------------------
(* A callback registers, unregisters, or does something else for a while,  *)
(* and returns.                                                            *)

Callback ==
  \/ /\ pc[Main] = "callback" /\ MayRegister
     /\ \E s \in Specs : Register(Main, s, "return")
  \/ pc[Main] = "callback" /\ UnregisterKey("return")
  \/ /\ pc[Main] = "callback"
     /\ now' \in now .. MaxTime
     /\ Goto(Main, "return")
     /\ UNCHANGED <<regVars, objVars, spawnVars, events, raised, mq, mainVars, runVars, histVars>>

\* The locals of ES_run() are gone; TS_PROCESSING_FLG stays.
LeaveRun ==
  /\ Goto(Main, "idle")
  /\ poll_ms' = 0 /\ time_ms' = 0 /\ arr' = <<>> /\ ready' = {} /\ hits' = <<>>
  /\ ndx' = 1 /\ signum' = 1 /\ cur' = 0 /\ phase' = "none"

\* Single-shot timers are unregistered, and the index steps back, now.  What a
\* callback that returns nonzero leaves undone is not owed in this round.
Return ==
  /\ pc[Main] = "return"
  /\ LET single == phase = "timers" /\ cb[cur].interval = 0
     IN  \E rtn \in {0, 1} :
           /\ IF single THEN Mark(cur) /\ unregistered' = unregistered \cup {cur}
              ELSE UNCHANGED <<objVars, deleted_vec, unregistered>>
           /\ owed' = IF rtn = 0 THEN owed ELSE {}
           /\ IF rtn # 0 THEN LeaveRun
              ELSE /\ Goto(Main, phase) /\ ndx' = IF single THEN ndx ELSE ndx + 1
                   /\ cur' = 0 /\ phase' = "none"
                   /\ UNCHANGED <<poll_ms, time_ms, arr, ready, hits, signum>>
  /\ UNCHANGED <<regVars, spawnVars, worldVars, processing, late>>

\* The end of the round: the callbacks that were marked are unregistered.
Purge ==
  /\ pc[Main] = "purge"
  /\ processing' = FALSE
  /\ IF deleted_vec = <<>>
     THEN Goto(Main, "round") /\ UNCHANGED <<objVars, deleted_vec>>
     ELSE /\ deleted_vec' = Front(deleted_vec)
          /\ \E id \in Found(cb[Last(deleted_vec)].key) : Destroy(id)
          /\ UNCHANGED pc
  /\ owed' = {} /\ ready' = {} /\ arr' = <<>> /\ poll_ms' = 0 /\ time_ms' = 0
  /\ UNCHANGED <<regVars, spawnVars, worldVars, hits, ndx, signum, cur, phase,
                 unregistered, late>>

Next ==
  \/ Outside \/ Cleanup
  \/ \E w \in Workers : Spawn(w) \/ WorkerStarts(w) \/ Release(w)
  \/ \E t \in Threads : Store(t)
  \/ TestReleased \/ Awake \/ Arrives
  \/ StartRound \/ PollReturns \/ ServeSignal \/ CallSignal \/ Drain \/ CallVSignal
  \/ CallTimer \/ CallFd \/ Callback \/ Return \/ Purge

Spec == Init /\ [][Next]_vars

---------------------------------------------------------------------------
(* Properties.                                                             *)

Pcs == {"idle", "round", "poll", "signals", "signal", "drain", "vsig", "timers", "fds",
        "callback", "return", "purge", "test", "wait", "ended", "not_created", "started",
        "store", "running"}
Callbacks ==
  [owner : Threads, key : Nat, type : Types \cup {"freed"},
   of : {s.of : s \in AllSpecs} \cup {"none"}, deleted : BOOLEAN, due : Int, interval : Nat,
   last : Nat]

\* The state of the server; the keys are numbers up to that of the callbacks; a
\* time-out is -1 only if there is no timer.
TypeOK ==
  /\ cb \in Seq(Callbacks)
  /\ key_map \in [Threads -> SUBSET DOMAIN cb]
  /\ vec \in [Threads -> [Vectors -> Seq(DOMAIN cb)]]
  /\ keySrc = Len(cb) /\ loaded \in [Threads -> 0 .. Len(cb)]
  /\ pc \in [Threads -> Pcs] /\ then \in [Threads -> Pcs]
  /\ spec \in [Threads -> AllSpecs \cup {None}]
  /\ caught \subseteq ToSet(Signals) /\ raised \subseteq ToSet(Signals)
  /\ mq \in Seq(Vsigs) /\ created \subseteq Workers
  /\ condMtx \in BOOLEAN /\ release_parent \in BOOLEAN /\ processing \in BOOLEAN
  /\ now \in 0 .. MaxTime /\ time_ms \in 0 .. MaxTime /\ events \in 0 .. MaxEvents
  /\ deleted_vec \in Seq(DOMAIN cb) /\ hits \in Seq(DOMAIN cb) /\ arr \in Seq(DOMAIN cb)
  /\ ready \subseteq ToSet(arr) /\ cur \in {0} \cup DOMAIN cb
  /\ phase \in {"none", "signal", "vsig", "timers", "fds"}
  /\ ndx \in Nat \ {0} /\ signum \in Nat \ {0}
  /\ poll_ms \in Int /\ poll_ms >= -1
  /\ poll_ms = -1 => vec[Main][TimerVec] = <<>> \/ pc[Main] # "poll"
  /\ unregistered \subseteq DOMAIN cb /\ owed \subseteq DOMAIN cb /\ late \subseteq Types

\* However registering, marking and removing alternate, in and out of ES_run(): a
\* callback is in the key map if and only if it is, once, in its vector and in no
\* other; the list of what is to be removed has each that is marked, once; and
\* whoever waits for a signal has it caught.
FiledOnce ==
  pc[Main] # "ended" =>
    /\ \A t \in Threads :
         /\ key_map[t] = UNION {ToSet(vec[t][slot]) : slot \in Vectors}
         /\ \A slot \in Vectors : /\ IsInjective(vec[t][slot])
                                  /\ \A id \in ToSet(vec[t][slot]) : VecOf(cb[id]) = slot
         /\ \A id \in key_map[t] : cb[id].type = "sig" => cb[id].of \in caught
    /\ IsInjective(deleted_vec)
    /\ ToSet(deleted_vec) = {id \in key_map[Main] : cb[id].deleted}

\* A callback is not called once it was unregistered, in the same round, after
\* ES_run() returned or in its next call, nor a single-shot timer a second time;
\* but sigusr2_h() does not look at the mark, and calls those of virtual signals.
CalledWhileRegistered == late \subseteq {"vsig"}

\* Two registrations of the same process never get one key, although no lock
\* protects the counter: the spawner is held while a worker registers.
KeysUnique == \A i, j \in DOMAIN cb : i # j => cb[i].key # cb[j].key

\* In a round that no callback ends, every timer registered before it that is due
\* when the timers are served, and every file descriptor poll() reported, is called,
\* unless it was unregistered meanwhile, whatever the callbacks before it did.  A
\* timer that a callback of the round registers has this only from the next round.
EveryoneServed == pc[Main] = "purge" => \A id \in owed : cb[id].type = "timer" /\ ~IsDue(id)
=============================================================================
