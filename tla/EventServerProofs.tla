-------------------------- MODULE EventServerProofs --------------------------
(***************************************************************************)
(* The counter of keys, S.keySrc of es.c, which no lock protects: for any  *)
(* number of threads, and whatever they register, keys are unique, because *)
(* the spawner waits while the thread it has spawned registers.            *)
(*                                                                         *)
(* Then the rounds of ES_run(): for any callbacks, signals and times, and  *)
(* whatever callbacks register and unregister, maps, vectors and installed *)
(* handlers agree (FiledInv, CaughtInv), the list of what is to be removed *)
(* is what is marked (MarkedInv), what ES_run() holds on to is filed       *)
(* (RunInv), and who is owed a call is still to come (OwedInv).            *)
(***************************************************************************)
EXTENDS EventServer, SequenceTheorems, FiniteSetTheorems, WellFoundedInduction, TLAPS

\* A sequence of anything.
IsSeq(s) == Len(s) \in Nat /\ s = [i \in 1 .. Len(s) |-> s[i]]

\* Where a thread is that uses the counter, or is about to.
Registering == {"started", "store"}
\* The loops of ES_run() that call callbacks.
Phases == {"none", "signal", "vsig", "timers", "fds"}

\* One thread at a time: a worker only while the main thread waits for its
\* release, which has not been given, and for no other.
TurnInv ==
  /\ DOMAIN pc = Threads /\ DOMAIN then = Threads /\ phase \in Phases
  /\ \A w \in Workers : pc[w] = "store" => then[w] = "started"
  /\ pc[Main] = "store" => then[Main] \in {"idle", "return"}
  /\ \A w \in Workers : pc[w] \in Registering =>
       /\ pc[Main] \in {"test", "wait"} /\ ~release_parent
       /\ \A v \in Workers : pc[v] \in Registering => v = w
  /\ \A w \in Workers : w \in created \/ pc[w] = "not_created"

\* What was read of the counter is still what it holds, and no callback has a key
\* that is yet to be given.
CounterInv ==
  /\ keySrc \in Nat /\ loaded \in [Threads -> Nat]
  /\ \A t \in Threads : pc[t] = "store" => loaded[t] = keySrc
  /\ IsSeq(cb)
  /\ \A i \in DOMAIN cb : "key" \in DOMAIN cb[i] /\ cb[i].key \in 1 .. keySrc
  /\ KeysUnique

KeyInv == TurnInv /\ CounterInv

---------------------------------------------------------------------------
(* Steps that give out no key.                                             *)

\* Callbacks are changed in place, and have the keys they had.
KeysKept ==
  /\ IsSeq(cb') /\ DOMAIN cb' = DOMAIN cb
  /\ \A i \in DOMAIN cb : cb'[i].key = cb[i].key /\ DOMAIN cb'[i] = DOMAIN cb[i]

LEMMA SameObjects ==
  ASSUME CounterInv, cb' = cb
  PROVE  KeysKept
BY DEF KeysKept, CounterInv

LEMMA OneObject ==
  ASSUME CounterInv, NEW id, NEW o, cb' = [cb EXCEPT ![id] = o],
         id \in DOMAIN cb => o.key = cb[id].key /\ DOMAIN o = DOMAIN cb[id]
  PROVE  KeysKept
<1>1. DOMAIN cb' = 1 .. Len(cb) /\ DOMAIN cb = 1 .. Len(cb) /\ Len(cb) \in Nat
  BY DEF CounterInv, IsSeq
<1>2. Len(cb') = Len(cb)
  BY <1>1, LenProperties
<1>3. QED
  BY <1>1, <1>2 DEF IsSeq, KeysKept

\* A callback that is freed keeps the key it had.
LEMMA FreedKey ==
  ASSUME NEW o, "key" \in DOMAIN o
  PROVE  Freed(o).key = o.key /\ DOMAIN Freed(o) = DOMAIN o
BY DEF Freed

LEMMA CounterKept ==
  ASSUME CounterInv, UNCHANGED <<keySrc, loaded>>, KeysKept,
         \A t \in Threads : pc'[t] = "store" => pc[t] = "store"
  PROVE  CounterInv'
BY DEF CounterInv, KeysUnique, KeysKept

\* The main thread goes its way while no worker registers.
LEMMA MainGoes ==
  ASSUME KeyInv, NEW s, s \notin {"store", "test", "wait"}, Goto(Main, s),
         pc[Main] \notin {"test", "wait"}, UNCHANGED <<then, created, keySrc, loaded>>,
         phase' \in Phases, KeysKept
  PROVE  KeyInv'
<1> USE WorkersAssumption
<1>1. /\ pc'[Main] = s /\ \A w \in Workers : pc'[w] = pc[w] /\ pc[w] \notin Registering
      /\ DOMAIN pc' = Threads
  BY DEF KeyInv, TurnInv, Goto, Threads
<1>2. TurnInv'
  BY <1>1 DEF KeyInv, TurnInv, Registering
<1>3. \A t \in Threads : pc'[t] = "store" => pc[t] = "store"
  BY <1>1 DEF Threads
<1>4. QED
  BY <1>2, <1>3, CounterKept DEF KeyInv

LEMMA NobodyMoves ==
  ASSUME KeyInv, UNCHANGED <<pc, then, created, release_parent, phase, keySrc, loaded>>,
         KeysKept
  PROVE  KeyInv'
<1>1. TurnInv'
  BY DEF KeyInv, TurnInv
<1>2. QED
  BY <1>1, CounterKept DEF KeyInv

---------------------------------------------------------------------------
(* Callbacks are unregistered.                                             *)

LEMMA MarkKeepsKeys ==
  ASSUME CounterInv, NEW id, Mark(id)
  PROVE  KeysKept
<1>1. CASE Marks(id)
  <2>1. cb' = [cb EXCEPT ![id] = [cb[id] EXCEPT !.deleted = TRUE]]
    BY <1>1 DEF Mark
  <2>2. id \in DOMAIN cb => "key" \in DOMAIN cb[id]
    BY DEF CounterInv
  <2>3. id \in DOMAIN cb =>
          /\ [cb[id] EXCEPT !.deleted = TRUE].key = cb[id].key
          /\ DOMAIN [cb[id] EXCEPT !.deleted = TRUE] = DOMAIN cb[id]
    BY <2>2
  <2>4. QED
    BY <2>1, <2>3, OneObject
<1>2. CASE ~Marks(id)
  BY <1>2, SameObjects DEF Mark, objVars
<1>3. QED
  BY <1>1, <1>2

LEMMA DestroyKeepsKeys ==
  ASSUME CounterInv, NEW id, Destroy(id)
  PROVE  KeysKept
<1>1. cb' = [cb EXCEPT ![id] = Freed(cb[id])]
  BY DEF Destroy
<1>2. id \in DOMAIN cb => /\ Freed(cb[id]).key = cb[id].key
                          /\ DOMAIN Freed(cb[id]) = DOMAIN cb[id]
  BY FreedKey DEF CounterInv
<1>3. QED
  BY <1>1, <1>2, OneObject

LEMMA UnregisterKeepsKeys ==
  ASSUME CounterInv, NEW next, UnregisterKey(next)
  PROVE  KeysKept
<1>1. PICK key \in Keys :
        IF Found(key) = {} THEN UNCHANGED <<objVars, mainVars, histVars>>
        ELSE /\ \E id \in Found(key) : Unregister(id)
             /\ UNCHANGED <<processing, late>>
  BY DEF UnregisterKey
<1>2. CASE Found(key) = {}
  BY <1>1, <1>2, SameObjects DEF objVars
<1>3. CASE Found(key) # {}
  <2>1. PICK id \in Found(key) : Unregister(id)
    BY <1>1, <1>3
  <2>2. Mark(id) \/ Destroy(id)
    BY <2>1 DEF Unregister
  <2>3. QED
    BY <2>2, MarkKeepsKeys, DestroyKeepsKeys
<1>4. QED
  BY <1>2, <1>3

---------------------------------------------------------------------------
(* The key is read and written.                                            *)

LEMMA MainRegisters ==
  ASSUME KeyInv, NEW s, NEW back \in {"idle", "return"}, Register(Main, s, back),
         pc[Main] \notin {"test", "wait"}
  PROVE  KeyInv'
<1> USE WorkersAssumption
<1>1. /\ pc'[Main] = "store" /\ then'[Main] = back /\ DOMAIN pc' = Threads
      /\ \A w \in Workers : pc'[w] = pc[w] /\ pc[w] \notin Registering
      /\ DOMAIN then' = Threads
  <2>1. /\ pc' = [pc EXCEPT ![Main] = "store"] /\ then' = [then EXCEPT ![Main] = back]
        /\ DOMAIN pc = Threads /\ DOMAIN then = Threads /\ Main \in Threads
    BY DEF KeyInv, TurnInv, Register, Goto, Threads
  <2>2. \A w \in Workers : pc[w] \notin Registering /\ w \in Threads /\ w # Main
    BY DEF KeyInv, TurnInv, Threads
  <2>3. QED
    BY <2>1, <2>2
<1>2. TurnInv'
  BY <1>1 DEF KeyInv, TurnInv, Registering, Register, runVars, spawnVars
<1>3. /\ loaded' \in [Threads -> Nat] /\ loaded'[Main] = keySrc /\ keySrc' = keySrc
      /\ cb' = cb
  BY DEF KeyInv, CounterInv, Register, Threads, objVars
<1>4. \A t \in Threads : pc'[t] = "store" => loaded'[t] = keySrc
  BY <1>1, <1>3 DEF Threads, Registering
<1>5. CounterInv'
  BY <1>3, <1>4 DEF KeyInv, CounterInv, KeysUnique, IsSeq
<1>6. QED
  BY <1>2, <1>5 DEF KeyInv

LEMMA WorkerReadsKey ==
  ASSUME KeyInv, NEW w \in Workers, WorkerStarts(w)
  PROVE  KeyInv'
<1> USE WorkersAssumption
<1>1. pc[w] = "started" /\ \E s : Register(w, s, "started")
  BY DEF WorkerStarts
<1>2. /\ pc' = [pc EXCEPT ![w] = "store"] /\ then' = [then EXCEPT ![w] = "started"]
      /\ loaded' = [loaded EXCEPT ![w] = keySrc]
      /\ UNCHANGED <<keySrc, cb, created, release_parent, phase>>
  BY <1>1 DEF Register, Goto, objVars, spawnVars, runVars
<1>3. \A t \in Threads : t # w => pc'[t] = pc[t] /\ pc[t] # "store"
  BY <1>1, <1>2 DEF KeyInv, TurnInv, Threads, Registering
<1>4. TurnInv'
  <2>1. /\ DOMAIN pc' = Threads /\ DOMAIN then' = Threads /\ phase' \in Phases
        /\ w \in Threads /\ Main \in Threads /\ pc'[Main] = pc[Main]
        /\ pc'[w] = "store" /\ then'[w] = "started"
    BY <1>2 DEF KeyInv, TurnInv, Threads
  <2>2. /\ pc[Main] \in {"test", "wait"} /\ ~release_parent /\ w \in created
        /\ \A v \in Workers : pc[v] \in Registering => v = w
    BY <1>1 DEF KeyInv, TurnInv, Registering
  <2>3. \A v \in Workers : v # w => pc'[v] = pc[v] /\ pc[v] \notin Registering
    BY <1>3, <2>2 DEF Threads
  <2>4. \A v \in Workers : v \in created' \/ pc'[v] = "not_created"
    BY <1>2, <2>2, <2>3 DEF KeyInv, TurnInv
  <2>5. QED
    BY <1>2, <2>1, <2>2, <2>3, <2>4 DEF TurnInv, Registering
<1>5. CounterInv'
  BY <1>2, <1>3 DEF KeyInv, CounterInv, KeysUnique, IsSeq, Threads
<1>6. QED
  BY <1>4, <1>5 DEF KeyInv

\* A new callback with the next key is put behind the others.
LEMMA NewKey ==
  ASSUME CounterInv, NEW o, "key" \in DOMAIN o, o.key = keySrc + 1, cb' = Append(cb, o),
         keySrc' = keySrc + 1
  PROVE  /\ IsSeq(cb')
         /\ \A i \in DOMAIN cb' : "key" \in DOMAIN cb'[i] /\ cb'[i].key \in 1 .. keySrc'
         /\ KeysUnique'
<1> DEFINE S == {cb[i] : i \in 1 .. Len(cb)} \cup {o}
<1>1. cb \in Seq(S) /\ Len(cb) \in Nat /\ DOMAIN cb = 1 .. Len(cb) /\ keySrc \in Nat
  <2>1. Len(cb) \in Nat /\ cb = [i \in 1 .. Len(cb) |-> cb[i]] /\ keySrc \in Nat
    BY DEF CounterInv, IsSeq
  <2>2. cb \in [1 .. Len(cb) -> S]
    BY <2>1
  <2>3. QED
    BY <2>1, <2>2
<1>2. /\ cb' \in Seq(S) /\ Len(cb') = Len(cb) + 1 /\ cb'[Len(cb) + 1] = o
      /\ \A i \in 1 .. Len(cb) : cb'[i] = cb[i]
  BY <1>1, AppendProperties
<1>3. IsSeq(cb') /\ DOMAIN cb' = 1 .. (Len(cb) + 1)
  <2>1. cb' \in [1 .. Len(cb') -> S] /\ Len(cb') \in Nat
    BY <1>2, LenProperties
  <2>2. QED
    BY <1>2, <2>1 DEF IsSeq
<1>4. \A i \in 1 .. Len(cb) : "key" \in DOMAIN cb[i] /\ cb[i].key \in 1 .. keySrc
  BY <1>1 DEF CounterInv
<1>5. \A i \in DOMAIN cb' : "key" \in DOMAIN cb'[i] /\ cb'[i].key \in 1 .. keySrc'
  <2> TAKE i \in DOMAIN cb'
  <2>1. CASE i \in 1 .. Len(cb)
    BY <1>1, <1>2, <1>4, <2>1
  <2>2. CASE i = Len(cb) + 1
    BY <1>1, <1>2, <2>2
  <2>3. QED
    BY <1>1, <1>3, <2>1, <2>2
<1>6. KeysUnique'
  <2>1. \A i, j \in 1 .. Len(cb) : i # j => cb[i].key # cb[j].key
    BY <1>1 DEF CounterInv, KeysUnique
  <2>2. ASSUME NEW i \in DOMAIN cb', NEW j \in DOMAIN cb', i # j
        PROVE  cb'[i].key # cb'[j].key
    <3>1. CASE i \in 1 .. Len(cb) /\ j \in 1 .. Len(cb)
      BY <1>2, <2>1, <2>2, <3>1
    <3>2. CASE i = Len(cb) + 1 /\ j \in 1 .. Len(cb)
      BY <1>1, <1>2, <1>4, <3>2
    <3>3. CASE i \in 1 .. Len(cb) /\ j = Len(cb) + 1
      BY <1>1, <1>2, <1>4, <3>3
    <3>4. QED
      BY <1>1, <1>3, <2>2, <3>1, <3>2, <3>3
  <2>3. QED
    BY <2>2 DEF KeysUnique
<1>7. QED
  BY <1>3, <1>5, <1>6

LEMMA StoreGivesKey ==
  ASSUME KeyInv, NEW t \in Threads, Store(t)
  PROVE  KeyInv'
<1> USE WorkersAssumption
<1>1. /\ pc[t] = "store" /\ loaded[t] = keySrc /\ keySrc' = keySrc + 1 /\ keySrc' \in Nat
      /\ pc' = [pc EXCEPT ![t] = then[t]] /\ then' = [then EXCEPT ![t] = "idle"]
      /\ loaded' = [loaded EXCEPT ![t] = 0]
      /\ UNCHANGED <<created, release_parent, phase>>
  BY DEF Store, Goto, KeyInv, CounterInv, spawnVars, runVars
<1>2. then[t] \in {"started", "idle", "return"} /\ (t \in Workers <=> then[t] = "started")
  BY <1>1 DEF KeyInv, TurnInv, Threads
<1>3. \A u \in Threads : pc'[u] # "store"
  BY <1>1, <1>2 DEF KeyInv, TurnInv, Threads, Registering
<1>4. \A u \in Threads : pc'[u] \in Registering => pc[u] \in Registering
  BY <1>1, <1>2 DEF KeyInv, TurnInv, Registering
<1>5. TurnInv'
  <2>1. /\ DOMAIN pc' = Threads /\ DOMAIN then' = Threads /\ phase' \in Phases
        /\ \A u \in Threads : pc'[u] = IF u = t THEN then[t] ELSE pc[u]
    BY <1>1, <1>2 DEF KeyInv, TurnInv
  <2>2. ASSUME NEW w \in Workers, pc'[w] \in Registering
        PROVE  /\ pc'[Main] \in {"test", "wait"} /\ ~release_parent'
               /\ \A v \in Workers : pc'[v] \in Registering => v = w
    <3>1. /\ pc[Main] \in {"test", "wait"} /\ ~release_parent
          /\ \A v \in Workers : pc[v] \in Registering => v = w
      BY <1>4, <2>2 DEF KeyInv, TurnInv, Threads
    <3>2. t # Main
      BY <1>1, <3>1
    <3>3. QED
      BY <1>1, <1>4, <2>1, <3>1, <3>2 DEF Threads
  <2>3. \A w \in Workers : w \in created' \/ pc'[w] = "not_created"
    BY <1>1, <2>1 DEF KeyInv, TurnInv, Threads
  <2>4. QED
    BY <1>3, <2>1, <2>2, <2>3 DEF TurnInv, Threads
<1>6. \E o : "key" \in DOMAIN o /\ o.key = keySrc + 1 /\ cb' = Append(cb, o)
  BY <1>1 DEF Store
<1>7. CounterInv'
  BY <1>1, <1>3, <1>6, NewKey DEF KeyInv, CounterInv
<1>8. QED
  BY <1>5, <1>7 DEF KeyInv

---------------------------------------------------------------------------
(* The main thread waits for the thread it spawns.                         *)

LEMMA SpawnHolds ==
  ASSUME KeyInv, NEW w \in Workers, Spawn(w)
  PROVE  KeyInv'
<1> USE WorkersAssumption
<1>1. /\ pc[Main] = "idle" /\ pc[w] = "not_created"
      /\ pc' = [pc EXCEPT ![Main] = "test", ![w] = "started"]
      /\ created' = created \cup {w} /\ ~release_parent'
      /\ UNCHANGED <<then, phase, keySrc, loaded, cb>>
  BY DEF Spawn, Idle, KeyInv, TurnInv, regVars, objVars, runVars
<1>2. DOMAIN pc' = Threads /\ pc'[Main] = "test" /\ pc'[w] = "started"
  BY <1>1 DEF KeyInv, TurnInv, Threads
<1>3. \A v \in Workers : v # w => pc'[v] = pc[v] /\ pc[v] \notin Registering
  BY <1>1 DEF KeyInv, TurnInv, Threads
<1>4. TurnInv'
  BY <1>1, <1>2, <1>3 DEF KeyInv, TurnInv, Registering
<1>5. \A t \in Threads : pc'[t] # "store"
  BY <1>2, <1>3 DEF Threads, Registering
<1>6. CounterInv'
  BY <1>1, <1>5, SameObjects, CounterKept DEF KeyInv
<1>7. QED
  BY <1>4, <1>6 DEF KeyInv

\* Main wakes up for no reason, and goes on only if it was released.
LEMMA WaitHolds ==
  ASSUME KeyInv, TestReleased \/ Awake
  PROVE  KeyInv'
<1> USE WorkersAssumption
<1>1. /\ pc[Main] \in {"test", "wait"}
      /\ UNCHANGED <<then, phase, keySrc, loaded, cb, created, release_parent>>
  BY DEF TestReleased, Awake, regVars, objVars, runVars
<1>2. /\ DOMAIN pc' = Threads /\ pc'[Main] \in {"test", "wait", "idle"}
      /\ pc'[Main] = "idle" => release_parent
      /\ \A w \in Workers : pc'[w] = pc[w]
  BY DEF KeyInv, TurnInv, TestReleased, Awake, MayContinue, Goto, Threads
<1>3. TurnInv'
  BY <1>1, <1>2 DEF KeyInv, TurnInv, Registering
<1>4. \A t \in Threads : pc'[t] = "store" => pc[t] = "store"
  BY <1>2 DEF Threads
<1>5. CounterInv'
  BY <1>1, <1>4, SameObjects, CounterKept DEF KeyInv
<1>6. QED
  BY <1>3, <1>5 DEF KeyInv

LEMMA ReleaseHolds ==
  ASSUME KeyInv, NEW w \in Workers, Release(w)
  PROVE  KeyInv'
<1> USE WorkersAssumption
<1>1. /\ pc[w] = "started" /\ pc' = [pc EXCEPT ![w] = "running"]
      /\ UNCHANGED <<then, phase, keySrc, loaded, cb, created>>
  BY DEF Release, Goto, regVars, objVars, runVars
<1>2. /\ DOMAIN pc' = Threads /\ pc'[Main] = pc[Main] /\ pc'[w] = "running"
      /\ \A t \in Threads : t # w => pc'[t] = pc[t]
  BY <1>1 DEF KeyInv, TurnInv, Threads
<1>3. \A v \in Workers : pc'[v] \notin Registering
  BY <1>1, <1>2 DEF KeyInv, TurnInv, Registering, Threads
<1>4. w \in created
  BY <1>1 DEF KeyInv, TurnInv
<1>5. TurnInv'
  BY <1>1, <1>2, <1>3, <1>4 DEF KeyInv, TurnInv, Registering, Threads
<1>6. \A t \in Threads : pc'[t] = "store" => pc[t] = "store"
  BY <1>2
<1>7. CounterInv'
  BY <1>1, <1>6, SameObjects, CounterKept DEF KeyInv
<1>8. QED
  BY <1>5, <1>7 DEF KeyInv

---------------------------------------------------------------------------
(* What Main does otherwise.                                               *)

LEMMA OutsideGoes ==
  ASSUME KeyInv, Outside \/ Cleanup
  PROVE  KeyInv'
<1>1. pc[Main] = "idle"
  BY DEF Outside, Cleanup, Idle
<1>2. CASE \E s : Register(Main, s, "idle")
  BY <1>1, <1>2, MainRegisters
<1>3. CASE UnregisterKey("idle")
  <2>1. Goto(Main, "idle") /\ UNCHANGED <<then, created, keySrc, loaded, phase>>
    BY <1>3 DEF UnregisterKey, regVars, spawnVars, runVars
  <2>2. KeysKept
    BY <1>3, UnregisterKeepsKeys DEF KeyInv
  <2>3. phase' \in Phases
    BY <2>1 DEF KeyInv, TurnInv
  <2>4. QED
    BY <1>1, <2>1, <2>2, <2>3, MainGoes
<1>4. CASE /\ Goto(Main, "round")
           /\ UNCHANGED <<regVars, objVars, spawnVars, worldVars, mainVars, runVars, histVars>>
  <2>1. UNCHANGED <<then, created, keySrc, loaded, phase, cb>>
    BY <1>4 DEF regVars, objVars, spawnVars, runVars
  <2>2. KeysKept /\ phase' \in Phases
    BY <2>1, SameObjects DEF KeyInv, TurnInv
  <2>3. QED
    BY <1>1, <1>4, <2>1, <2>2, MainGoes
<1>5. CASE Cleanup
  <2>1. /\ Goto(Main, "ended") /\ UNCHANGED <<then, created, keySrc, loaded, phase>>
        /\ cb' = [id \in DOMAIN cb |-> IF id \in key_map[Main] THEN Freed(cb[id]) ELSE cb[id]]
    BY <1>5 DEF Cleanup, regVars, spawnVars, runVars
  <2>2. KeysKept
    <3>1. \A id \in DOMAIN cb : /\ Freed(cb[id]).key = cb[id].key
                                /\ DOMAIN Freed(cb[id]) = DOMAIN cb[id]
      BY FreedKey DEF KeyInv, CounterInv
    <3>2. \A id \in DOMAIN cb : cb'[id].key = cb[id].key /\ DOMAIN cb'[id] = DOMAIN cb[id]
      BY <2>1, <3>1
    <3>3. DOMAIN cb = 1 .. Len(cb) /\ Len(cb) \in Nat /\ DOMAIN cb' = DOMAIN cb
      BY <2>1 DEF KeyInv, CounterInv, IsSeq
    <3>4. Len(cb') = Len(cb) /\ cb' = [i \in 1 .. Len(cb) |-> cb'[i]]
      BY <2>1, <3>3, LenProperties
    <3>5. QED
      BY <3>2, <3>3, <3>4 DEF KeysKept, IsSeq
  <2>3. phase' \in Phases
    BY <2>1 DEF KeyInv, TurnInv
  <2>4. QED
    BY <1>1, <2>1, <2>2, <2>3, MainGoes
<1>6. QED
  BY <1>2, <1>3, <1>4, <1>5 DEF Outside

\* Where a round goes on, from one vector of callbacks to the next.
Onward == {"poll", "signals", "signal", "drain", "vsig", "timers", "fds", "purge",
           "callback", "return", "none", "idle"}

\* Main calls a callback or goes on, and no key changes.
LEMMA RoundGoes ==
  ASSUME KeyInv, NEW next \in Onward, Goto(Main, next), phase' \in Phases, KeysKept,
         pc[Main] \notin {"test", "wait"}, UNCHANGED <<then, created, keySrc, loaded>>
  PROVE  KeyInv'
<1>1. next \notin {"store", "test", "wait"}
  BY DEF Onward
<1>2. QED
  BY <1>1, MainGoes

LEMMA CallsOrThen ==
  ASSUME KeyInv, NEW id, NEW i, NEW in \in Phases, NEW next \in Onward,
         Calls(id, i, in) \/ Then(next)
  PROVE  phase' \in Phases /\ \E s \in Onward : Goto(Main, s)
BY DEF Calls, Then, Onward, KeyInv, TurnInv

LEMMA RoundHolds ==
  ASSUME KeyInv, StartRound \/ PollReturns \/ ServeSignal \/ CallSignal \/ Drain \/ CallVSignal
  PROVE  KeyInv'
<1>1. /\ pc[Main] \notin {"test", "wait"}
      /\ UNCHANGED <<then, created, keySrc, loaded, cb>>
  BY DEF StartRound, PollReturns, ServeSignal, CallSignal, Drain, CallVSignal,
         regVars, spawnVars, objVars
<1>2. KeysKept
  BY <1>1, SameObjects DEF KeyInv
<1>3. phase' \in Phases /\ \E s \in Onward : Goto(Main, s)
  <2>1. CASE StartRound \/ PollReturns
    BY <2>1 DEF StartRound, PollReturns, Onward, KeyInv, TurnInv
  <2>2. CASE ServeSignal
    BY <2>2 DEF ServeSignal, Then, Onward, KeyInv, TurnInv
  <2>3. CASE CallSignal
    <3>1. Then("signals") \/ \E id, i : Calls(id, i, "signal")
      BY <2>3 DEF CallSignal
    <3>2. "signals" \in Onward /\ "signal" \in Phases
      BY DEF Phases, Onward
    <3>3. QED
      BY <3>1, <3>2, CallsOrThen
  <2>4. CASE Drain
    BY <2>4 DEF Drain, Then, Onward, KeyInv, TurnInv
  <2>5. CASE CallVSignal
    <3>1. Then("drain") \/ \E id, i : Calls(id, i, "vsig")
      BY <2>5 DEF CallVSignal
    <3>2. "drain" \in Onward /\ "vsig" \in Phases
      BY DEF Phases, Onward
    <3>3. QED
      BY <3>1, <3>2, CallsOrThen
  <2>6. QED
    BY <2>1, <2>2, <2>3, <2>4, <2>5
<1>4. QED
  BY <1>1, <1>2, <1>3, RoundGoes

LEMMA CallTimerHolds ==
  ASSUME KeyInv, CallTimer
  PROVE  KeyInv'
<1>1. pc[Main] = "timers" /\ UNCHANGED <<then, created, keySrc, loaded>>
  BY DEF CallTimer, regVars, spawnVars
<1>2. "fds" \in Onward /\ "timers" \in Phases
  BY DEF Phases, Onward
<1>3. CASE Then("fds") /\ UNCHANGED cb
  <2>1. phase' \in Phases /\ \E s \in Onward : Goto(Main, s)
    BY <1>2, <1>3, CallsOrThen
  <2>2. KeysKept
    BY <1>3, SameObjects DEF KeyInv
  <2>3. QED
    BY <1>1, <2>1, <2>2, RoundGoes
<1>4. CASE \E id, i : /\ cb' = [cb EXCEPT ![id].due = @ + cb[id].interval]
                      /\ Calls(id, i, "timers")
  <2>1. PICK id, i : /\ cb' = [cb EXCEPT ![id].due = @ + cb[id].interval]
                     /\ Calls(id, i, "timers")
    BY <1>4
  <2> DEFINE o == [cb[id] EXCEPT !.due = @ + cb[id].interval]
  <2>2. phase' \in Phases /\ \E s \in Onward : Goto(Main, s)
    BY <1>2, <2>1, CallsOrThen
  <2>3. cb' = [cb EXCEPT ![id] = o]
    BY <2>1
  <2>4. id \in DOMAIN cb => o.key = cb[id].key /\ DOMAIN o = DOMAIN cb[id]
    BY DEF KeyInv, CounterInv
  <2> HIDE DEF o
  <2>5. KeysKept
    BY <2>3, <2>4, OneObject DEF KeyInv
  <2>6. QED
    BY <1>1, <2>2, <2>5, RoundGoes
<1>5. QED
  BY <1>3, <1>4 DEF CallTimer

LEMMA CallFdHolds ==
  ASSUME KeyInv, CallFd
  PROVE  KeyInv'
<1>1. pc[Main] = "fds" /\ UNCHANGED <<then, created, keySrc, loaded>>
  BY DEF CallFd, regVars, spawnVars
<1>2. "purge" \in Onward /\ "fds" \in Phases
  BY DEF Phases, Onward
<1>3. CASE Then("purge") /\ UNCHANGED cb
  <2>1. phase' \in Phases /\ \E s \in Onward : Goto(Main, s)
    BY <1>2, <1>3, CallsOrThen
  <2>2. KeysKept
    BY <1>3, SameObjects DEF KeyInv
  <2>3. QED
    BY <1>1, <2>1, <2>2, RoundGoes
<1>4. CASE \E id, i : cb' = [cb EXCEPT ![id].last = now] /\ Calls(id, i, "fds")
  <2>1. PICK id, i : cb' = [cb EXCEPT ![id].last = now] /\ Calls(id, i, "fds")
    BY <1>4
  <2> DEFINE o == [cb[id] EXCEPT !.last = now]
  <2>2. phase' \in Phases /\ \E s \in Onward : Goto(Main, s)
    BY <1>2, <2>1, CallsOrThen
  <2>3. cb' = [cb EXCEPT ![id] = o]
    BY <2>1
  <2>4. id \in DOMAIN cb => o.key = cb[id].key /\ DOMAIN o = DOMAIN cb[id]
    BY DEF KeyInv, CounterInv
  <2> HIDE DEF o
  <2>5. KeysKept
    BY <2>3, <2>4, OneObject DEF KeyInv
  <2>6. QED
    BY <1>1, <2>2, <2>5, RoundGoes
<1>5. QED
  BY <1>3, <1>4 DEF CallFd

LEMMA CallbackHolds ==
  ASSUME KeyInv, Callback
  PROVE  KeyInv'
<1>1. pc[Main] = "callback"
  BY DEF Callback
<1>2. "return" \in Onward
  BY DEF Onward
<1>3. CASE \E s : Register(Main, s, "return")
  BY <1>1, <1>3, MainRegisters
<1>4. CASE UnregisterKey("return")
  <2>1. /\ Goto(Main, "return") /\ UNCHANGED <<then, created, keySrc, loaded>>
        /\ phase' \in Phases
    BY <1>4 DEF UnregisterKey, regVars, spawnVars, runVars, KeyInv, TurnInv
  <2>2. KeysKept
    BY <1>4, UnregisterKeepsKeys DEF KeyInv
  <2>3. QED
    BY <1>1, <1>2, <2>1, <2>2, RoundGoes
<1>5. CASE /\ Goto(Main, "return")
           /\ UNCHANGED <<regVars, objVars, spawnVars, runVars>>
  <2>1. UNCHANGED <<then, created, keySrc, loaded, cb>> /\ phase' \in Phases
    BY <1>5 DEF regVars, objVars, spawnVars, runVars, KeyInv, TurnInv
  <2>2. KeysKept
    BY <2>1, SameObjects DEF KeyInv
  <2>3. QED
    BY <1>1, <1>2, <1>5, <2>1, <2>2, RoundGoes
<1>6. QED
  BY <1>3, <1>4, <1>5 DEF Callback

LEMMA ReturnHolds ==
  ASSUME KeyInv, Return
  PROVE  KeyInv'
<1>1. pc[Main] = "return" /\ UNCHANGED <<then, created, keySrc, loaded>>
  BY DEF Return, regVars, spawnVars
<1>2. phase' \in Phases /\ \E s \in Onward : Goto(Main, s)
  <2>1. LeaveRun \/ (Goto(Main, phase) /\ phase' = "none")
    <3>1. \E rtn \in {0, 1} : IF rtn # 0 THEN LeaveRun ELSE Goto(Main, phase) /\ phase' = "none"
      BY Zenon DEF Return
    <3>2. QED
      BY <3>1
  <2>2. phase \in Onward /\ "idle" \in Onward /\ "none" \in Phases
    BY DEF KeyInv, TurnInv, Phases, Onward
  <2>3. QED
    BY <2>1, <2>2 DEF LeaveRun
<1>3. KeysKept
  <2>1. Mark(cur) \/ UNCHANGED objVars
    <3>1. PICK rtn \in {0, 1} :
            IF phase = "timers" /\ cb[cur].interval = 0
            THEN Mark(cur) /\ unregistered' = unregistered \cup {cur}
            ELSE UNCHANGED <<objVars, deleted_vec, unregistered>>
      BY Zenon DEF Return
    <3>2. QED
      BY <3>1
  <2>2. QED
    BY <2>1, MarkKeepsKeys, SameObjects DEF KeyInv, objVars
<1>4. QED
  BY <1>1, <1>2, <1>3, RoundGoes

LEMMA PurgeHolds ==
  ASSUME KeyInv, Purge
  PROVE  KeyInv'
<1>1. /\ pc[Main] = "purge" /\ phase' = phase
      /\ UNCHANGED <<then, created, release_parent, keySrc, loaded>>
  BY DEF Purge, regVars, spawnVars
<1>2. CASE deleted_vec = <<>>
  <2>1. Goto(Main, "round") /\ UNCHANGED cb
    BY <1>2 DEF Purge, objVars
  <2>2. KeysKept /\ phase' \in Phases
    BY <1>1, <2>1, SameObjects DEF KeyInv, TurnInv
  <2>3. QED
    BY <1>1, <2>1, <2>2, MainGoes
<1>3. CASE deleted_vec # <<>>
  <2>1. pc' = pc /\ \E id : Destroy(id)
    BY <1>3 DEF Purge
  <2>2. KeysKept
    BY <2>1, DestroyKeepsKeys DEF KeyInv
  <2>3. QED
    BY <1>1, <2>1, <2>2, NobodyMoves
<1>4. QED
  BY <1>2, <1>3

---------------------------------------------------------------------------
(* Every step keeps the invariant.                                         *)

LEMMA Initial == Init => KeyInv
<1> USE WorkersAssumption
<1>1. SUFFICES ASSUME Init PROVE TurnInv /\ CounterInv
  BY DEF KeyInv
<1>2. TurnInv
  BY <1>1 DEF Init, TurnInv, Threads, Registering, Phases
<1>3. cb = <<>> /\ Len(cb) = 0 /\ DOMAIN cb = {} /\ IsSeq(cb)
  BY <1>1 DEF Init, IsSeq
<1>4. \A t \in Threads : pc[t] # "store"
  BY <1>1 DEF Init
<1>5. keySrc \in Nat /\ loaded \in [Threads -> Nat]
  BY <1>1 DEF Init
<1>6. CounterInv
  BY <1>3, <1>4, <1>5 DEF CounterInv, KeysUnique
<1>7. QED
  BY <1>2, <1>6

LEMMA Consecution ==
  ASSUME KeyInv, [Next]_vars
  PROVE  KeyInv'
<1>1. CASE Outside \/ Cleanup
  BY <1>1, OutsideGoes
<1>2. CASE \E w \in Workers : Spawn(w) \/ WorkerStarts(w) \/ Release(w)
  BY <1>2, SpawnHolds, WorkerReadsKey, ReleaseHolds
<1>3. CASE \E t \in Threads : Store(t)
  BY <1>3, StoreGivesKey
<1>4. CASE TestReleased \/ Awake
  BY <1>4, WaitHolds
<1>5. CASE Arrives \/ UNCHANGED vars
  <2>1. UNCHANGED <<pc, then, created, release_parent, phase, keySrc, loaded, cb>>
    BY <1>5 DEF Arrives, vars, regVars, objVars, spawnVars, runVars
  <2>2. QED
    BY <2>1, SameObjects, NobodyMoves DEF KeyInv
<1>6. CASE StartRound \/ PollReturns \/ ServeSignal \/ CallSignal \/ Drain \/ CallVSignal
  BY <1>6, RoundHolds
<1>7. CASE CallTimer \/ CallFd
  BY <1>7, CallTimerHolds, CallFdHolds
<1>8. CASE Callback \/ Return \/ Purge
  BY <1>8, CallbackHolds, ReturnHolds, PurgeHolds
<1>9. QED
  BY <1>1, <1>2, <1>3, <1>4, <1>5, <1>6, <1>7, <1>8 DEF Next

\* No two callbacks of a process are ever given one key (ES_registerTimer() and
\* the like): the increment of S.keySrc by two steps, without a lock, is safe,
\* since ES_spawn_thread_sched() returns when the thread has released its parent.
THEOREM KeysCorrect == Spec => []KeysUnique
<1>1. KeyInv /\ [Next]_vars => KeyInv'
  BY Consecution
<1>2. KeyInv => KeysUnique
  BY DEF KeyInv, CounterInv
<1>3. QED
  BY Initial, <1>1, <1>2, PTL DEF Spec

---------------------------------------------------------------------------
(* Sequences of callbacks.                                                 *)

LEMMA Elements ==
  ASSUME NEW S, NEW s \in Seq(S)
  PROVE  /\ Len(s) \in Nat /\ DOMAIN s = 1 .. Len(s) /\ ToSet(s) \subseteq S
         /\ \A i \in DOMAIN s : s[i] \in S /\ s[i] \in ToSet(s)
         /\ s # <<>> => 1 \in DOMAIN s /\ Len(s) \in DOMAIN s
BY LenProperties, EmptySeq DEF ToSet

LEMMA Appended ==
  ASSUME NEW S, NEW s \in Seq(S), NEW x \in S
  PROVE  /\ Append(s, x) \in Seq(S) /\ ToSet(Append(s, x)) = ToSet(s) \cup {x}
         /\ DOMAIN Append(s, x) = DOMAIN s \cup {Len(s) + 1}
         /\ \A i \in DOMAIN s : Append(s, x)[i] = s[i] /\ i < Len(s) + 1
         /\ Append(s, x)[Len(s) + 1] = x
         /\ IsInjective(s) /\ x \notin ToSet(s) => IsInjective(Append(s, x))
<1> DEFINE t == Append(s, x)
<1>1. /\ t \in Seq(S) /\ Len(t) = Len(s) + 1 /\ Len(s) \in Nat
      /\ DOMAIN t = 1 .. Len(s) + 1 /\ DOMAIN s = 1 .. Len(s)
      /\ \A i \in 1 .. Len(s) : t[i] = s[i]
      /\ t[Len(s) + 1] = x
  BY AppendProperties, LenProperties
<1>2. DOMAIN t = DOMAIN s \cup {Len(s) + 1} /\ \A i \in DOMAIN s : i < Len(s) + 1
  BY <1>1
<1>3. QED
  BY <1>1, <1>2 DEF ToSet, IsInjective

LEMMA TakenOut ==
  ASSUME NEW S, NEW s \in Seq(S), NEW i \in DOMAIN s, IsInjective(s)
  PROVE  /\ RemoveAt(s, i) \in Seq(S) /\ IsInjective(RemoveAt(s, i))
         /\ ToSet(RemoveAt(s, i)) = ToSet(s) \ {s[i]}
<1> DEFINE n == Len(s)
           a == SubSeq(s, 1, i - 1)
           b == SubSeq(s, i + 1, n)
           r == RemoveAt(s, i)
<1>1. n \in Nat /\ DOMAIN s = 1 .. n /\ i \in 1 .. n /\ \A k \in 1 .. n : s[k] \in S
  BY LenProperties, ElementOfSeq
<1> HIDE DEF n
<1>2. /\ a \in Seq(S) /\ Len(a) = i - 1
      /\ \A k \in 1 .. i - 1 : a[k] = s[k]
  BY <1>1, SubSeqProperties
<1>3. /\ b \in Seq(S) /\ Len(b) = n - i
      /\ \A k \in 1 .. n - i : b[k] = s[i + k]
  BY <1>1, SubSeqProperties
<1> HIDE DEF a, b
<1>4. r = a \o b
  BY DEF RemoveAt, a, b, n
<1> HIDE DEF r
<1>5. /\ r \in Seq(S) /\ Len(r) = n - 1
      /\ \A k \in 1 .. n - 1 : r[k] = IF k < i THEN s[k] ELSE s[k + 1]
  <2>1. /\ a \o b \in Seq(S) /\ Len(a \o b) = (i - 1) + (n - i)
        /\ \A k \in 1 .. (i - 1) + (n - i) :
             (a \o b)[k] = IF k <= i - 1 THEN a[k] ELSE b[k - (i - 1)]
    <3>1. /\ a \o b \in Seq(S) /\ Len(a \o b) = Len(a) + Len(b)
          /\ \A k \in 1 .. Len(a) + Len(b) :
               (a \o b)[k] = IF k <= Len(a) THEN a[k] ELSE b[k - Len(a)]
      BY <1>2, <1>3, ConcatProperties
    <3>2. QED
      BY <1>2, <1>3, <3>1
  <2>2. ASSUME NEW k \in 1 .. n - 1
        PROVE  (a \o b)[k] = IF k < i THEN s[k] ELSE s[k + 1]
    <3>1. CASE k < i
      BY <1>1, <1>2, <2>1, <2>2, <3>1
    <3>2. CASE ~(k < i)
      <4>1. k - (i - 1) \in 1 .. n - i /\ i + (k - (i - 1)) = k + 1 /\ ~(k <= i - 1)
            /\ k \in 1 .. (i - 1) + (n - i)
        BY <1>1, <2>2, <3>2
      <4>2. QED
        BY <1>3, <2>1, <3>2, <4>1
    <3>3. QED
      BY <3>1, <3>2
  <2>3. QED
    BY <1>1, <1>4, <2>1, <2>2
<1>6. DOMAIN r = 1 .. n - 1
  BY <1>5, LenProperties
<1>7. \A k \in DOMAIN r : \E m \in DOMAIN s : m # i /\ r[k] = s[m] /\ (m = k \/ m = k + 1)
                                            /\ (m = k <=> k < i)
  <2>1. SUFFICES ASSUME NEW k \in DOMAIN r
                 PROVE  \E m \in DOMAIN s : m # i /\ r[k] = s[m] /\ (m = k \/ m = k + 1)
                                            /\ (m = k <=> k < i)
    OBVIOUS
  <2>2. CASE k < i
    BY <1>1, <1>5, <1>6, <2>2
  <2>3. CASE ~(k < i)
    <3>1. k + 1 \in DOMAIN s /\ k + 1 # i /\ r[k] = s[k + 1] /\ k + 1 # k
      BY <1>1, <1>5, <1>6, <2>3
    <3>2. QED
      BY <2>3, <3>1
  <2>4. QED
    BY <2>2, <2>3
<1>8. IsInjective(r) /\ \A k \in DOMAIN r : r[k] \in ToSet(s) \ {s[i]}
  <2>1. \A k \in DOMAIN r : r[k] \in ToSet(s) \ {s[i]}
    BY <1>1, <1>7 DEF IsInjective, ToSet
  <2>2. ASSUME NEW j \in DOMAIN r, NEW k \in DOMAIN r, r[j] = r[k] PROVE j = k
    <3>1. PICK m \in DOMAIN s : m # i /\ r[j] = s[m] /\ (m = j \/ m = j + 1) /\ (m = j <=> j < i)
      BY <1>7
    <3>2. PICK o \in DOMAIN s : o # i /\ r[k] = s[o] /\ (o = k \/ o = k + 1) /\ (o = k <=> k < i)
      BY <1>7
    <3>3. m = o
      BY <2>2, <3>1, <3>2 DEF IsInjective
    <3>4. QED
      BY <1>1, <1>6, <3>1, <3>2, <3>3
  <2>3. QED
    BY <2>1, <2>2 DEF IsInjective
<1>9. ASSUME NEW k \in DOMAIN s, s[k] # s[i] PROVE s[k] \in ToSet(r)
  <2>1. CASE k < i
    BY <1>1, <1>5, <1>6, <1>9, <2>1 DEF ToSet
  <2>2. CASE k > i
    <3>1. k - 1 \in DOMAIN r /\ r[k - 1] = s[k]
      BY <1>1, <1>5, <1>6, <1>9, <2>2
    <3>2. QED
      BY <3>1 DEF ToSet
  <2>3. QED
    BY <1>1, <1>9, <2>1, <2>2
<1>10. QED
  BY <1>5, <1>8, <1>9 DEF ToSet, r

LEMMA FrontOf ==
  ASSUME NEW S, NEW s \in Seq(S), s # <<>>, IsInjective(s)
  PROVE  /\ Front(s) \in Seq(S) /\ IsInjective(Front(s)) /\ Last(s) \in ToSet(s)
         /\ ToSet(Front(s)) = ToSet(s) \ {Last(s)}
<1> DEFINE n == Len(s)
<1>1. n \in Nat \ {0} /\ DOMAIN s = 1 .. n /\ \A k \in 1 .. n : s[k] \in S
  BY LenProperties, ElementOfSeq, EmptySeq
<1>2. Front(s) = SubSeq(s, 1, n - 1) /\ Last(s) = s[n]
  BY DEF Front, Last
<1> HIDE DEF n
<1>3. Front(s) \in Seq(S) /\ Len(Front(s)) = n - 1 /\ \A k \in 1 .. n - 1 : Front(s)[k] = s[k]
  BY <1>1, <1>2, SubSeqProperties
<1>4. DOMAIN Front(s) = 1 .. n - 1
  BY <1>3, LenProperties
<1>5. IsInjective(Front(s))
  BY <1>1, <1>3, <1>4 DEF IsInjective
<1>6. \A k \in DOMAIN s : k = n \/ (k \in DOMAIN Front(s) /\ Front(s)[k] = s[k])
  BY <1>1, <1>3, <1>4
<1>7. \A k \in DOMAIN Front(s) : k \in DOMAIN s /\ k # n /\ Front(s)[k] = s[k]
  BY <1>1, <1>3, <1>4
<1>8. n \in DOMAIN s
  BY <1>1
<1>9. ToSet(Front(s)) = ToSet(s) \ {s[n]}
  BY <1>6, <1>7, <1>8 DEF ToSet, IsInjective
<1>10. QED
  BY <1>2, <1>3, <1>5, <1>8, <1>9 DEF ToSet

LEMMA SortedSeq ==
  ASSUME NEW S, NEW ids \in Seq(S), NEW key, NEW s \in Sorted(ids, key)
  PROVE  /\ s \in Seq(S) /\ DOMAIN s = DOMAIN ids /\ IsInjective(s) /\ ToSet(s) = ToSet(ids)
         /\ s = <<>> <=> ids = <<>>
         /\ \A i, j \in DOMAIN s : i < j => key[s[i]] <= key[s[j]]
<1>1. /\ s \in [DOMAIN ids -> ToSet(ids)] /\ IsInjective(s) /\ ToSet(s) = ToSet(ids)
      /\ \A i, j \in DOMAIN s : i < j => key[s[i]] <= key[s[j]]
  BY DEF Sorted
<1>2. ToSet(ids) \subseteq S /\ DOMAIN ids = 1 .. Len(ids) /\ Len(ids) \in Nat
  BY Elements
<1>3. s \in [1 .. Len(ids) -> S]
  BY <1>1, <1>2
<1>4. s \in Seq(S)
  BY <1>2, <1>3, SeqDef
<1>5. s = <<>> <=> ids = <<>>
  BY <1>1, <1>4, Elements DEF ToSet
<1>6. QED
  BY <1>1, <1>4, <1>5

\* Every set of numbers that is not empty has a least one.
Less == {p \in Nat \X Nat : p[1] < p[2]}

LEMMA LessIsWellFounded == IsWellFoundedOn(Less, Nat)
BY NatLessThanWellFounded DEF OpToRel, Less

LEMMA Least ==
  ASSUME NEW S \in SUBSET Nat, S # {}
  PROVE  Min(S) \in S /\ \A k \in S : Min(S) <= k
<1>1. PICK m \in S : \A k \in S : <<k, m>> \notin Less
  BY LessIsWellFounded, WFMin, Zenon
<1>2. \A k \in S : ~(k < m)
  BY <1>1 DEF Less
<1>3. \A k \in S : m <= k
  BY <1>2
<1>4. QED
  BY <1>3 DEF Min

\* What is served next of a vector is the first from ndx on.
LEMMA FirstOfIs ==
  ASSUME NEW S, NEW s \in Seq(S), NEW wanted, ndx \in Nat \ {0}
  PROVE  \/ FirstOf(s, wanted) = 0 /\ \A k \in DOMAIN s : ndx <= k => s[k] \notin wanted
         \/ /\ FirstOf(s, wanted) \in DOMAIN s /\ ndx <= FirstOf(s, wanted)
            /\ s[FirstOf(s, wanted)] \in wanted
            /\ \A k \in DOMAIN s : ndx <= k /\ k < FirstOf(s, wanted) => s[k] \notin wanted
<1> DEFINE is == {i \in ndx .. Len(s) : s[i] \in wanted}
           n == Len(s)
<1>1. n \in Nat /\ DOMAIN s = 1 .. n
  BY LenProperties
<1>2. is \in SUBSET Nat
  BY <1>1
<1>3. FirstOf(s, wanted) = IF is = {} THEN 0 ELSE Min(is)
  BY DEF FirstOf
<1>4. \A k \in DOMAIN s : ndx <= k => (k \in is <=> s[k] \in wanted)
  <2> HIDE DEF n
  <2>1. is = {i \in ndx .. n : s[i] \in wanted}
    BY DEF n
  <2>2. QED
    BY <1>1, <2>1
<1>5. \A k \in is : k \in DOMAIN s /\ ndx <= k /\ s[k] \in wanted
  <2> HIDE DEF n
  <2>1. is = {i \in ndx .. n : s[i] \in wanted}
    BY DEF n
  <2>2. QED
    BY <1>1, <2>1
<1> HIDE DEF is, n
<1>6. CASE is = {}
  BY <1>3, <1>4, <1>6
<1>7. CASE is # {}
  <2>1. Min(is) \in is /\ \A k \in is : Min(is) <= k
    BY <1>2, <1>7, Least
  <2>2. \A k \in DOMAIN s : ndx <= k /\ k < Min(is) => s[k] \notin wanted
    <3>1. SUFFICES ASSUME NEW k \in DOMAIN s, ndx <= k, k < Min(is), k \in is PROVE FALSE
      BY <1>4
    <3>2. Min(is) \in Nat /\ k \in Nat /\ Min(is) <= k
      BY <1>2, <2>1, <3>1
    <3>3. QED
      BY <3>1, <3>2
  <2>3. QED
    BY <1>3, <1>5, <1>7, <2>1, <2>2
<1>8. QED
  BY <1>6, <1>7

---------------------------------------------------------------------------
(* What holds of the callbacks, the vectors and the round in every state.  *)

\* The main thread is in a callback; in a round.
InCallback ==
  \/ pc[Main] \in {"callback", "return"}
  \/ pc[Main] = "store" /\ then[Main] = "return"
InRun == InCallback \/ pc[Main] \in {"poll", "signals", "signal", "drain", "vsig", "timers", "fds"}
\* It serves a vector of this kind, or is in a callback of it.
Serves(s) == pc[Main] = s \/ (InCallback /\ phase = s)

\* A callback is filed under its owner, in its vector.
FiledInv ==
  \A t \in Threads :
    /\ key_map[t] = UNION {ToSet(vec[t][slot]) : slot \in Vectors}
    /\ \A slot \in Vectors : /\ IsInjective(vec[t][slot])
                             /\ \A id \in ToSet(vec[t][slot]) : VecOf(cb[id]) = slot
    /\ \A id \in key_map[t] : cb[id].owner = t /\ cb[id].type \in Types

\* Who waits for a signal has it caught, and no other thread will take that away:
\* Main and the workers wait for signals of their own, besides SIGUSR2.
OwnSpecs(t) == {Usr2} \cup IF t = Main THEN Specs ELSE ToSet(WorkerSpecs)
CaughtInv ==
  /\ \A t \in Threads : \A id \in key_map[t] : cb[id].type = "sig" =>
       cb[id].of \in caught /\ \E s \in OwnSpecs(t) : VecOf(cb[id]) = VecOf(s)
  /\ \A t \in Threads : pc[t] = "store" => spec[t] \in OwnSpecs(t)

\* What is marked is on the list, once, and what was unregistered is marked or gone.
MarkedInv ==
  /\ pc[Main] # "ended" =>
       /\ IsInjective(deleted_vec)
       /\ ToSet(deleted_vec) = {id \in key_map[Main] : cb[id].deleted}
  /\ ~processing => pc[Main] = "purge" \/ deleted_vec = <<>>
  /\ \A id \in key_map[Main] : cb[id].deleted /\ cb[id].type = "sig" => cb[id].of # "USR2"
  /\ \A id \in key_map[Main] \cap unregistered : cb[id].deleted

\* What ES_run() holds on to is filed.
RunInv ==
  /\ InRun => processing /\ ToSet(arr) \subseteq ToSet(vec[Main][FdVec])
  /\ ready # {} => (InRun /\ pc[Main] # "poll") \/ pc[Main] = "purge"
  /\ hits # <<>> => Serves("vsig")
  /\ \A id \in ToSet(hits) : id \in key_map[Main] /\ cb[id].type = "vsig"
  /\ InCallback => phase # "none" /\ cur \in key_map[Main]
  /\ InCallback /\ phase = "timers" =>
       ndx \in DOMAIN vec[Main][TimerVec] /\ cur = vec[Main][TimerVec][ndx]
  /\ Serves("signal") => signum \in DOMAIN Signals

\* Where what is not served yet begins, of the vector that is served, and of the timers.
First == IF InCallback THEN ndx + 1 ELSE ndx
NextTimer == IF Serves("timers") THEN First ELSE 1
FdsServed == Serves("fds") \/ pc[Main] = "purge"

\* The timers that are owed a call come in the order of their time-outs, none before
\* NextTimer, and from there only those that were registered meanwhile come after them.
TimersInOrder ==
  LET tv == vec[Main][TimerVec]
  IN  /\ \A i, j \in DOMAIN tv :
           i < j /\ tv[i] \in owed /\ tv[j] \in owed => cb[tv[i]].due <= cb[tv[j]].due
      /\ \A i, j \in DOMAIN tv :
           i < j /\ NextTimer <= i /\ tv[i] \notin owed /\ ~cb[tv[i]].deleted => tv[j] \notin owed
      /\ \A i \in DOMAIN tv : tv[i] \in owed => NextTimer <= i

\* Who is owed a call is a timer or a file descriptor that is still to come, or a
\* timer that is not due.
OwedInv ==
  /\ \A id \in owed : id \in key_map[Main] /\ ~cb[id].deleted
  /\ owed \subseteq ToSet(vec[Main][TimerVec]) \cup ready
  /\ owed # {} => InRun \/ pc[Main] = "purge"
  /\ ~FdsServed => TimersInOrder
  /\ FdsServed => \A id \in owed \cap ToSet(vec[Main][TimerVec]) : ~IsDue(id)
  /\ Serves("fds") => \A i \in DOMAIN arr : arr[i] \in owed => First <= i
  /\ pc[Main] = "purge" => owed \cap ready = {}

Inv ==
  /\ TypeOK /\ KeyInv /\ FiledInv /\ CaughtInv /\ MarkedInv /\ RunInv /\ OwedInv
  /\ CalledWhileRegistered

---------------------------------------------------------------------------
(* What a step does to the callbacks.                                      *)

\* What is said of callbacks in one place is said of all of them.
LEMMA Objects ==
  ASSUME TypeOK
  PROVE  /\ DOMAIN cb = 1 .. Len(cb) /\ Len(cb) \in Nat
         /\ \A id \in DOMAIN cb : cb[id] \in Callbacks
         /\ \A t \in Threads : key_map[t] \subseteq DOMAIN cb
         /\ \A t \in Threads, slot \in Vectors : /\ vec[t][slot] \in Seq(DOMAIN cb)
                                                 /\ ToSet(vec[t][slot]) \subseteq DOMAIN cb
<1>1. cb \in Seq(Callbacks)
  BY DEF TypeOK
<1>2. \A t \in Threads, slot \in Vectors : vec[t][slot] \in Seq(DOMAIN cb)
  BY DEF TypeOK
<1>3. \A t \in Threads, slot \in Vectors : ToSet(vec[t][slot]) \subseteq DOMAIN cb
  BY <1>2, Elements
<1>4. QED
  BY <1>1, <1>2, <1>3, Elements DEF TypeOK

LEMMA VectorNames ==
  /\ Main \in Threads /\ FdVec \in Vectors /\ TimerVec \in Vectors /\ FdVec # TimerVec
  /\ \A sig \in ToSet(Signals) : SigVec(sig) \in Vectors
  /\ \A v \in Vsigs : VsigVec(v) \in Vectors
  /\ \A s \in AllSpecs : /\ VecOf(s) \in Vectors /\ s.type \in Types /\ s.pause \in Nat
                         /\ s.interval \in Nat
                         /\ s.type = "sig" => s.of \in ToSet(Signals)
  /\ Usr2.type = "sig" /\ Usr2.of = "USR2" /\ Usr2 \in AllSpecs
  /\ \A t \in Threads : OwnSpecs(t) \subseteq AllSpecs
<1>1. \A s \in AllSpecs : VecOf(s) \in Vectors /\ s.pause \in Nat /\ s.interval \in Nat
  BY SpecsAssumption
<1>2. \A s \in AllSpecs : s.type \in Types /\ (s.type = "sig" => s.of \in ToSet(Signals))
  BY <1>1 DEF Vectors, VecOf, FdVec, TimerVec, SigVec, VsigVec, Types
<1>3. QED
  BY <1>1, <1>2 DEF Threads, Vectors, FdVec, TimerVec, Usr2, SpecOf, AllSpecs, OwnSpecs

\* A callback is in the vector of what it is, and in no other.
LEMMA InItsVector ==
  ASSUME TypeOK, FiledInv, NEW t \in Threads, NEW id \in key_map[t]
  PROVE  /\ VecOf(cb[id]) \in Vectors /\ id \in ToSet(vec[t][VecOf(cb[id])])
         /\ \A slot \in Vectors : id \in ToSet(vec[t][slot]) => slot = VecOf(cb[id])
         /\ id \in DOMAIN cb
BY Objects DEF FiledInv

\* Callbacks keep what they are, and every vector the callbacks it has.
InPlace ==
  /\ cb' \in Seq(Callbacks) /\ DOMAIN cb' = DOMAIN cb
  /\ \A id \in DOMAIN cb : /\ cb'[id].type = cb[id].type /\ cb'[id].of = cb[id].of
                           /\ cb'[id].owner = cb[id].owner
  /\ vec' \in [Threads -> [Vectors -> Seq(DOMAIN cb)]]
  /\ \A t \in Threads, slot \in Vectors : /\ IsInjective(vec'[t][slot])
                                          /\ ToSet(vec'[t][slot]) = ToSet(vec[t][slot])
  /\ UNCHANGED <<key_map, caught>>

\* A callback that is freed is none that initialize() registered.
Destroys == \E id \in key_map[Main] : /\ Destroy(id)
                                      /\ cb[id].type = "sig" => cb[id].of # "USR2"

LEMMA StillInPlace ==
  ASSUME TypeOK, FiledInv, UNCHANGED objVars
  PROVE  InPlace
BY Objects DEF InPlace, objVars, FiledInv, TypeOK

\* One callback gets another mark or time.
LEMMA OneInPlace ==
  ASSUME TypeOK, FiledInv, NEW id \in DOMAIN cb, NEW o \in Callbacks,
         cb' = [cb EXCEPT ![id] = o], UNCHANGED <<key_map, vec, caught>>,
         o.type = cb[id].type, o.of = cb[id].of, o.owner = cb[id].owner
  PROVE  InPlace
<1>1. cb \in Seq(Callbacks) /\ DOMAIN cb = 1 .. Len(cb)
  BY Objects DEF TypeOK
<1>2. cb' \in Seq(Callbacks) /\ DOMAIN cb' = DOMAIN cb
  BY <1>1, ExceptSeq
<1>3. \A i \in DOMAIN cb : cb'[i] = IF i = id THEN o ELSE cb[i]
  BY <1>1
<1>4. QED
  BY <1>2, <1>3 DEF InPlace, FiledInv, TypeOK

LEMMA MarkInPlace ==
  ASSUME TypeOK, FiledInv, NEW id \in DOMAIN cb, Mark(id)
  PROVE  InPlace
<1>1. CASE Marks(id)
  <2> DEFINE o == [cb[id] EXCEPT !.deleted = TRUE]
  <2>1. cb' = [cb EXCEPT ![id] = o] /\ UNCHANGED <<key_map, vec, caught>>
    BY <1>1 DEF Mark
  <2>2. cb[id] \in Callbacks
    BY Objects
  <2>3. o \in Callbacks /\ o.type = cb[id].type /\ o.of = cb[id].of /\ o.owner = cb[id].owner
    BY <2>2 DEF Callbacks
  <2>4. QED
    BY <2>1, <2>3, OneInPlace
<1>2. CASE ~Marks(id)
  BY <1>2, StillInPlace DEF Mark
<1>3. QED
  BY <1>1, <1>2

\* ES_unregister() of a key finds the callback that got it, and never sigusr2_h().
LEMMA Unregisters ==
  ASSUME TypeOK, KeyInv, FiledInv, NEW next, UnregisterKey(next)
  PROVE  \/ UNCHANGED <<objVars, mainVars, histVars>>
         \/ \E id \in key_map[Main] : /\ Unregister(id) /\ cb[id].of # "USR2"
                                      /\ UNCHANGED <<processing, late>>
<1>1. PICK key \in Keys :
        IF Found(key) = {} THEN UNCHANGED <<objVars, mainVars, histVars>>
        ELSE /\ \E id \in Found(key) : Unregister(id)
             /\ UNCHANGED <<processing, late>>
  BY DEF UnregisterKey
<1>2. PICK i \in DOMAIN cb : cb[i].of # "USR2" /\ cb[i].key = key
  BY DEF Keys
<1>3. \A id \in Found(key) : id \in key_map[Main] /\ id = i
  BY <1>2, Objects, VectorNames DEF Found, KeyInv, CounterInv, KeysUnique
<1>4. QED
  BY <1>1, <1>2, <1>3

\* What Purge frees is the last on the list.
LEMMA PurgeFrees ==
  ASSUME TypeOK, KeyInv, FiledInv, MarkedInv, Purge, deleted_vec # <<>>
  PROVE  /\ Last(deleted_vec) \in key_map[Main] /\ cb[Last(deleted_vec)].deleted
         /\ Destroy(Last(deleted_vec)) /\ deleted_vec' = Front(deleted_vec) /\ pc' = pc
<1> DEFINE last == Last(deleted_vec)
<1>1. deleted_vec \in Seq(DOMAIN cb) /\ pc[Main] = "purge"
  BY DEF TypeOK, Purge
<1>2. last \in ToSet(deleted_vec)
  BY <1>1, FrontOf DEF MarkedInv
<1>3. last \in key_map[Main] /\ cb[last].deleted
  BY <1>1, <1>2 DEF MarkedInv
<1>4. PICK id \in Found(cb[last].key) : Destroy(id)
  BY DEF Purge
<1>5. id = last
  BY <1>3, Objects, VectorNames DEF Found, KeyInv, CounterInv, KeysUnique
<1>6. QED
  BY <1>3, <1>4, <1>5 DEF Purge

\* A vector is reordered at the beginning of a round.
LEMMA RoundInPlace ==
  ASSUME TypeOK, FiledInv, StartRound
  PROVE  InPlace
<1>1. PICK fds \in Sorted(vec[Main][FdVec], LastActivity), timers \in Timers(vec[Main][TimerVec]) :
        vec' = [vec EXCEPT ![Main][FdVec] = fds, ![Main][TimerVec] = timers]
  BY DEF StartRound
<1>2. vec[Main][FdVec] \in Seq(DOMAIN cb) /\ vec[Main][TimerVec] \in Seq(DOMAIN cb)
  BY Objects, VectorNames
<1>3. /\ fds \in Seq(DOMAIN cb) /\ IsInjective(fds) /\ ToSet(fds) = ToSet(vec[Main][FdVec])
      /\ timers \in Seq(DOMAIN cb) /\ IsInjective(timers)
      /\ ToSet(timers) = ToSet(vec[Main][TimerVec])
  BY <1>2, SortedSeq DEF Timers
<1>4. vec \in [Threads -> [Vectors -> Seq(DOMAIN cb)]]
  BY DEF TypeOK
<1>5. /\ vec' \in [Threads -> [Vectors -> Seq(DOMAIN cb)]]
      /\ \A t \in Threads, slot \in Vectors :
           \/ vec'[t][slot] = vec[t][slot]
           \/ t = Main /\ slot = FdVec /\ vec'[t][slot] = fds
           \/ t = Main /\ slot = TimerVec /\ vec'[t][slot] = timers
  BY <1>1, <1>3, <1>4, VectorNames
<1>6. UNCHANGED <<cb, key_map, caught>>
  BY DEF StartRound
<1>7. ASSUME NEW t \in Threads, NEW slot \in Vectors
      PROVE  IsInjective(vec'[t][slot]) /\ ToSet(vec'[t][slot]) = ToSet(vec[t][slot])
  <2>1. IsInjective(vec[t][slot])
    BY DEF FiledInv
  <2>2. QED
    BY <1>3, <1>5, <2>1
<1>8. cb' \in Seq(Callbacks)
  BY <1>6 DEF TypeOK
<1>9. QED
  BY <1>5, <1>6, <1>7, <1>8 DEF InPlace

LEMMA CallInPlace ==
  ASSUME TypeOK, FiledInv, RunInv, CallTimer \/ CallFd
  PROVE  InPlace
<1>1. CASE CallTimer
  <2> DEFINE ids == vec[Main][TimerVec]
             i == FirstOf(ids, Unmarked(ToSet(ids)))
  <2>1. CASE UNCHANGED cb
    BY <1>1, <2>1, StillInPlace DEF CallTimer, objVars
  <2>2. CASE i # 0 /\ cb' = [cb EXCEPT ![ids[i]].due = @ + cb[ids[i]].interval]
    <3>1. ids \in Seq(DOMAIN cb) /\ ndx \in Nat \ {0}
      BY Objects, VectorNames DEF TypeOK
    <3>2. i \in DOMAIN ids
      BY <2>2, <3>1, FirstOfIs
    <3>3. ids[i] \in DOMAIN cb /\ cb[ids[i]] \in Callbacks
      BY <3>1, <3>2, Elements, Objects
    <3> DEFINE id == ids[i]
               o == [cb[id] EXCEPT !.due = @ + cb[id].interval]
    <3>4. o \in Callbacks /\ o.type = cb[id].type /\ o.of = cb[id].of /\ o.owner = cb[id].owner
      BY <3>3 DEF Callbacks
    <3>5. cb' = [cb EXCEPT ![id] = o] /\ UNCHANGED <<key_map, vec, caught>>
      BY <1>1, <2>2 DEF CallTimer
    <3>6. QED
      BY <3>3, <3>4, <3>5, OneInPlace
  <2>3. QED
    BY <1>1, <2>1, <2>2 DEF CallTimer
<1>2. CASE CallFd
  <2> DEFINE i == FirstOf(arr, Unmarked(ready))
  <2>1. CASE UNCHANGED cb
    BY <1>2, <2>1, StillInPlace DEF CallFd, objVars
  <2>2. CASE i # 0 /\ cb' = [cb EXCEPT ![arr[i]].last = now]
    <3>1. arr \in Seq(DOMAIN cb) /\ ndx \in Nat \ {0} /\ now \in Nat
      BY BoundsAssumption DEF TypeOK
    <3>2. i \in DOMAIN arr
      BY <2>2, <3>1, FirstOfIs
    <3>3. arr[i] \in DOMAIN cb /\ cb[arr[i]] \in Callbacks
      BY <3>1, <3>2, Elements, Objects
    <3> DEFINE id == arr[i]
               o == [cb[id] EXCEPT !.last = now]
    <3>4. o \in Callbacks /\ o.type = cb[id].type /\ o.of = cb[id].of /\ o.owner = cb[id].owner
      BY <3>1, <3>3 DEF Callbacks
    <3>5. cb' = [cb EXCEPT ![id] = o] /\ UNCHANGED <<key_map, vec, caught>>
      BY <1>2, <2>2 DEF CallFd
    <3>6. QED
      BY <3>3, <3>4, <3>5, OneInPlace
  <2>3. QED
    BY <1>2, <2>1, <2>2 DEF CallFd
<1>3. QED
  BY <1>1, <1>2

LEMMA UnregisterInPlace ==
  ASSUME TypeOK, KeyInv, FiledInv, NEW next, UnregisterKey(next)
  PROVE  InPlace \/ Destroys
<1>1. CASE UNCHANGED objVars
  BY <1>1, StillInPlace
<1>2. ASSUME NEW id \in key_map[Main], Unregister(id), cb[id].of # "USR2"
      PROVE  InPlace \/ Destroys
  <2>1. id \in DOMAIN cb
    BY Objects, VectorNames
  <2>2. QED
    BY <1>2, <2>1, MarkInPlace DEF Unregister, Destroys
<1>3. QED
  BY <1>1, <1>2, Unregisters

\* Callbacks are created, freed, or stay where they are.
LEMMA ObjectSteps ==
  ASSUME TypeOK, KeyInv, FiledInv, MarkedInv, RunInv, [Next]_vars
  PROVE  InPlace \/ Destroys \/ Cleanup \/ \E t \in Threads : Store(t)
<1>1. CASE UNCHANGED objVars
  BY <1>1, StillInPlace
<1>2. CASE Outside \/ Callback
  <2>1. UNCHANGED objVars \/ \E next : UnregisterKey(next)
    BY <1>2 DEF Outside, Callback, Register
  <2>2. QED
    BY <1>1, <2>1, UnregisterInPlace
<1>3. CASE Return
  <2>1. CASE UNCHANGED objVars
    BY <2>1, StillInPlace
  <2>2. CASE Mark(cur)
    <3>1. cur \in DOMAIN cb
      BY <1>3, Objects, VectorNames DEF Return, RunInv, InCallback
    <3>2. QED
      BY <2>2, <3>1, MarkInPlace
  <2>3. QED
    BY <1>3, <2>1, <2>2 DEF Return
<1>4. CASE Purge
  <2>1. CASE deleted_vec = <<>>
    BY <1>4, <2>1, StillInPlace DEF Purge
  <2>2. CASE deleted_vec # <<>>
    BY <1>4, <2>2, PurgeFrees DEF Destroys, MarkedInv
  <2>3. QED
    BY <2>1, <2>2
<1>5. CASE StartRound \/ CallTimer \/ CallFd
  BY <1>5, RoundInPlace, CallInPlace
<1>6. CASE \E w \in Workers : Spawn(w) \/ WorkerStarts(w) \/ Release(w)
  BY <1>1, <1>6 DEF Spawn, WorkerStarts, Release, Register
<1>7. CASE TestReleased \/ Awake \/ Arrives \/ PollReturns \/ ServeSignal \/ CallSignal \/ Drain
           \/ CallVSignal \/ UNCHANGED vars
  BY <1>1, <1>7
     DEF TestReleased, Awake, Arrives, PollReturns, ServeSignal, CallSignal, Drain, CallVSignal,
         vars
<1>8. QED
  BY <1>2, <1>3, <1>4, <1>5, <1>6, <1>7 DEF Next

---------------------------------------------------------------------------
(* Callbacks stay filed.                                                   *)

ObjTypes ==
  /\ cb \in Seq(Callbacks) /\ key_map \in [Threads -> SUBSET DOMAIN cb]
  /\ vec \in [Threads -> [Vectors -> Seq(DOMAIN cb)]]

Filed == ObjTypes /\ FiledInv
\* The part of CaughtInv about what is filed.
Caught ==
  \A t \in Threads : \A id \in key_map[t] : cb[id].type = "sig" =>
    cb[id].of \in caught /\ \E s \in OwnSpecs(t) : VecOf(cb[id]) = VecOf(s)

LEMMA InPlaceFiled ==
  ASSUME TypeOK, FiledInv, CaughtInv, InPlace
  PROVE  Filed' /\ Caught'
<1>1. ObjTypes'
  BY Objects DEF ObjTypes, InPlace, TypeOK
<1>2. \A id \in DOMAIN cb : VecOf(cb'[id]) = VecOf(cb[id])
  BY DEF InPlace, VecOf
<1>3. FiledInv'
  <2> SUFFICES ASSUME NEW t \in Threads
               PROVE  /\ key_map'[t] = UNION {ToSet(vec'[t][slot]) : slot \in Vectors}
                      /\ \A slot \in Vectors :
                           /\ IsInjective(vec'[t][slot])
                           /\ \A id \in ToSet(vec'[t][slot]) : VecOf(cb'[id]) = slot
                      /\ \A id \in key_map'[t] : cb'[id].owner = t /\ cb'[id].type \in Types
    BY DEF FiledInv
  <2>1. key_map'[t] = UNION {ToSet(vec'[t][slot]) : slot \in Vectors}
    BY DEF FiledInv, InPlace
  <2>2. ASSUME NEW slot \in Vectors
        PROVE  /\ IsInjective(vec'[t][slot])
               /\ \A id \in ToSet(vec'[t][slot]) : VecOf(cb'[id]) = slot
    BY <1>2, Objects DEF FiledInv, InPlace
  <2>3. \A id \in key_map'[t] : cb'[id].owner = t /\ cb'[id].type \in Types
    BY Objects DEF FiledInv, InPlace
  <2>4. QED
    BY <2>1, <2>2, <2>3
<1>4. Caught'
  <2> SUFFICES ASSUME NEW t \in Threads, NEW id \in key_map'[t], cb'[id].type = "sig"
               PROVE  cb'[id].of \in caught' /\ \E s \in OwnSpecs(t) : VecOf(cb'[id]) = VecOf(s)
    BY DEF Caught
  <2>1. /\ id \in key_map[t] /\ id \in DOMAIN cb /\ cb[id].type = "sig"
        /\ cb'[id].of = cb[id].of /\ caught' = caught
    BY Objects DEF InPlace
  <2>2. QED
    BY <1>2, <2>1 DEF CaughtInv
<1>5. QED
  BY <1>1, <1>3, <1>4 DEF Filed

LEMMA FreedIsCallback ==
  ASSUME NEW o \in Callbacks
  PROVE  Freed(o) \in Callbacks /\ Freed(o).owner = o.owner
<1> DEFINE f == [o EXCEPT !.type = "freed", !.of = "none", !.deleted = FALSE]
<1>1. f \in Callbacks /\ f.owner = o.owner
  BY DEF Callbacks
<1>2. Freed(o) = [f EXCEPT !.due = 0, !.interval = 0, !.last = 0]
  BY DEF Freed
<1> HIDE DEF f
<1> DEFINE g == [f EXCEPT !.due = 0]
<1>3. g \in Callbacks /\ g.owner = f.owner
  BY <1>1 DEF Callbacks
<1>4. Freed(o) = [g EXCEPT !.interval = 0, !.last = 0]
  BY <1>2
<1> HIDE DEF g
<1> DEFINE h == [g EXCEPT !.interval = 0]
<1>5. h \in Callbacks /\ h.owner = g.owner
  BY <1>3 DEF Callbacks
<1>6. Freed(o) = [h EXCEPT !.last = 0]
  BY <1>4
<1> HIDE DEF h
<1>7. QED
  BY <1>1, <1>3, <1>5, <1>6 DEF Callbacks

\* Callbacks belong to one thread.
LEMMA OthersCallbacks ==
  ASSUME TypeOK, FiledInv, NEW t \in Threads, NEW u \in Threads, t # u
  PROVE  key_map[t] \cap key_map[u] = {}
BY DEF FiledInv

LEMMA DestroyFiled ==
  ASSUME TypeOK, FiledInv, CaughtInv, NEW id \in key_map[Main], Destroy(id),
         cb[id].type = "sig" => cb[id].of # "USR2"
  PROVE  Filed' /\ Caught'
<1> DEFINE o == cb[id]
           own == VecOf(o)
<1>1. PICK i \in DOMAIN vec[Main][own] :
        /\ vec[Main][own][i] = id
        /\ vec' = [vec EXCEPT ![Main][own] = RemoveAt(vec[Main][own], i)]
  BY DEF Destroy
<1>2. /\ id \in DOMAIN cb /\ cb \in Seq(Callbacks) /\ DOMAIN cb = 1 .. Len(cb)
      /\ o \in Callbacks /\ Main \in Threads /\ own \in Vectors
      /\ o.owner = Main /\ o.type \in Types
  BY Objects, VectorNames, InItsVector DEF TypeOK, FiledInv
<1>3. /\ cb' = [cb EXCEPT ![id] = Freed(o)]
      /\ key_map' = [key_map EXCEPT ![Main] = @ \ {id}]
  BY DEF Destroy
<1>4. /\ cb' \in Seq(Callbacks) /\ DOMAIN cb' = DOMAIN cb
      /\ \A k \in DOMAIN cb : k # id => cb'[k] = cb[k]
  BY <1>2, <1>3, FreedIsCallback, ExceptSeq
<1> DEFINE r == RemoveAt(vec[Main][own], i)
<1>5. /\ r \in Seq(DOMAIN cb) /\ IsInjective(r) /\ ToSet(r) = ToSet(vec[Main][own]) \ {id}
  <2>1. vec[Main][own] \in Seq(DOMAIN cb) /\ IsInjective(vec[Main][own])
    BY <1>2, Objects DEF FiledInv
  <2>2. QED
    BY <1>1, <2>1, TakenOut
<1> HIDE DEF r
<1>6. /\ vec' \in [Threads -> [Vectors -> Seq(DOMAIN cb)]]
      /\ \A t \in Threads, slot \in Vectors :
           vec'[t][slot] = IF t = Main /\ slot = own THEN r ELSE vec[t][slot]
  <2>1. vec' = [vec EXCEPT ![Main][own] = r]
    BY <1>1 DEF r
  <2>2. QED
    BY <1>2, <1>5, <2>1 DEF TypeOK
<1>7. /\ key_map' \in [Threads -> SUBSET DOMAIN cb]
      /\ \A t \in Threads : key_map'[t] = IF t = Main THEN key_map[Main] \ {id} ELSE key_map[t]
  BY <1>2, <1>3 DEF TypeOK
<1>8. ObjTypes'
  BY <1>4, <1>6, <1>7 DEF ObjTypes
<1>9. \A t \in Threads : id \notin key_map'[t] /\ key_map'[t] \subseteq key_map[t]
  BY <1>2, <1>7, OthersCallbacks
<1>10. \A t \in Threads, slot \in Vectors : ToSet(vec'[t][slot]) = ToSet(vec[t][slot]) \ {id}
  <2> SUFFICES ASSUME NEW t \in Threads, NEW slot \in Vectors
               PROVE  ToSet(vec'[t][slot]) = ToSet(vec[t][slot]) \ {id}
    OBVIOUS
  <2>1. CASE t = Main /\ slot = own
    BY <1>5, <1>6, <2>1
  <2>2. CASE t = Main /\ slot # own
    BY <1>6, <2>2, InItsVector
  <2>3. CASE t # Main
    <3>1. id \notin key_map[t]
      BY <1>2, <2>3, OthersCallbacks
    <3>2. id \notin ToSet(vec[t][slot])
      BY <3>1 DEF FiledInv
    <3>3. QED
      BY <1>6, <2>3, <3>2
  <2>4. QED
    BY <2>1, <2>2, <2>3
<1>11. FiledInv'
  <2> SUFFICES ASSUME NEW t \in Threads
               PROVE  /\ key_map'[t] = UNION {ToSet(vec'[t][slot]) : slot \in Vectors}
                      /\ \A slot \in Vectors :
                           /\ IsInjective(vec'[t][slot])
                           /\ \A k \in ToSet(vec'[t][slot]) : VecOf(cb'[k]) = slot
                      /\ \A k \in key_map'[t] : cb'[k].owner = t /\ cb'[k].type \in Types
    BY DEF FiledInv
  <2>1. key_map'[t] = key_map[t] \ {id}
    BY <1>2, <1>7, OthersCallbacks
  <2>2. key_map'[t] = UNION {ToSet(vec'[t][slot]) : slot \in Vectors}
    <3>1. key_map[t] = UNION {ToSet(vec[t][slot]) : slot \in Vectors}
      BY DEF FiledInv
    <3>2. \A slot \in Vectors : ToSet(vec'[t][slot]) = ToSet(vec[t][slot]) \ {id}
      BY <1>10
    <3>3. \A k : k \in key_map[t] <=> \E slot \in Vectors : k \in ToSet(vec[t][slot])
      BY <3>1
    <3>4. \A k : k \in key_map'[t] <=> \E slot \in Vectors : k \in ToSet(vec'[t][slot])
      BY <2>1, <3>2, <3>3
    <3>5. QED
      BY <3>4
  <2>3. ASSUME NEW slot \in Vectors
        PROVE  /\ IsInjective(vec'[t][slot])
               /\ \A k \in ToSet(vec'[t][slot]) : VecOf(cb'[k]) = slot
    <3>1. IsInjective(vec'[t][slot])
      BY <1>5, <1>6 DEF FiledInv
    <3>2. \A k \in ToSet(vec'[t][slot]) : k \in ToSet(vec[t][slot]) /\ k # id /\ k \in DOMAIN cb
      BY <1>10, Objects
    <3>3. QED
      BY <1>4, <3>1, <3>2 DEF FiledInv
  <2>4. \A k \in key_map'[t] : cb'[k].owner = t /\ cb'[k].type \in Types
    BY <1>4, <2>1, Objects DEF FiledInv
  <2>5. QED
    BY <2>2, <2>3, <2>4
<1>12. Caught'
  <2> SUFFICES ASSUME NEW t \in Threads, NEW k \in key_map'[t], cb'[k].type = "sig"
               PROVE  cb'[k].of \in caught' /\ \E s \in OwnSpecs(t) : VecOf(cb'[k]) = VecOf(s)
    BY DEF Caught
  <2>1. k \in key_map[t] /\ k # id /\ k \in DOMAIN cb /\ cb'[k] = cb[k]
    BY <1>4, <1>9, Objects
  <2>2. cb[k].of \in caught /\ \E s \in OwnSpecs(t) : VecOf(cb[k]) = VecOf(s)
    BY <2>1 DEF CaughtInv
  <2>3. CASE o.type = "sig" /\ r = <<>> /\ cb[k].of = o.of
    <3>1. VecOf(cb[k]) = own
      BY <2>1, <2>3 DEF VecOf
    <3>2. CASE t = Main
      <4>1. k \in ToSet(vec'[Main][own])
        BY <1>10, <2>1, <3>1, <3>2, InItsVector
      <4>2. ToSet(vec'[Main][own]) = {}
        BY <1>2, <1>6, <2>3 DEF ToSet
      <4>3. QED
        BY <4>1, <4>2
    <3>3. CASE t # Main
      <4>1. PICK s \in {Usr2} \cup Specs : own = VecOf(s)
        BY <1>2, <2>3 DEF CaughtInv, OwnSpecs
      <4>2. PICK w \in {Usr2} \cup ToSet(WorkerSpecs) : own = VecOf(w)
        BY <2>2, <3>1, <3>3 DEF OwnSpecs
      <4>3. s \in Specs /\ s.type = "sig" /\ s.of = o.of
        BY <2>3, <4>1, VectorNames DEF VecOf, Types
      <4>4. w \in ToSet(WorkerSpecs)
        BY <2>3, <4>2, VectorNames DEF VecOf
      <4>5. QED
        BY <4>1, <4>2, <4>3, <4>4, SignalsApart
    <3>4. QED
      BY <3>2, <3>3
  <2>4. CASE ~(o.type = "sig" /\ r = <<>> /\ cb[k].of = o.of)
    <3>1. vec'[Main][own] = r
      BY <1>2, <1>6
    <3>2. caught' = IF o.type = "sig" /\ r = <<>> THEN caught \ {o.of} ELSE caught
      BY <3>1 DEF Destroy
    <3>3. QED
      BY <2>1, <2>2, <2>4, <3>2
  <2>5. QED
    BY <2>3, <2>4
<1>13. QED
  BY <1>8, <1>11, <1>12 DEF Filed

LEMMA CleanupFiled ==
  ASSUME TypeOK, FiledInv, CaughtInv, Cleanup
  PROVE  Filed' /\ Caught'
<1>1. /\ cb' = [id \in DOMAIN cb |-> IF id \in key_map[Main] THEN Freed(cb[id]) ELSE cb[id]]
      /\ key_map' = [key_map EXCEPT ![Main] = {}]
      /\ vec' = [vec EXCEPT ![Main] = NoVec] /\ caught' = caught
  BY DEF Cleanup
<1>2. cb' \in Seq(Callbacks) /\ DOMAIN cb' = DOMAIN cb
  <2>1. \A id \in DOMAIN cb : Freed(cb[id]) \in Callbacks /\ cb[id] \in Callbacks
    BY Objects, FreedIsCallback
  <2>2. cb' \in [1 .. Len(cb) -> Callbacks] /\ Len(cb) \in Nat
    BY <1>1, <2>1, Objects
  <2>3. QED
    BY <1>1, <2>2, SeqDef
<1>3. /\ vec' \in [Threads -> [Vectors -> Seq(DOMAIN cb)]]
      /\ \A t \in Threads, slot \in Vectors :
           vec'[t][slot] = IF t = Main THEN <<>> ELSE vec[t][slot]
  <2>1. NoVec \in [Vectors -> Seq(DOMAIN cb)] /\ \A slot \in Vectors : NoVec[slot] = <<>>
    BY EmptySeq DEF NoVec
  <2>2. QED
    BY <1>1, <2>1, VectorNames DEF TypeOK
<1>4. /\ key_map' \in [Threads -> SUBSET DOMAIN cb]
      /\ \A t \in Threads : key_map'[t] = IF t = Main THEN {} ELSE key_map[t]
  BY <1>1, VectorNames DEF TypeOK
<1>5. ASSUME NEW t \in Threads, t # Main
      PROVE  \A id \in key_map[t] : id \in DOMAIN cb /\ cb'[id] = cb[id]
  BY <1>1, <1>5, Objects, OthersCallbacks, VectorNames
<1>6. FiledInv'
  <2> SUFFICES ASSUME NEW t \in Threads
               PROVE  /\ key_map'[t] = UNION {ToSet(vec'[t][slot]) : slot \in Vectors}
                      /\ \A slot \in Vectors :
                           /\ IsInjective(vec'[t][slot])
                           /\ \A k \in ToSet(vec'[t][slot]) : VecOf(cb'[k]) = slot
                      /\ \A k \in key_map'[t] : cb'[k].owner = t /\ cb'[k].type \in Types
    BY DEF FiledInv
  <2>1. CASE t = Main
    <3>1. ToSet(<<>>) = {} /\ IsInjective(<<>>)
      BY DEF ToSet, IsInjective
    <3>2. \A slot \in Vectors : vec'[t][slot] = <<>>
      BY <1>3, <2>1
    <3>3. key_map'[t] = {}
      BY <1>4, <2>1
    <3>4. QED
      BY <3>1, <3>2, <3>3
  <2>2. CASE t # Main
    <3>1. /\ key_map'[t] = key_map[t]
          /\ \A slot \in Vectors : vec'[t][slot] = vec[t][slot]
      BY <1>3, <1>4, <2>2
    <3>2. key_map'[t] = UNION {ToSet(vec'[t][slot]) : slot \in Vectors}
      BY <3>1 DEF FiledInv
    <3>3. \A slot \in Vectors : \A k \in ToSet(vec[t][slot]) : k \in key_map[t]
      BY DEF FiledInv
    <3>4. QED
      BY <1>5, <2>2, <3>1, <3>2, <3>3 DEF FiledInv
  <2>3. QED
    BY <2>1, <2>2
<1>7. Caught'
  <2> SUFFICES ASSUME NEW t \in Threads, NEW k \in key_map'[t], cb'[k].type = "sig"
               PROVE  cb'[k].of \in caught' /\ \E s \in OwnSpecs(t) : VecOf(cb'[k]) = VecOf(s)
    BY DEF Caught
  <2>1. t # Main /\ k \in key_map[t]
    BY <1>4
  <2>2. cb'[k] = cb[k] /\ caught' = caught
    BY <1>1, <1>5, <2>1
  <2>3. QED
    BY <2>1, <2>2 DEF CaughtInv
<1>8. QED
  BY <1>2, <1>3, <1>4, <1>6, <1>7 DEF Filed, ObjTypes

\* The callback that Store creates, and where it goes.
NewCb(t) == [owner |-> t, key |-> loaded[t] + 1, type |-> spec[t].type, of |-> spec[t].of,
             deleted |-> FALSE, due |-> now + spec[t].pause, interval |-> spec[t].interval,
             last |-> 0]

LEMMA Stored ==
  ASSUME TypeOK, CaughtInv, NEW t \in Threads, Store(t)
  PROVE  LET own == VecOf(spec[t])
             new == Len(cb) + 1
         IN  /\ own \in Vectors /\ spec[t] \in AllSpecs /\ spec[t] \in OwnSpecs(t)
             /\ NewCb(t) \in Callbacks
             /\ cb' \in Seq(Callbacks) /\ DOMAIN cb' = DOMAIN cb \cup {new}
             /\ new \notin DOMAIN cb /\ cb'[new] = NewCb(t)
             /\ \A k \in DOMAIN cb : cb'[k] = cb[k]
             /\ vec[t][own] \in Seq(DOMAIN cb')
             /\ vec' \in [Threads -> [Vectors -> Seq(DOMAIN cb')]]
             /\ \A u \in Threads, slot \in Vectors :
                  vec'[u][slot] = IF u = t /\ slot = own THEN Append(vec[t][own], new)
                                  ELSE vec[u][slot]
             /\ key_map' \in [Threads -> SUBSET DOMAIN cb']
             /\ \A u \in Threads : key_map'[u] = IF u = t THEN key_map[t] \cup {new}
                                                 ELSE key_map[u]
             /\ caught' = IF spec[t].type = "sig" /\ vec[t][own] = <<>>
                          THEN caught \cup {spec[t].of} ELSE caught
<1> DEFINE s == spec[t]
           own == VecOf(s)
           n == Len(cb)
<1>1. s \in OwnSpecs(t)
  BY DEF CaughtInv, Store
<1>2. /\ s \in AllSpecs /\ own \in Vectors /\ s.type \in Types /\ s.pause \in Nat
      /\ s.interval \in Nat
  BY <1>1, VectorNames
<1>3. /\ cb \in Seq(Callbacks) /\ DOMAIN cb = 1 .. n /\ n \in Nat
      /\ loaded[t] \in Nat /\ now \in Nat
      /\ key_map \in [Threads -> SUBSET DOMAIN cb]
      /\ vec \in [Threads -> [Vectors -> Seq(DOMAIN cb)]]
  BY Objects, BoundsAssumption DEF TypeOK
<1>4. NewCb(t) \in Callbacks
  <2>1. s.of \in {r.of : r \in AllSpecs} \cup {"none"} /\ now + s.pause \in Int
        /\ loaded[t] + 1 \in Nat /\ s.type \in Types \cup {"freed"}
    BY <1>2, <1>3
  <2>2. QED
    BY <1>2, <2>1 DEF NewCb, Callbacks
<1>5. /\ keySrc' = loaded[t] + 1
      /\ cb' = Append(cb, [owner |-> t, key |-> keySrc', type |-> s.type, of |-> s.of,
                           deleted |-> FALSE, due |-> now + s.pause,
                           interval |-> s.interval, last |-> 0])
      /\ key_map' = [key_map EXCEPT ![t] = @ \cup {n + 1}]
      /\ vec' = [vec EXCEPT ![t][own] = Append(vec[t][own], n + 1)]
      /\ caught' = IF s.type = "sig" /\ vec[t][own] = <<>> THEN caught \cup {s.of} ELSE caught
  BY DEF Store
<1>6. cb' = Append(cb, NewCb(t))
  BY <1>5 DEF NewCb
<1>7. /\ cb' \in Seq(Callbacks) /\ DOMAIN cb' = DOMAIN cb \cup {n + 1} /\ cb'[n + 1] = NewCb(t)
      /\ \A k \in DOMAIN cb : cb'[k] = cb[k]
  BY <1>3, <1>4, <1>6, Appended
<1>8. n + 1 \notin DOMAIN cb
  BY <1>3
<1>9. \A u \in Threads, slot \in Vectors : vec[u][slot] \in Seq(DOMAIN cb')
  <2>1. \A u \in Threads, slot \in Vectors : vec[u][slot] \in Seq(DOMAIN cb)
    BY <1>3
  <2>2. DOMAIN cb \subseteq DOMAIN cb'
    BY <1>7
  <2>3. QED
    BY <2>1, <2>2, SeqMonotonic
<1>10. Append(vec[t][own], n + 1) \in Seq(DOMAIN cb')
  BY <1>2, <1>7, <1>9, Appended
<1> DEFINE a == Append(vec[t][own], n + 1)
<1> HIDE DEF a
<1>11. /\ vec' \in [Threads -> [Vectors -> Seq(DOMAIN cb')]]
       /\ \A u \in Threads, slot \in Vectors :
            vec'[u][slot] = IF u = t /\ slot = own THEN a ELSE vec[u][slot]
  <2>1. vec' = [vec EXCEPT ![t][own] = a]
    BY <1>5 DEF a
  <2>2. \A u \in Threads, slot \in Vectors :
          vec'[u][slot] = IF u = t /\ slot = own THEN a ELSE vec[u][slot]
    BY <1>2, <1>3, <2>1
  <2>3. vec' \in [Threads -> [Vectors -> Seq(DOMAIN cb')]]
    <3>1. DOMAIN vec' = Threads /\ \A u \in Threads : DOMAIN vec'[u] = Vectors
      BY <1>2, <1>3, <2>1
    <3>2. \A u \in Threads, slot \in Vectors : vec'[u][slot] \in Seq(DOMAIN cb')
      BY <1>9, <1>10, <2>2 DEF a
    <3>3. \A u \in Threads : vec'[u] = [slot \in Vectors |-> vec'[u][slot]]
      BY <1>2, <1>3, <2>1
    <3>4. \A u \in Threads : vec'[u] \in [Vectors -> Seq(DOMAIN cb')]
      BY <3>2, <3>3
    <3>5. vec' = [u \in Threads |-> vec'[u]]
      BY <1>3, <2>1
    <3>6. QED
      BY <3>4, <3>5
  <2>4. QED
    BY <2>2, <2>3
<1>12. /\ key_map' \in [Threads -> SUBSET DOMAIN cb']
       /\ \A u \in Threads : key_map'[u] = IF u = t THEN key_map[t] \cup {n + 1} ELSE key_map[u]
  BY <1>3, <1>5, <1>7
<1>13. QED
  BY <1>1, <1>2, <1>4, <1>5, <1>7, <1>8, <1>9, <1>11, <1>12 DEF a

LEMMA StoreFiled ==
  ASSUME TypeOK, FiledInv, CaughtInv, NEW t \in Threads, Store(t)
  PROVE  Filed' /\ Caught'
<1> DEFINE s == spec[t]
           own == VecOf(s)
           new == Len(cb) + 1
<1>1. /\ own \in Vectors /\ s \in AllSpecs /\ s \in OwnSpecs(t)
      /\ cb' \in Seq(Callbacks) /\ DOMAIN cb' = DOMAIN cb \cup {new}
      /\ new \notin DOMAIN cb /\ cb'[new] = NewCb(t) /\ \A k \in DOMAIN cb : cb'[k] = cb[k]
      /\ vec[t][own] \in Seq(DOMAIN cb')
      /\ vec' \in [Threads -> [Vectors -> Seq(DOMAIN cb')]]
      /\ \A u \in Threads, slot \in Vectors :
           vec'[u][slot] = IF u = t /\ slot = own THEN Append(vec[t][own], new)
                           ELSE vec[u][slot]
      /\ key_map' \in [Threads -> SUBSET DOMAIN cb']
      /\ \A u \in Threads : key_map'[u] = IF u = t THEN key_map[t] \cup {new} ELSE key_map[u]
      /\ caught' = IF s.type = "sig" /\ vec[t][own] = <<>> THEN caught \cup {s.of} ELSE caught
  BY Stored
<1> HIDE DEF new
<1>2. /\ NewCb(t).owner = t /\ NewCb(t).type = s.type /\ NewCb(t).of = s.of
      /\ s.type \in Types
  BY <1>1, VectorNames DEF NewCb
<1>3. VecOf(cb'[new]) = own
  BY <1>1, <1>2 DEF VecOf
<1>4. ObjTypes'
  BY <1>1 DEF ObjTypes
<1>5. /\ \A u \in Threads : key_map[u] \subseteq DOMAIN cb
      /\ \A u \in Threads, slot \in Vectors : ToSet(vec[u][slot]) \subseteq DOMAIN cb
  BY Objects
<1>6. \A u \in Threads, slot \in Vectors :
        ToSet(vec'[u][slot]) = IF u = t /\ slot = own THEN ToSet(vec[t][own]) \cup {new}
                               ELSE ToSet(vec[u][slot])
  <2> DEFINE ids == vec[t][own]
             D == DOMAIN cb'
  <2>1. new \in D /\ ids \in Seq(D)
    BY <1>1
  <2> HIDE DEF ids, D
  <2>2. ToSet(Append(ids, new)) = ToSet(ids) \cup {new}
    BY <2>1, Appended
  <2> USE DEF ids
  <2> HIDE DEF own
  <2>3. QED
    BY <1>1, <2>2
<1>7. \A u \in Threads, slot \in Vectors : IsInjective(vec'[u][slot])
  <2>1. IsInjective(Append(vec[t][own], new))
    BY <1>1, <1>5, Appended DEF FiledInv
  <2>2. QED
    BY <1>1, <2>1 DEF FiledInv
<1>8. FiledInv'
  <2> SUFFICES ASSUME NEW u \in Threads
               PROVE  /\ key_map'[u] = UNION {ToSet(vec'[u][slot]) : slot \in Vectors}
                      /\ \A slot \in Vectors :
                           /\ IsInjective(vec'[u][slot])
                           /\ \A k \in ToSet(vec'[u][slot]) : VecOf(cb'[k]) = slot
                      /\ \A k \in key_map'[u] : cb'[k].owner = u /\ cb'[k].type \in Types
    BY DEF FiledInv
  <2>1. \A k : k \in key_map[u] <=> \E slot \in Vectors : k \in ToSet(vec[u][slot])
    BY DEF FiledInv
  <2>2. \A k : k \in key_map'[u] <=> \E slot \in Vectors : k \in ToSet(vec'[u][slot])
    <3>1. CASE u = t
      <4>1. /\ key_map'[u] = key_map[u] \cup {new} /\ own \in Vectors
            /\ \A slot \in Vectors :
                 ToSet(vec'[u][slot]) = IF slot = own THEN ToSet(vec[u][slot]) \cup {new}
                                        ELSE ToSet(vec[u][slot])
        BY <1>1, <1>6, <3>1
      <4> HIDE DEF own
      <4>2. QED
        BY <2>1, <4>1
    <3>2. CASE u # t
      BY <1>1, <1>6, <2>1, <3>2
    <3>3. QED
      BY <3>1, <3>2
  <2>3. key_map'[u] = UNION {ToSet(vec'[u][slot]) : slot \in Vectors}
    BY <2>2
  <2>4. ASSUME NEW slot \in Vectors, NEW k \in ToSet(vec'[u][slot]) PROVE VecOf(cb'[k]) = slot
    <3>1. CASE k \in ToSet(vec[u][slot])
      BY <1>1, <1>5, <3>1 DEF FiledInv
    <3>2. CASE k = new /\ slot = own
      BY <1>3, <3>2
    <3>3. QED
      BY <1>6, <2>4, <3>1, <3>2
  <2>5. \A k \in key_map'[u] : cb'[k].owner = u /\ cb'[k].type \in Types
    <3>1. \A k \in key_map[u] : cb'[k] = cb[k] /\ cb[k].owner = u /\ cb[k].type \in Types
      BY <1>1, <1>5 DEF FiledInv
    <3>2. \A k \in key_map'[u] : k \in key_map[u] \/ (u = t /\ k = new)
      BY <1>1
    <3>3. cb'[new].owner = t /\ cb'[new].type \in Types
      BY <1>1, <1>2
    <3>4. QED
      BY <3>1, <3>2, <3>3
  <2>6. QED
    BY <1>7, <2>3, <2>4, <2>5
<1>9. caught \subseteq caught' /\ (s.type = "sig" => s.of \in caught')
  <2>1. CASE vec[t][own] = <<>>
    BY <1>1, <2>1
  <2>2. CASE vec[t][own] # <<>>
    <3>1. PICK e \in ToSet(vec[t][own]) : TRUE
      BY <1>1, <2>2, Elements
    <3>2. e \in key_map[t] /\ VecOf(cb[e]) = own
      BY <1>1, <3>1 DEF FiledInv
    <3>3. s.type = "sig" => cb[e].type = "sig" /\ cb[e].of = s.of
      BY <3>2 DEF VecOf
    <3>4. QED
      BY <1>1, <2>2, <3>2, <3>3 DEF CaughtInv
  <2>3. QED
    BY <2>1, <2>2
<1>10. Caught'
  <2> SUFFICES ASSUME NEW u \in Threads, NEW k \in key_map'[u], cb'[k].type = "sig"
               PROVE  cb'[k].of \in caught' /\ \E r \in OwnSpecs(u) : VecOf(cb'[k]) = VecOf(r)
    BY DEF Caught
  <2>1. CASE k \in key_map[u]
    <3>1. cb'[k] = cb[k] /\ k \in DOMAIN cb
      BY <1>1, <1>5, <2>1
    <3>2. QED
      BY <1>9, <2>1, <3>1 DEF CaughtInv
  <2>2. CASE u = t /\ k = new
    BY <1>1, <1>2, <1>3, <1>9, <2>2
  <2>3. QED
    BY <1>1, <2>1, <2>2
<1>11. QED
  BY <1>4, <1>8, <1>10 DEF Filed

\* Every step keeps callbacks filed.
LEMMA FiledKept ==
  ASSUME TypeOK, KeyInv, FiledInv, CaughtInv, MarkedInv, RunInv, [Next]_vars
  PROVE  Filed' /\ Caught'
BY ObjectSteps, InPlaceFiled, DestroyFiled, CleanupFiled, StoreFiled DEF Destroys

---------------------------------------------------------------------------
(* What is marked is on the list.                                          *)

\* No mark is set, and no callback that Main has comes or goes.
Quiet ==
  /\ key_map'[Main] = key_map[Main] /\ UNCHANGED <<deleted_vec, unregistered>>
  /\ \A id \in key_map[Main] : /\ cb'[id].deleted = cb[id].deleted
                               /\ cb'[id].type = cb[id].type /\ cb'[id].of = cb[id].of
  /\ pc[Main] = "ended" => pc'[Main] = "ended"
  /\ ~processing' => \/ deleted_vec = <<>>
                     \/ ~processing /\ (pc[Main] = "purge" => pc'[Main] = "purge")

LEMMA QuietMarked ==
  ASSUME MarkedInv, Quiet
  PROVE  MarkedInv'
<1>1. /\ key_map'[Main] = key_map[Main] /\ deleted_vec' = deleted_vec
      /\ unregistered' = unregistered
      /\ \A id \in key_map[Main] : /\ cb'[id].deleted = cb[id].deleted
                                   /\ cb'[id].type = cb[id].type /\ cb'[id].of = cb[id].of
  BY DEF Quiet
<1>2. {id \in key_map'[Main] : cb'[id].deleted} = {id \in key_map[Main] : cb[id].deleted}
  BY <1>1
<1>3. pc'[Main] # "ended" =>
        /\ IsInjective(deleted_vec')
        /\ ToSet(deleted_vec') = {id \in key_map'[Main] : cb'[id].deleted}
  BY <1>1, <1>2 DEF MarkedInv, Quiet
<1>4. ~processing' => pc'[Main] = "purge" \/ deleted_vec' = <<>>
  BY <1>1 DEF MarkedInv, Quiet
<1>5. \A id \in key_map'[Main] : cb'[id].deleted /\ cb'[id].type = "sig" => cb'[id].of # "USR2"
  BY <1>1 DEF MarkedInv
<1>6. \A id \in key_map'[Main] \cap unregistered' : cb'[id].deleted
  BY <1>1 DEF MarkedInv
<1>7. QED
  BY <1>3, <1>4, <1>5, <1>6 DEF MarkedInv

\* A callback is marked, and with that it is what the application unregistered.
LEMMA MarkMarked ==
  ASSUME TypeOK, MarkedInv, NEW id \in key_map[Main], Mark(id),
         cb[id].type = "sig" => cb[id].of # "USR2",
         unregistered' = unregistered \cup {id}, processing, processing' = processing,
         pc[Main] # "ended"
  PROVE  MarkedInv'
<1>1. /\ id \in DOMAIN cb /\ cb \in Seq(Callbacks) /\ deleted_vec \in Seq(DOMAIN cb)
      /\ key_map[Main] \subseteq DOMAIN cb /\ \A k \in DOMAIN cb : cb[k] \in Callbacks
  BY Objects, VectorNames DEF TypeOK
<1>2. CASE ~Marks(id)
  <2>1. /\ UNCHANGED <<cb, key_map, deleted_vec>> /\ cb[id].deleted
    BY <1>1, <1>2 DEF Mark, Marks, objVars
  <2>2. {k \in key_map'[Main] : cb'[k].deleted} = {k \in key_map[Main] : cb[k].deleted}
    BY <2>1
  <2>3. QED
    BY <2>1, <2>2 DEF MarkedInv
<1>3. CASE Marks(id)
  <2>1. /\ cb' = [cb EXCEPT ![id].deleted = TRUE] /\ deleted_vec' = Append(deleted_vec, id)
        /\ key_map' = key_map /\ ~cb[id].deleted
    BY <1>1, <1>3 DEF Mark, Marks
  <2>2. /\ cb'[id].deleted /\ cb'[id].type = cb[id].type /\ cb'[id].of = cb[id].of
        /\ \A k \in DOMAIN cb : k # id => cb'[k] = cb[k]
    BY <1>1, <2>1 DEF Callbacks
  <2>3. ToSet(deleted_vec) = {k \in key_map[Main] : cb[k].deleted} /\ IsInjective(deleted_vec)
    BY DEF MarkedInv
  <2>4. ToSet(deleted_vec') = ToSet(deleted_vec) \cup {id} /\ IsInjective(deleted_vec')
    BY <1>1, <2>1, <2>3, Appended
  <2>5. {k \in key_map'[Main] : cb'[k].deleted} = {k \in key_map[Main] : cb[k].deleted} \cup {id}
    BY <1>1, <2>1, <2>2
  <2>6. \A k \in key_map'[Main] : cb'[k].deleted /\ cb'[k].type = "sig" => cb'[k].of # "USR2"
    BY <1>1, <2>1, <2>2 DEF MarkedInv
  <2>7. \A k \in key_map'[Main] \cap unregistered' : cb'[k].deleted
    BY <1>1, <2>1, <2>2 DEF MarkedInv
  <2>8. QED
    BY <2>3, <2>4, <2>5, <2>6, <2>7 DEF MarkedInv
<1>4. QED
  BY <1>2, <1>3

\* A callback is freed, which is no longer on the list.
LEMMA DestroyMarked ==
  ASSUME TypeOK, MarkedInv, NEW id \in key_map[Main], Destroy(id), pc[Main] # "ended",
         unregistered' \subseteq unregistered \cup {id},
         IsInjective(deleted_vec'), ToSet(deleted_vec') = ToSet(deleted_vec) \ {id},
         ~processing' => pc'[Main] = "purge" \/ deleted_vec' = <<>>
  PROVE  MarkedInv'
<1>1. /\ id \in DOMAIN cb /\ key_map[Main] \subseteq DOMAIN cb
  BY Objects, VectorNames
<1>2. /\ cb' = [cb EXCEPT ![id] = Freed(cb[id])] /\ key_map'[Main] = key_map[Main] \ {id}
  BY VectorNames DEF Destroy, TypeOK
<1>3. \A k \in key_map'[Main] : k \in key_map[Main] /\ k # id /\ cb'[k] = cb[k]
  BY <1>1, <1>2
<1>4. {k \in key_map'[Main] : cb'[k].deleted} = {k \in key_map[Main] : cb[k].deleted} \ {id}
  BY <1>2, <1>3
<1>5. ToSet(deleted_vec') = {k \in key_map'[Main] : cb'[k].deleted}
  BY <1>4 DEF MarkedInv
<1>6. QED
  BY <1>3, <1>5 DEF MarkedInv

\* A callback is created, which is not marked.
LEMMA StoreMarked ==
  ASSUME TypeOK, KeyInv, CaughtInv, MarkedInv, NEW t \in Threads, Store(t)
  PROVE  MarkedInv'
<1> DEFINE new == Len(cb) + 1
<1>1. /\ new \notin DOMAIN cb /\ cb'[new] = NewCb(t) /\ \A k \in DOMAIN cb : cb'[k] = cb[k]
      /\ \A u \in Threads : key_map'[u] = IF u = t THEN key_map[t] \cup {new} ELSE key_map[u]
  BY Stored
<1> HIDE DEF new
<1>2. UNCHANGED <<deleted_vec, unregistered, processing>>
  BY DEF Store, mainVars, histVars
<1>3. /\ Main \in Threads /\ key_map[Main] \subseteq DOMAIN cb /\ unregistered \subseteq DOMAIN cb
  BY Objects, VectorNames DEF TypeOK
<1>4. /\ pc[Main] = "ended" => pc'[Main] = "ended"
      /\ pc[Main] = "purge" => pc'[Main] = "purge"
  BY <1>3 DEF Store, Goto, TypeOK
<1>5. CASE t # Main
  <2>1. \A k \in key_map[Main] : cb'[k] = cb[k]
    BY <1>1, <1>3
  <2>2. Quiet
    BY <1>1, <1>2, <1>3, <1>4, <1>5, <2>1 DEF Quiet
  <2>3. QED
    BY <2>2, QuietMarked
<1>6. CASE t = Main
  <2>1. /\ key_map'[Main] = key_map[Main] \cup {new} /\ cb'[new].deleted = FALSE
        /\ \A k \in key_map[Main] : cb'[k] = cb[k]
    BY <1>1, <1>3, <1>6 DEF NewCb
  <2>2. {k \in key_map'[Main] : cb'[k].deleted} = {k \in key_map[Main] : cb[k].deleted}
    BY <2>1
  <2>3. new \notin unregistered
    BY <1>1, <1>3
  <2>4. pc[Main] # "ended" /\ pc[Main] # "purge"
    BY <1>6 DEF Store
  <2>5. \A k \in key_map'[Main] : cb'[k].deleted => k \in key_map[Main] /\ cb'[k] = cb[k]
    BY <2>1
  <2>6. \A k \in key_map'[Main] : cb'[k].deleted /\ cb'[k].type = "sig" => cb'[k].of # "USR2"
    BY <2>5 DEF MarkedInv
  <2>7. \A k \in key_map'[Main] \cap unregistered' : cb'[k].deleted
    BY <1>2, <2>1, <2>3 DEF MarkedInv
  <2>8. QED
    BY <1>2, <2>2, <2>4, <2>6, <2>7 DEF MarkedInv
<1>7. QED
  BY <1>5, <1>6

---------------------------------------------------------------------------
(* Who is owed a call.                                                     *)

\* Nobody is owed a call by a timer: nothing to say of their order.
LEMMA NoneInOrder ==
  ASSUME owed' \cap ToSet(vec'[Main][TimerVec]) = {}
  PROVE  TimersInOrder'
<1> DEFINE tv == vec'[Main][TimerVec]
<1>1. \A i \in DOMAIN tv : tv[i] \notin owed'
  BY DEF ToSet
<1>2. QED
  BY <1>1, Zenon DEF TimersInOrder

\* Only the owner of an id files it: a timer is no file descriptor.
LEMMA OwedKinds ==
  ASSUME TypeOK, FiledInv, RunInv, OwedInv, NEW id \in owed
  PROVE  /\ id \in key_map[Main] /\ id \in DOMAIN cb
         /\ \/ VecOf(cb[id]) = TimerVec /\ id \in ToSet(vec[Main][TimerVec])
            \/ VecOf(cb[id]) = FdVec /\ id \in ready /\ id \in ToSet(arr)
<1>1. id \in key_map[Main] /\ id \in DOMAIN cb
  BY Objects, VectorNames DEF OwedInv
<1>2. CASE id \in ToSet(vec[Main][TimerVec])
  BY <1>1, <1>2, InItsVector, VectorNames
<1>3. CASE id \in ready
  <2>1. id \in ToSet(arr)
    BY <1>3 DEF TypeOK
  <2>2. InRun \/ pc[Main] = "purge"
    BY <1>3 DEF RunInv
  <2>3. CASE InRun
    <3>1. id \in ToSet(vec[Main][FdVec])
      BY <2>1, <2>3 DEF RunInv
    <3>2. QED
      BY <1>1, <1>3, <2>1, <3>1, InItsVector, VectorNames
  <2>4. CASE pc[Main] = "purge"
    BY <1>3, <2>4 DEF OwedInv
  <2>5. QED
    BY <2>2, <2>3, <2>4
<1>4. QED
  BY <1>1, <1>2, <1>3 DEF OwedInv

\* The timers' order outlives a step that calls none of them.
LEMMA OrderKept ==
  ASSUME TypeOK, TimersInOrder, NEW tv, tv = vec[Main][TimerVec],
         NEW tw, tw = vec'[Main][TimerVec],
         \A i \in DOMAIN tv : i \in DOMAIN tw /\ tw[i] = tv[i],
         \A i \in DOMAIN tw : i \notin DOMAIN tv =>
           tw[i] \notin owed' /\ \A k \in DOMAIN tv : k < i,
         \A i \in DOMAIN tv :
           /\ cb'[tv[i]].due = cb[tv[i]].due
           /\ cb[tv[i]].deleted => cb'[tv[i]].deleted
           /\ tv[i] \in owed' => tv[i] \in owed
           /\ tv[i] \in owed => tv[i] \in owed' \/ cb'[tv[i]].deleted
           /\ NextTimer' <= i => NextTimer <= i \/ cb'[tv[i]].deleted
           /\ NextTimer <= i => NextTimer' <= i,
         DOMAIN tw \subseteq Nat
  PROVE  TimersInOrder'
<1>1. /\ \A i, j \in DOMAIN tv :
           i < j /\ tv[i] \in owed /\ tv[j] \in owed => cb[tv[i]].due <= cb[tv[j]].due
      /\ \A i, j \in DOMAIN tv :
           i < j /\ NextTimer <= i /\ tv[i] \notin owed /\ ~cb[tv[i]].deleted => tv[j] \notin owed
      /\ \A i \in DOMAIN tv : tv[i] \in owed => NextTimer <= i
  BY DEF TimersInOrder
<1>2. ASSUME NEW i \in DOMAIN tw, NEW j \in DOMAIN tw, i < j, tw[i] \in owed', tw[j] \in owed'
      PROVE  cb'[tw[i]].due <= cb'[tw[j]].due
  <2>1. i \in DOMAIN tv /\ j \in DOMAIN tv
    BY <1>2
  <2>2. QED
    BY <1>1, <1>2, <2>1
<1>3. ASSUME NEW i \in DOMAIN tw, NEW j \in DOMAIN tw, i < j, NextTimer' <= i,
             tw[i] \notin owed', ~cb'[tw[i]].deleted
      PROVE  tw[j] \notin owed'
  <2>1. CASE i \in DOMAIN tv /\ j \in DOMAIN tv
    <3>1. tv[i] \notin owed /\ ~cb[tv[i]].deleted /\ NextTimer <= i
      BY <1>3, <2>1
    <3>2. QED
      BY <1>1, <1>3, <2>1, <3>1
  <2>2. CASE i \notin DOMAIN tv /\ j \in DOMAIN tv
    <3>1. j < i /\ i \in Nat /\ j \in Nat
      BY <2>2
    <3>2. QED
      BY <1>3, <3>1
  <2>3. CASE j \notin DOMAIN tv
    BY <2>3
  <2>4. QED
    BY <2>1, <2>2, <2>3
<1>4. ASSUME NEW i \in DOMAIN tw, tw[i] \in owed' PROVE NextTimer' <= i
  <2>1. i \in DOMAIN tv /\ tv[i] \in owed
    BY <1>4
  <2>2. QED
    BY <1>1, <2>1
<1>5. QED
  BY <1>2, <1>3, <1>4 DEF TimersInOrder

\* In a step of a round that serves nobody who is owed a call.
LEMMA OwedStays ==
  ASSUME TypeOK, FiledInv, RunInv, OwedInv, NEW tv, tv = vec[Main][TimerVec],
         NEW tw, tw = vec'[Main][TimerVec],
         \A id \in owed' : id \in owed /\ id \in key_map'[Main] /\ ~cb'[id].deleted,
         \A id \in owed : id \in owed' \/ cb'[id].deleted,
         \A id \in ToSet(tv) : /\ cb'[id].due = cb[id].due
                               /\ cb[id].deleted => cb'[id].deleted,
         tw = tv \/ \E x \in DOMAIN cb' : x \notin DOMAIN cb /\ tw = Append(tv, x),
         arr' = arr, ready' = ready, InRun', pc[Main] # "purge", pc'[Main] # "purge",
         Serves("fds")' => Serves("fds") /\ time_ms' = time_ms /\ First' <= First,
         First \in Nat, First' \in Nat,
         ~Serves("fds")' => /\ ~Serves("fds")
                            /\ NextTimer' <= NextTimer
                            /\ \A i \in DOMAIN tv : NextTimer' <= i =>
                                 NextTimer <= i \/ cb'[tv[i]].deleted
  PROVE  OwedInv'
<1>1. /\ tv \in Seq(DOMAIN cb) /\ ToSet(tv) \subseteq DOMAIN cb /\ DOMAIN tv = 1 .. Len(tv)
      /\ Len(tv) \in Nat /\ \A i \in DOMAIN tv : tv[i] \in ToSet(tv) /\ tv[i] \in DOMAIN cb
  BY Objects, VectorNames, Elements
<1>2. /\ \A i \in DOMAIN tv : i \in DOMAIN tw /\ tw[i] = tv[i]
      /\ \A i \in DOMAIN tw : i \notin DOMAIN tv =>
           tw[i] \notin DOMAIN cb /\ \A k \in DOMAIN tv : k < i
      /\ DOMAIN tw \subseteq Nat
  <2>1. CASE tw = tv
    BY <1>1, <2>1
  <2>2. ASSUME NEW x \in DOMAIN cb', x \notin DOMAIN cb, tw = Append(tv, x)
        PROVE  /\ \A i \in DOMAIN tv : i \in DOMAIN tw /\ tw[i] = tv[i]
               /\ \A i \in DOMAIN tw : i \notin DOMAIN tv =>
                    tw[i] \notin DOMAIN cb /\ \A k \in DOMAIN tv : k < i
               /\ DOMAIN tw \subseteq Nat
    <3> DEFINE S == DOMAIN cb \cup {x}
    <3>1. tv \in Seq(S) /\ x \in S
      BY <1>1, SeqMonotonic
    <3> HIDE DEF S
    <3>2. /\ DOMAIN tw = DOMAIN tv \cup {Len(tv) + 1} /\ tw[Len(tv) + 1] = x
          /\ \A i \in DOMAIN tv : tw[i] = tv[i] /\ i < Len(tv) + 1
      BY <2>2, <3>1, Appended
    <3>3. QED
      BY <1>1, <2>2, <3>2
  <2>3. QED
    BY <2>1, <2>2
<1>3. \A id \in owed : id \in DOMAIN cb /\ id \in ToSet(tv) \cup ready
  BY OwedKinds
<1>4. ToSet(tv) \subseteq ToSet(tw) /\ \A id \in ToSet(tw) : id \in DOMAIN cb => id \in ToSet(tv)
  BY <1>2 DEF ToSet
<1>5. owed' \subseteq ToSet(vec'[Main][TimerVec]) \cup ready'
  BY <1>3, <1>4 DEF OwedInv
<1>6. ~FdsServed' => TimersInOrder'
  <2>1. SUFFICES ASSUME ~FdsServed' PROVE TimersInOrder'
    OBVIOUS
  <2>2. ~Serves("fds")' /\ ~Serves("fds") /\ TimersInOrder
    BY <2>1 DEF FdsServed, OwedInv
  <2>3. NextTimer \in Nat /\ NextTimer' \in Nat
    BY DEF NextTimer
  <2>4. \A i \in DOMAIN tw : i \notin DOMAIN tv => tw[i] \notin owed'
    BY <1>2, <1>3
  <2>5. ASSUME NEW i \in DOMAIN tv
        PROVE  /\ cb'[tv[i]].due = cb[tv[i]].due
               /\ cb[tv[i]].deleted => cb'[tv[i]].deleted
               /\ tv[i] \in owed' => tv[i] \in owed
               /\ tv[i] \in owed => tv[i] \in owed' \/ cb'[tv[i]].deleted
               /\ NextTimer' <= i => NextTimer <= i \/ cb'[tv[i]].deleted
               /\ NextTimer <= i => NextTimer' <= i
    BY <1>1, <2>2, <2>3
  <2>6. QED
    BY <1>2, <2>2, <2>4, <2>5, OrderKept
<1>7. FdsServed' => \A id \in owed' \cap ToSet(vec'[Main][TimerVec]) : ~IsDue(id)'
  <2>1. SUFFICES ASSUME FdsServed', NEW id \in owed', id \in ToSet(tw) PROVE ~IsDue(id)'
    OBVIOUS
  <2>2. Serves("fds") /\ time_ms' = time_ms
    BY <2>1 DEF FdsServed
  <2>3. id \in owed /\ id \in ToSet(tv)
    BY <1>3, <1>4, <2>1
  <2>4. cb'[id].due = cb[id].due /\ ~IsDue(id)
    BY <2>2, <2>3 DEF OwedInv, FdsServed
  <2>5. QED
    BY <2>2, <2>4 DEF IsDue
<1>8. Serves("fds")' => \A i \in DOMAIN arr' : arr'[i] \in owed' => First' <= i
  <2>1. arr \in Seq(DOMAIN cb)
    BY DEF TypeOK
  <2>2. DOMAIN arr \subseteq Nat
    BY <2>1, Elements
  <2>3. QED
    BY <2>2 DEF OwedInv
<1>9. QED
  BY <1>5, <1>6, <1>7, <1>8 DEF OwedInv

---------------------------------------------------------------------------
(* Steps in which Main serves nobody.                                      *)

Rest == MarkedInv /\ RunInv /\ OwedInv /\ CalledWhileRegistered

\* Another thread moves, or a signal arrives.
MainStays ==
  /\ pc'[Main] = pc[Main] /\ then'[Main] = then[Main]
  /\ UNCHANGED <<mainVars, runVars, histVars>>
  /\ vec'[Main] = vec[Main] /\ key_map'[Main] = key_map[Main]
  /\ \A id \in key_map[Main] : cb'[id] = cb[id]

LEMMA StaysHolds ==
  ASSUME TypeOK, FiledInv, Rest, MainStays
  PROVE  Rest'
<1>1. /\ pc'[Main] = pc[Main] /\ then'[Main] = then[Main]
      /\ UNCHANGED <<processing, deleted_vec, time_ms, arr, ready, hits, ndx, signum, cur, phase,
                     unregistered, late, owed>>
      /\ vec'[Main] = vec[Main] /\ key_map'[Main] = key_map[Main]
      /\ \A id \in key_map[Main] : cb'[id] = cb[id]
  BY DEF MainStays, mainVars, runVars, histVars
<1>2. /\ InCallback' = InCallback /\ InRun' = InRun /\ FdsServed' = FdsServed /\ First' = First
      /\ NextTimer' = NextTimer /\ Serves("vsig")' = Serves("vsig")
      /\ Serves("signal")' = Serves("signal") /\ Serves("fds")' = Serves("fds")
  BY <1>1 DEF InCallback, InRun, FdsServed, First, NextTimer, Serves
<1>3. MarkedInv'
  <2>1. Quiet
    BY <1>1 DEF Quiet, Rest, MarkedInv
  <2>2. QED
    BY <2>1, QuietMarked DEF Rest
<1>4. RunInv'
  <2>1. \A id \in ToSet(hits') : id \in key_map'[Main] /\ cb'[id].type = "vsig"
    BY <1>1 DEF Rest, RunInv
  <2>2. QED
    BY <1>1, <1>2, <2>1 DEF Rest, RunInv
<1>5. \A id \in ToSet(vec[Main][TimerVec]) : id \in key_map[Main] /\ cb'[id] = cb[id]
  BY <1>1, VectorNames DEF FiledInv
<1>6. \A i \in DOMAIN vec[Main][TimerVec] : cb'[vec[Main][TimerVec][i]] = cb[vec[Main][TimerVec][i]]
  BY <1>5 DEF ToSet
<1>7. TimersInOrder => TimersInOrder'
  BY <1>1, <1>2, <1>6 DEF TimersInOrder
<1>8. \A id \in owed \cap ToSet(vec[Main][TimerVec]) : IsDue(id)' <=> IsDue(id)
  BY <1>1, <1>5 DEF IsDue
<1>9. OwedInv'
  <2>1. \A id \in owed' : id \in key_map'[Main] /\ ~cb'[id].deleted
    BY <1>1 DEF Rest, OwedInv
  <2>2. FdsServed' => \A id \in owed' \cap ToSet(vec'[Main][TimerVec]) : ~IsDue(id)'
    BY <1>1, <1>2, <1>8 DEF Rest, OwedInv
  <2>3. QED
    BY <1>1, <1>2, <1>7, <2>1, <2>2 DEF Rest, OwedInv
<1>10. QED
  BY <1>1, <1>3, <1>4, <1>9 DEF Rest, CalledWhileRegistered

\* Main is not in a round: nobody is owed anything.
LEMMA OutHolds ==
  ASSUME RunInv, OwedInv, CalledWhileRegistered, ~InRun, pc[Main] # "purge",
         ~InRun', pc'[Main] # "purge", UNCHANGED runVars, late' = late, owed' \subseteq owed
  PROVE  RunInv' /\ OwedInv' /\ CalledWhileRegistered'
<1>1. /\ ready = {} /\ hits = <<>> /\ owed = {}
      /\ \A s \in {"signal", "vsig", "fds"} : ~Serves(s)' /\ ~Serves(s)
      /\ ~InCallback'
  BY DEF RunInv, OwedInv, InRun, InCallback, Serves
<1>2. ready' = {} /\ hits' = <<>> /\ owed' = {}
  BY <1>1 DEF runVars
<1>3. RunInv'
  BY <1>1, <1>2 DEF RunInv, ToSet
<1>4. OwedInv'
  BY <1>1, <1>2, NoneInOrder DEF OwedInv, FdsServed
<1>5. QED
  BY <1>3, <1>4 DEF CalledWhileRegistered

\* Main goes elsewhere; its callbacks stay what they are.
LEMMA MovesQuiet ==
  ASSUME MarkedInv, NEW s, Goto(Main, s), DOMAIN pc = Threads, pc[Main] # "ended",
         pc[Main] # "purge" \/ s = "purge",
         UNCHANGED <<key_map, deleted_vec, unregistered>>,
         \A id \in key_map[Main] : /\ cb'[id].deleted = cb[id].deleted
                                   /\ cb'[id].type = cb[id].type /\ cb'[id].of = cb[id].of,
         processing' = processing \/ processing' = TRUE
  PROVE  MarkedInv'
<1>1. pc'[Main] = s
  BY VectorNames DEF Goto
<1>2. Quiet
  BY <1>1 DEF Quiet
<1>3. QED
  BY <1>2, QuietMarked

\* ES_unregister() outside ES_run(), or within.
LEMMA UnregisterMarked ==
  ASSUME TypeOK, KeyInv, FiledInv, MarkedInv, NEW next, UnregisterKey(next),
         next \notin {"purge", "ended"}, pc[Main] \notin {"purge", "ended"}
  PROVE  MarkedInv'
<1>1. pc'[Main] = next /\ DOMAIN pc = Threads
  BY VectorNames DEF UnregisterKey, Goto, TypeOK
<1>2. CASE UNCHANGED <<objVars, mainVars, histVars>>
  <2>1. UNCHANGED <<key_map, deleted_vec, unregistered, cb, processing>>
    BY <1>2 DEF objVars, mainVars, histVars
  <2>2. QED
    BY <1>1, <2>1, MovesQuiet DEF UnregisterKey
<1>3. ASSUME NEW id \in key_map[Main], Unregister(id), cb[id].of # "USR2",
             UNCHANGED <<processing, late>>
      PROVE  MarkedInv'
  <2>1. CASE processing
    <3>1. Mark(id) /\ unregistered' = unregistered \cup {id} /\ processing' = processing
      BY <1>3, <2>1 DEF Unregister
    <3>2. QED
      BY <1>3, <2>1, <3>1, MarkMarked
  <2>2. CASE ~processing
    <3>1. /\ Destroy(id) /\ unregistered' = unregistered \cup {id} /\ deleted_vec' = deleted_vec
      BY <1>3, <2>2 DEF Unregister
    <3>2. deleted_vec = <<>>
      BY <2>2 DEF MarkedInv
    <3>3. IsInjective(deleted_vec') /\ ToSet(deleted_vec') = ToSet(deleted_vec) \ {id}
      BY <3>1, <3>2 DEF IsInjective, ToSet
    <3>4. QED
      BY <3>1, <3>2, <3>3, DestroyMarked
  <2>3. QED
    BY <2>1, <2>2
<1>4. QED
  BY <1>2, <1>3, Unregisters

LEMMA OutsideRest ==
  ASSUME TypeOK, KeyInv, FiledInv, Rest, Outside
  PROVE  Rest'
<1>1. pc[Main] = "idle" /\ DOMAIN pc = Threads /\ Main \in Threads
  BY VectorNames DEF Outside, Idle, TypeOK
<1>2. ~InRun /\ pc[Main] # "purge"
  BY <1>1 DEF InRun, InCallback
<1>3. CASE \E s : Register(Main, s, "idle")
  <2>1. PICK s : Register(Main, s, "idle")
    BY <1>3
  <2>2. /\ Goto(Main, "store") /\ then'[Main] = "idle"
        /\ UNCHANGED <<objVars, mainVars, runVars, histVars>>
    BY <1>1, <2>1 DEF Register, TypeOK
  <2>3. MarkedInv'
    <3>1. UNCHANGED <<key_map, deleted_vec, unregistered, cb, processing>>
      BY <2>2 DEF objVars, mainVars, histVars
    <3>2. QED
      BY <1>1, <2>2, <3>1, MovesQuiet DEF Rest
  <2>4. pc'[Main] = "store"
    BY <1>1, <2>2 DEF Goto
  <2>5. ~InRun' /\ pc'[Main] # "purge"
    BY <2>2, <2>4 DEF InRun, InCallback
  <2>6. late' = late /\ owed' \subseteq owed
    BY <2>2 DEF histVars
  <2>7. QED
    BY <1>2, <2>2, <2>3, <2>5, <2>6, OutHolds DEF Rest
<1>4. CASE UnregisterKey("idle")
  <2>1. MarkedInv'
    BY <1>1, <1>4, UnregisterMarked DEF Rest
  <2>2. pc'[Main] = "idle"
    BY <1>1, <1>4 DEF UnregisterKey, Goto
  <2>3. ~InRun' /\ pc'[Main] # "purge"
    BY <2>2 DEF InRun, InCallback
  <2>4. UNCHANGED runVars
    BY <1>4 DEF UnregisterKey
  <2>5. late' = late /\ owed' \subseteq owed
    BY <1>4, Unregisters DEF Unregister, histVars
  <2>6. QED
    BY <1>2, <2>1, <2>3, <2>4, <2>5, OutHolds DEF Rest
<1>5. CASE /\ Goto(Main, "round")
           /\ UNCHANGED <<regVars, objVars, spawnVars, worldVars, mainVars, runVars, histVars>>
  <2>1. MarkedInv'
    <3>1. UNCHANGED <<key_map, deleted_vec, unregistered, cb, processing>>
      BY <1>5 DEF objVars, mainVars, histVars
    <3>2. QED
      BY <1>1, <1>5, <3>1, MovesQuiet DEF Rest
  <2>2. pc'[Main] = "round"
    BY <1>1, <1>5 DEF Goto
  <2>3. ~InRun' /\ pc'[Main] # "purge"
    BY <2>2 DEF InRun, InCallback
  <2>4. late' = late /\ owed' \subseteq owed
    BY <1>5 DEF histVars
  <2>5. QED
    BY <1>2, <1>5, <2>1, <2>3, <2>4, OutHolds DEF Rest
<1>6. QED
  BY <1>3, <1>4, <1>5 DEF Outside

LEMMA CleanupRest ==
  ASSUME TypeOK, FiledInv, Rest, Cleanup
  PROVE  Rest'
<1>1. /\ pc[Main] = "idle" /\ pc'[Main] = "ended" /\ key_map'[Main] = {}
      /\ UNCHANGED <<processing, deleted_vec>> /\ UNCHANGED runVars
      /\ late' = late /\ owed' \subseteq owed
  BY VectorNames DEF Cleanup, Idle, Goto, TypeOK, mainVars, histVars
<1>2. ~InRun /\ pc[Main] # "purge" /\ ~InRun' /\ pc'[Main] # "purge"
  BY <1>1 DEF InRun, InCallback
<1>3. MarkedInv'
  BY <1>1 DEF Rest, MarkedInv
<1>4. QED
  BY <1>1, <1>2, <1>3, OutHolds DEF Rest

LEMMA SpawnRest ==
  ASSUME TypeOK, FiledInv, Rest, TestReleased \/ Awake \/ \E w \in Workers : Spawn(w)
  PROVE  Rest'
<1>1. PICK s : /\ s \in {"idle", "wait", "test"} /\ pc'[Main] = s
               /\ pc[Main] \in {"idle", "wait", "test"}
               /\ UNCHANGED <<objVars, mainVars, runVars, histVars>>
  <2>1. DOMAIN pc = Threads /\ Main \in Threads
    BY VectorNames DEF TypeOK
  <2>2. CASE TestReleased \/ Awake
    BY <2>1, <2>2 DEF TestReleased, Awake, Goto
  <2>3. CASE \E w \in Workers : Spawn(w)
    <3>1. PICK w \in Workers : Spawn(w)
      BY <2>3
    <3>2. pc'[Main] = "test"
      BY <2>1, <3>1, WorkersAssumption DEF Spawn
    <3>3. QED
      BY <3>1, <3>2 DEF Spawn, Idle
  <2>4. QED
    BY <2>2, <2>3
<1>2. ~InRun /\ pc[Main] # "purge" /\ ~InRun' /\ pc'[Main] # "purge"
  BY <1>1 DEF InRun, InCallback
<1>3. MarkedInv'
  <2>1. UNCHANGED <<key_map, deleted_vec, unregistered, cb, processing>>
    BY <1>1 DEF objVars, mainVars, histVars
  <2>2. Quiet
    BY <1>1, <2>1 DEF Quiet
  <2>3. QED
    BY <2>2, QuietMarked DEF Rest
<1>4. late' = late /\ owed' \subseteq owed
  BY <1>1 DEF histVars
<1>5. QED
  BY <1>1, <1>2, <1>3, <1>4, OutHolds DEF Rest

LEMMA OthersRest ==
  ASSUME TypeOK, FiledInv, Rest,
         Arrives \/ UNCHANGED vars \/ \E w \in Workers : WorkerStarts(w) \/ Release(w)
  PROVE  Rest'
<1>1. DOMAIN pc = Threads /\ DOMAIN then = Threads /\ Main \in Threads
  BY VectorNames DEF TypeOK
<1>2. /\ pc'[Main] = pc[Main] /\ then'[Main] = then[Main]
      /\ UNCHANGED <<objVars, mainVars, runVars, histVars>>
  <2>1. CASE Arrives \/ UNCHANGED vars
    BY <2>1 DEF Arrives, vars, regVars
  <2>2. ASSUME NEW w \in Workers, WorkerStarts(w) \/ Release(w)
        PROVE  /\ pc'[Main] = pc[Main] /\ then'[Main] = then[Main]
               /\ UNCHANGED <<objVars, mainVars, runVars, histVars>>
    BY <1>1, <2>2, WorkersAssumption DEF WorkerStarts, Release, Register, Goto, regVars
  <2>3. QED
    BY <2>1, <2>2
<1>3. MainStays
  BY <1>2 DEF MainStays, objVars
<1>4. QED
  BY <1>3, StaysHolds

\* A registration ends: outside ES_run(), in a callback, or in another thread.
LEMMA StoreRest ==
  ASSUME TypeOK, KeyInv, FiledInv, CaughtInv, Rest, NEW t \in Threads, Store(t)
  PROVE  Rest'
<1> DEFINE new == Len(cb) + 1
           own == VecOf(spec[t])
<1>1. /\ own \in Vectors /\ new \notin DOMAIN cb /\ DOMAIN cb' = DOMAIN cb \cup {new}
      /\ \A k \in DOMAIN cb : cb'[k] = cb[k]
      /\ \A u \in Threads, slot \in Vectors :
           vec'[u][slot] = IF u = t /\ slot = own THEN Append(vec[t][own], new)
                           ELSE vec[u][slot]
      /\ \A u \in Threads : key_map'[u] = IF u = t THEN key_map[t] \cup {new} ELSE key_map[u]
      /\ vec' \in [Threads -> [Vectors -> Seq(DOMAIN cb')]]
      /\ vec \in [Threads -> [Vectors -> Seq(DOMAIN cb)]]
  BY Stored DEF TypeOK
<1> HIDE DEF new, own
<1>2. /\ DOMAIN pc = Threads /\ DOMAIN then = Threads /\ Main \in Threads
      /\ FdVec \in Vectors /\ TimerVec \in Vectors
      /\ key_map[Main] \subseteq DOMAIN cb
  BY VectorNames, Objects DEF TypeOK
<1>3. UNCHANGED <<mainVars, runVars, histVars>>
  BY DEF Store
<1>4. MarkedInv'
  BY StoreMarked DEF Rest
<1>5. CASE t # Main
  <2>1. pc'[Main] = pc[Main] /\ then'[Main] = then[Main]
    BY <1>2, <1>5 DEF Store, Goto
  <2>2. vec'[Main] = vec[Main]
    BY <1>1, <1>2, <1>5
  <2>3. key_map'[Main] = key_map[Main] /\ \A id \in key_map[Main] : cb'[id] = cb[id]
    BY <1>1, <1>2, <1>5
  <2>4. MainStays
    BY <1>3, <2>1, <2>2, <2>3 DEF MainStays
  <2>5. QED
    BY <2>4, StaysHolds
<1>6. CASE t = Main /\ then[Main] # "return"
  <2>1. pc[Main] = "store" /\ pc'[Main] = "idle"
    BY <1>2, <1>6 DEF Store, Goto, KeyInv, TurnInv
  <2>2. ~InRun /\ pc[Main] # "purge" /\ ~InRun' /\ pc'[Main] # "purge"
    BY <1>6, <2>1 DEF InRun, InCallback
  <2>3. late' = late /\ owed' \subseteq owed
    BY <1>3 DEF histVars
  <2>4. QED
    BY <1>3, <1>4, <2>2, <2>3, OutHolds DEF Rest
<1>7. CASE t = Main /\ then[Main] = "return"
  <2>1. pc[Main] = "store" /\ pc'[Main] = "return" /\ InCallback /\ InCallback'
    BY <1>2, <1>7 DEF Store, Goto, InCallback
  <2>2. /\ UNCHANGED <<processing, deleted_vec, time_ms, arr, ready, hits, ndx, signum, cur, phase,
                       unregistered, late, owed>>
    BY <1>3 DEF mainVars, runVars, histVars
  <2>3. /\ InRun /\ InRun' /\ First' = First /\ NextTimer' = NextTimer
        /\ Serves("vsig")' = Serves("vsig") /\ Serves("signal")' = Serves("signal")
        /\ Serves("fds")' = Serves("fds")
    BY <2>1, <2>2 DEF InRun, First, NextTimer, Serves
  <2>4. /\ vec'[Main][TimerVec] = vec[Main][TimerVec]
           \/ vec'[Main][TimerVec] = Append(vec[Main][TimerVec], new)
        /\ vec'[Main][FdVec] = vec[Main][FdVec]
           \/ vec'[Main][FdVec] = Append(vec[Main][FdVec], new)
        /\ vec[Main][FdVec] \in Seq(DOMAIN cb) /\ vec[Main][TimerVec] \in Seq(DOMAIN cb)
    <3>1. \A slot \in Vectors : \/ vec'[Main][slot] = vec[Main][slot]
                               \/ vec'[Main][slot] = Append(vec[Main][slot], new)
      BY <1>1, <1>2, <1>7
    <3>2. \A slot \in Vectors : vec[Main][slot] \in Seq(DOMAIN cb)
      BY <1>1, <1>2
    <3>3. QED
      BY <1>2, <3>1, <3>2
  <2>5. /\ ToSet(vec[Main][FdVec]) \subseteq ToSet(vec'[Main][FdVec])
        /\ \A i \in DOMAIN vec[Main][TimerVec] :
             /\ i \in DOMAIN vec'[Main][TimerVec]
             /\ vec'[Main][TimerVec][i] = vec[Main][TimerVec][i]
    <3> DEFINE S == DOMAIN cb \cup {new}
               fv == vec[Main][FdVec]
               tv == vec[Main][TimerVec]
    <3>1. fv \in Seq(S) /\ tv \in Seq(S) /\ new \in S
      BY <2>4, SeqMonotonic
    <3> HIDE DEF S, fv, tv
    <3>2. /\ ToSet(Append(fv, new)) = ToSet(fv) \cup {new}
          /\ \A i \in DOMAIN tv : i \in DOMAIN Append(tv, new) /\ Append(tv, new)[i] = tv[i]
      BY <3>1, Appended
    <3>3. QED
      BY <2>4, <3>2 DEF fv, tv
  <2>6. key_map[Main] \subseteq key_map'[Main] /\ \A id \in key_map[Main] : cb'[id] = cb[id]
    BY <1>1, <1>2, <1>7
  <2>7. RunInv'
    <3>1. ToSet(arr') \subseteq ToSet(vec'[Main][FdVec]) /\ processing'
      BY <2>2, <2>3, <2>5 DEF Rest, RunInv
    <3>2. \A id \in ToSet(hits') : id \in key_map'[Main] /\ cb'[id].type = "vsig"
      BY <2>2, <2>6 DEF Rest, RunInv
    <3>3. phase' # "none" /\ cur' \in key_map'[Main]
      BY <2>1, <2>2, <2>6 DEF Rest, RunInv
    <3>4. phase' = "timers" =>
            ndx' \in DOMAIN vec'[Main][TimerVec] /\ cur' = vec'[Main][TimerVec][ndx']
      BY <2>1, <2>2, <2>5 DEF Rest, RunInv
    <3>5. ready' # {} => (InRun' /\ pc'[Main] # "poll") \/ pc'[Main] = "purge"
      BY <2>1, <2>3
    <3>6. hits' # <<>> => Serves("vsig")'
      BY <2>2, <2>3 DEF Rest, RunInv
    <3>7. Serves("signal")' => signum' \in DOMAIN Signals
      BY <2>2, <2>3 DEF Rest, RunInv
    <3>8. QED
      BY <3>1, <3>2, <3>3, <3>4, <3>5, <3>6, <3>7 DEF RunInv
  <2>8. OwedInv'
    <3> DEFINE tv == vec[Main][TimerVec]
               tw == vec'[Main][TimerVec]
    <3>1. \A id \in owed' : id \in owed /\ id \in key_map'[Main] /\ ~cb'[id].deleted
      BY <2>2, <2>6 DEF Rest, OwedInv
    <3>2. \A id \in ToSet(tv) : cb'[id] = cb[id]
      BY <1>1, <1>2, Objects
    <3>3. tw = tv \/ \E x \in DOMAIN cb' : x \notin DOMAIN cb /\ tw = Append(tv, x)
      BY <1>1, <2>4
    <3>4. First \in Nat /\ First' \in Nat /\ NextTimer \in Nat
      BY <2>3 DEF First, NextTimer, TypeOK
    <3>5. pc[Main] # "purge" /\ pc'[Main] # "purge"
      BY <2>1
    <3> HIDE DEF tv, tw
    <3>6. QED
      BY <2>2, <2>3, <3>1, <3>2, <3>3, <3>4, <3>5, OwedStays DEF Rest, tv, tw
  <2>9. QED
    BY <1>4, <2>2, <2>7, <2>8 DEF Rest, CalledWhileRegistered
<1>8. QED
  BY <1>5, <1>6, <1>7

---------------------------------------------------------------------------
(* The round: poll() and the signals.                                      *)

LEMMA StartRest ==
  ASSUME TypeOK, FiledInv, Rest, StartRound
  PROVE  Rest'
<1>1. PICK fds \in Sorted(vec[Main][FdVec], LastActivity), timers \in Timers(vec[Main][TimerVec]) :
        /\ vec' = [vec EXCEPT ![Main][FdVec] = fds, ![Main][TimerVec] = timers]
        /\ arr' = fds /\ owed' = {id \in ToSet(timers) : ~cb[id].deleted}
  BY DEF StartRound
<1>2. /\ pc[Main] = "round" /\ pc'[Main] = "poll" /\ processing'
      /\ UNCHANGED <<cb, key_map, deleted_vec, ready, hits, signum, cur, phase,
                     unregistered, late>>
  BY VectorNames DEF StartRound, Goto, TypeOK
<1>3. /\ Main \in Threads /\ FdVec \in Vectors /\ TimerVec \in Vectors /\ FdVec # TimerVec
      /\ vec[Main][FdVec] \in Seq(DOMAIN cb) /\ vec[Main][TimerVec] \in Seq(DOMAIN cb)
  BY VectorNames DEF TypeOK
<1>4. /\ ToSet(fds) = ToSet(vec[Main][FdVec]) /\ ToSet(timers) = ToSet(vec[Main][TimerVec])
      /\ timers \in Seq(DOMAIN cb)
      /\ \A i, j \in DOMAIN timers : i < j => cb[timers[i]].due <= cb[timers[j]].due
  <2>1. \A id \in DOMAIN cb : [x \in DOMAIN cb |-> cb[x].due][id] = cb[id].due
    OBVIOUS
  <2>2. timers \in Sorted(vec[Main][TimerVec], [x \in DOMAIN cb |-> cb[x].due])
    BY DEF Timers
  <2> DEFINE key == [x \in DOMAIN cb |-> cb[x].due]
  <2> HIDE DEF key
  <2>3. /\ timers \in Seq(DOMAIN cb) /\ ToSet(timers) = ToSet(vec[Main][TimerVec])
        /\ \A i, j \in DOMAIN timers : i < j => key[timers[i]] <= key[timers[j]]
    BY <1>3, <2>2, SortedSeq DEF key
  <2>4. ToSet(fds) = ToSet(vec[Main][FdVec])
    BY <1>3, SortedSeq
  <2>5. \A i \in DOMAIN timers : timers[i] \in DOMAIN cb
    BY <2>3, Elements
  <2>6. QED
    BY <2>1, <2>3, <2>4, <2>5 DEF key
<1>5. vec'[Main][FdVec] = fds /\ vec'[Main][TimerVec] = timers
  BY <1>1, <1>3 DEF TypeOK
<1>6. ready = {} /\ hits = <<>>
  BY <1>2 DEF Rest, RunInv, InRun, InCallback, Serves
<1>7. /\ InRun' /\ ~InCallback' /\ \A s \in {"signal", "vsig", "fds", "timers"} : ~Serves(s)'
      /\ ~FdsServed' /\ NextTimer' = 1
  BY <1>2 DEF InRun, InCallback, Serves, FdsServed, NextTimer
<1>8. MarkedInv'
  <2>1. Quiet
    BY <1>2 DEF Quiet
  <2>2. QED
    BY <2>1, QuietMarked DEF Rest
<1>9. RunInv'
  <2>1. processing' /\ ToSet(arr') \subseteq ToSet(vec'[Main][FdVec])
    BY <1>1, <1>2, <1>5
  <2>2. ready' = {} /\ hits' = <<>> /\ ToSet(hits') = {}
    BY <1>2, <1>6 DEF ToSet
  <2>3. QED
    BY <1>7, <2>1, <2>2 DEF RunInv
<1>10. ToSet(timers) \subseteq key_map[Main]
  BY <1>3, <1>4 DEF FiledInv
<1>11. \A i \in DOMAIN timers : timers[i] \in ToSet(timers) /\ i >= 1
  BY <1>4, Elements
<1>12. TimersInOrder'
  <2>1. \A i, j \in DOMAIN timers : i < j => cb'[timers[i]].due <= cb'[timers[j]].due
    BY <1>2, <1>4
  <2>2. \A i \in DOMAIN timers : timers[i] \in owed' \/ cb'[timers[i]].deleted
    BY <1>1, <1>2, <1>11
  <2>3. QED
    BY <1>5, <1>7, <1>11, <2>1, <2>2 DEF TimersInOrder
<1>13. OwedInv'
  BY <1>1, <1>2, <1>5, <1>7, <1>10, <1>12 DEF OwedInv
<1>14. QED
  BY <1>2, <1>8, <1>9, <1>13 DEF Rest, CalledWhileRegistered

LEMMA PollRest ==
  ASSUME TypeOK, FiledInv, Rest, PollReturns
  PROVE  Rest'
<1>1. PICK fds \in SUBSET ToSet(arr) :
        ready' = fds /\ owed' = owed \cup {id \in fds : ~cb[id].deleted}
  BY DEF PollReturns
<1>2. /\ pc[Main] = "poll" /\ pc'[Main] = "signals" /\ DOMAIN pc = Threads
      /\ Goto(Main, "signals")
      /\ UNCHANGED <<cb, key_map, vec, processing, deleted_vec, arr, hits, phase,
                     unregistered, late>>
  BY VectorNames DEF PollReturns, Goto, TypeOK, objVars, mainVars
<1>3. /\ InRun /\ InRun' /\ ~InCallback /\ ~InCallback' /\ ~FdsServed /\ ~FdsServed'
      /\ \A s \in {"signal", "vsig", "fds", "timers"} : ~Serves(s)' /\ ~Serves(s)
      /\ NextTimer' = 1 /\ NextTimer = 1
  BY <1>2 DEF InRun, InCallback, Serves, FdsServed, NextTimer
<1>4. /\ processing /\ ToSet(arr) \subseteq ToSet(vec[Main][FdVec]) /\ hits = <<>>
      /\ ready = {}
  BY <1>2, <1>3 DEF Rest, RunInv
<1>5. MarkedInv'
  BY <1>2, MovesQuiet DEF Rest
<1>6. RunInv'
  BY <1>1, <1>2, <1>3, <1>4 DEF RunInv, ToSet
<1>7. \A id \in fds : /\ id \in key_map[Main] /\ id \notin ToSet(vec[Main][TimerVec])
  <2>1. \A id \in fds : id \in ToSet(vec[Main][FdVec]) /\ id \in key_map[Main]
    BY <1>4, VectorNames DEF FiledInv
  <2>2. QED
    BY <2>1, InItsVector, VectorNames
<1>8. \A i \in DOMAIN vec[Main][TimerVec] :
        vec[Main][TimerVec][i] \in owed' <=> vec[Main][TimerVec][i] \in owed
  BY <1>1, <1>7 DEF ToSet
<1>9. TimersInOrder'
  <2>1. TimersInOrder
    BY <1>3 DEF Rest, OwedInv
  <2>2. QED
    BY <1>2, <1>3, <1>8, <2>1 DEF TimersInOrder
<1>10. OwedInv'
  <2>1. \A id \in owed' : id \in key_map'[Main] /\ ~cb'[id].deleted
    BY <1>1, <1>2, <1>7 DEF Rest, OwedInv
  <2>2. owed' \subseteq ToSet(vec'[Main][TimerVec]) \cup ready'
    BY <1>1, <1>2, <1>4 DEF Rest, OwedInv
  <2>3. QED
    BY <1>2, <1>3, <1>9, <2>1, <2>2 DEF OwedInv
<1>11. QED
  BY <1>2, <1>5, <1>6, <1>10 DEF Rest, CalledWhileRegistered

\* Nobody who is owed a call has it from the signals' loops.
LEMMA SignalsOwed ==
  ASSUME TypeOK, FiledInv, RunInv, OwedInv, UNCHANGED <<objVars, arr, ready>>, owed' = owed,
         pc[Main] \in {"signals", "signal", "drain", "vsig"}, InRun', pc'[Main] # "purge",
         ~Serves("fds")', NextTimer' = 1, First' \in Nat
  PROVE  OwedInv'
<1> DEFINE tv == vec[Main][TimerVec]
           tw == vec'[Main][TimerVec]
<1>1. tw = tv /\ UNCHANGED <<cb, key_map, vec>>
  BY DEF objVars
<1>2. ~Serves("fds") /\ NextTimer = 1 /\ First \in Nat
  BY DEF Serves, InCallback, NextTimer, First, TypeOK
<1>3. \A id \in owed' : id \in owed /\ id \in key_map'[Main] /\ ~cb'[id].deleted
  BY <1>1 DEF OwedInv
<1>4. \A id \in ToSet(tv) : cb'[id] = cb[id]
  BY <1>1
<1> HIDE DEF tv, tw
<1>5. \A i \in DOMAIN tv : NextTimer' <= i => NextTimer <= i \/ cb'[tv[i]].deleted
  BY <1>2
<1>6. NextTimer' <= NextTimer
  BY <1>2
<1>7. pc[Main] # "purge"
  OBVIOUS
<1>8. QED
  BY <1>1, <1>2, <1>3, <1>4, <1>5, <1>6, <1>7, OwedStays DEF tv, tw

LEMMA ServeRest ==
  ASSUME TypeOK, FiledInv, Rest, ServeSignal
  PROVE  Rest'
<1>1. /\ pc[Main] = "signals" /\ Main \in Threads /\ DOMAIN pc = Threads
      /\ UNCHANGED <<objVars, mainVars, arr, ready, hits, cur, phase, histVars>>
  BY VectorNames DEF ServeSignal, Then, TypeOK
<1>2. PICK s \in {"timers", "drain", "signal"} :
        /\ Then(s) /\ (s = "signal" => signum' \in DOMAIN Signals)
  <2> DEFINE is == {i \in signum .. Len(Signals) : Signals[i] \in raised}
  <2>1. CASE is = {}
    BY <2>1 DEF ServeSignal
  <2>2. CASE is # {}
    <3> DEFINE n == Len(Signals)
    <3>1. n \in Nat /\ DOMAIN Signals = 1 .. n /\ signum \in Nat \ {0}
      BY SignalsAssumption, LenProperties DEF TypeOK
    <3> HIDE DEF n
    <3>2. is \subseteq DOMAIN Signals /\ is \in SUBSET Nat
      <4>1. is = {i \in signum .. n : Signals[i] \in raised}
        BY DEF n
      <4>2. QED
        BY <3>1, <4>1
    <3>3. Min(is) \in DOMAIN Signals
      BY <2>2, <3>2, Least
    <3>4. signum' = Min(is) /\ Then(IF Signals[Min(is)] = "USR2" THEN "drain" ELSE "signal")
      BY <2>2 DEF ServeSignal
    <3>5. QED
      BY <3>3, <3>4
  <2>3. QED
    BY <2>1, <2>2
<1>3. Goto(Main, s) /\ pc'[Main] = s /\ ndx' = 1
  BY <1>1, <1>2 DEF Then, Goto
<1>4. /\ InRun /\ InRun' /\ ~InCallback /\ ~InCallback' /\ ~Serves("vsig") /\ ~Serves("fds")'
      /\ (Serves("signal")' => s = "signal") /\ NextTimer' = 1 /\ First' = 1
  BY <1>1, <1>3 DEF InRun, InCallback, Serves, NextTimer, First
<1>5. UNCHANGED <<cb, key_map, vec, processing, deleted_vec, unregistered, owed, late>>
  BY <1>1 DEF objVars, mainVars, histVars
<1>6. MarkedInv'
  BY <1>1, <1>3, <1>5, MovesQuiet DEF Rest
<1>7. RunInv'
  BY <1>1, <1>2, <1>3, <1>4, <1>5 DEF Rest, RunInv, ToSet
<1>8. OwedInv'
  BY <1>1, <1>3, <1>4, <1>5, SignalsOwed DEF Rest
<1>9. QED
  BY <1>5, <1>6, <1>7, <1>8 DEF Rest, CalledWhileRegistered

\* The loop of a signal's callbacks, or of a virtual signal's, calls one or ends.
LEMMA LoopRest ==
  ASSUME TypeOK, FiledInv, Rest, UNCHANGED <<objVars, mainVars, arr, ready, signum>>,
         NEW s \in {"signal", "vsig"}, pc[Main] = s,
         \/ /\ \E id, i : /\ Calls(id, i, s) /\ i \in Nat /\ id \in key_map[Main]
                          /\ cb[id].type \in {"sig", "vsig"}
                          /\ cb[id].type = "vsig" \/ ~cb[id].deleted
            /\ hits' = hits
         \/ /\ Then(IF s = "signal" THEN "signals" ELSE "drain")
            /\ hits' = <<>>
  PROVE  Rest'
<1>1. Main \in Threads /\ DOMAIN pc = Threads /\ FdVec \in Vectors /\ TimerVec \in Vectors
  BY VectorNames DEF TypeOK
<1>2. UNCHANGED <<cb, key_map, vec, processing, deleted_vec>>
  BY DEF objVars, mainVars
<1>3. InRun /\ ~InCallback /\ (s = "signal" => signum \in DOMAIN Signals)
  BY DEF InRun, InCallback, Serves, Rest, RunInv
<1>4. CASE \E id, i : /\ Calls(id, i, s) /\ i \in Nat /\ id \in key_map[Main]
                      /\ cb[id].type \in {"sig", "vsig"}
                      /\ cb[id].type = "vsig" \/ ~cb[id].deleted
                      /\ hits' = hits
  <2>1. PICK id, i : /\ Calls(id, i, s) /\ i \in Nat /\ id \in key_map[Main]
                     /\ cb[id].type \in {"sig", "vsig"}
                     /\ cb[id].type = "vsig" \/ ~cb[id].deleted
    BY <1>4
  <2>2. /\ pc'[Main] = "callback" /\ Goto(Main, "callback")
        /\ ndx' = i /\ cur' = id /\ phase' = s /\ unregistered' = unregistered
    BY <1>1, <2>1 DEF Calls, Goto
  <2>3. id \notin owed
    <3>1. VecOf(cb[id]) # TimerVec /\ VecOf(cb[id]) # FdVec
      BY <2>1 DEF VecOf, TimerVec, FdVec
    <3>2. QED
      BY <3>1, OwedKinds DEF Rest
  <2>4. owed' = owed
    BY <2>1, <2>3 DEF Calls
  <2>5. /\ InRun' /\ InCallback' /\ ~Serves("fds")' /\ NextTimer' = 1 /\ First' = i + 1
        /\ (Serves("signal")' <=> s = "signal") /\ (Serves("vsig")' <=> s = "vsig")
        /\ Serves("vsig") <=> s = "vsig"
    BY <1>3, <2>2 DEF InRun, InCallback, Serves, NextTimer, First
  <2>6. MarkedInv'
    BY <1>1, <1>2, <2>2, MovesQuiet DEF Rest
  <2>7. RunInv'
    <3>1. hits' # <<>> => Serves("vsig")'
      BY <1>4, <2>5 DEF Rest, RunInv
    <3>2. \A k \in ToSet(hits') : k \in key_map'[Main] /\ cb'[k].type = "vsig"
      BY <1>2, <1>4 DEF Rest, RunInv
    <3>3. processing' /\ ToSet(arr') \subseteq ToSet(vec'[Main][FdVec])
      BY <1>2, <1>3 DEF Rest, RunInv
    <3>4. InCallback' => phase' # "none" /\ cur' \in key_map'[Main] /\ phase' # "timers"
      BY <1>2, <2>1, <2>2
    <3>5. Serves("signal")' => signum' \in DOMAIN Signals
      BY <1>3, <2>5
    <3>6. QED
      BY <2>2, <2>5, <3>1, <3>2, <3>3, <3>4, <3>5 DEF RunInv
  <2>8. OwedInv'
    BY <1>2, <2>1, <2>2, <2>4, <2>5, SignalsOwed DEF Rest
  <2>9. CalledWhileRegistered'
    <3>1. id \in unregistered => cb[id].type = "vsig"
      BY <2>1 DEF Rest, MarkedInv
    <3>2. QED
      BY <2>1, <3>1 DEF Rest, CalledWhileRegistered, Calls
  <2>10. QED
    BY <2>6, <2>7, <2>8, <2>9 DEF Rest
<1>5. CASE /\ Then(IF s = "signal" THEN "signals" ELSE "drain")
           /\ hits' = <<>>
  <2>1. PICK next \in {"signals", "drain"} : Then(next)
    BY <1>5
  <2>2. /\ pc'[Main] = next /\ Goto(Main, next) /\ ndx' = 1
        /\ UNCHANGED <<cur, phase, unregistered, late, owed>>
    BY <1>1, <2>1 DEF Then, Goto, histVars
  <2>3. /\ InRun' /\ ~InCallback' /\ ~Serves("fds")' /\ NextTimer' = 1 /\ First' = 1
        /\ ~Serves("signal")'
    BY <2>2 DEF InRun, InCallback, Serves, NextTimer, First
  <2>4. MarkedInv'
    BY <1>1, <1>2, <2>2, MovesQuiet DEF Rest
  <2>5. RunInv'
    <3>1. processing' /\ ToSet(arr') \subseteq ToSet(vec'[Main][FdVec])
      BY <1>2, <1>3 DEF Rest, RunInv
    <3>2. hits' = <<>> /\ ToSet(hits') = {}
      BY <1>5 DEF ToSet
    <3>3. InRun' /\ pc'[Main] # "poll"
      BY <2>2, <2>3
    <3>4. QED
      BY <2>3, <3>1, <3>2, <3>3 DEF RunInv
  <2>6. OwedInv'
    BY <1>2, <2>2, <2>3, SignalsOwed DEF Rest
  <2>7. QED
    BY <2>2, <2>4, <2>5, <2>6 DEF Rest, CalledWhileRegistered
<1>6. QED
  BY <1>4, <1>5

LEMMA CallSignalRest ==
  ASSUME TypeOK, FiledInv, Rest, CallSignal
  PROVE  Rest'
<1> DEFINE ids == vec[Main][SigVec(Signals[signum])]
           i == FirstOf(ids, Unmarked(ToSet(ids)))
<1>1. /\ pc[Main] = "signal" /\ UNCHANGED <<objVars, mainVars, arr, ready, signum, hits>>
      /\ (i = 0 /\ Then("signals")) \/ (i # 0 /\ Calls(ids[i], i, "signal"))
  BY DEF CallSignal
<1>2. signum \in DOMAIN Signals /\ hits = <<>>
  BY <1>1 DEF Rest, RunInv, Serves, InCallback
<1>3. SigVec(Signals[signum]) \in Vectors /\ Main \in Threads
  BY <1>2, SignalsAssumption, Elements, VectorNames
<1>4. ids \in Seq(DOMAIN cb)
  BY <1>3 DEF TypeOK
<1>5. CASE i = 0
  BY <1>1, <1>2, <1>5, LoopRest
<1>6. CASE i # 0
  <2>1. i \in DOMAIN ids /\ ids[i] \in Unmarked(ToSet(ids)) /\ i \in Nat
    <3>1. ndx \in Nat \ {0} /\ DOMAIN ids = 1 .. Len(ids)
      BY <1>4, Elements DEF TypeOK
    <3> DEFINE wanted == Unmarked(ToSet(ids))
    <3> HIDE DEF ids, wanted
    <3>2. i \in DOMAIN ids /\ ids[i] \in wanted
      BY <1>4, <1>6, <3>1, FirstOfIs DEF wanted
    <3> HIDE DEF i
    <3>3. i \in Nat
      BY <3>1, <3>2
    <3>4. QED
      BY <3>2, <3>3 DEF wanted
  <2>2. ids[i] \in ToSet(ids) /\ ~cb[ids[i]].deleted
    BY <2>1 DEF Unmarked, Skips
  <2>3. /\ ids[i] \in key_map[Main] /\ VecOf(cb[ids[i]]) = SigVec(Signals[signum])
    BY <1>3, <2>2 DEF FiledInv
  <2>4. cb[ids[i]].type = "sig"
    BY <2>3 DEF VecOf, SigVec
  <2>5. QED
    BY <1>1, <1>6, <2>1, <2>2, <2>3, <2>4, LoopRest
<1>7. QED
  BY <1>5, <1>6

LEMMA CallVSignalRest ==
  ASSUME TypeOK, FiledInv, Rest, CallVSignal
  PROVE  Rest'
<1>1. pc[Main] = "vsig" /\ UNCHANGED <<objVars, mainVars, arr, ready, signum>>
  BY DEF CallVSignal
<1>2. CASE ndx > Len(hits)
  BY <1>1, <1>2, LoopRest DEF CallVSignal
<1>3. CASE ~(ndx > Len(hits))
  <2>1. /\ hits \in Seq(DOMAIN cb) /\ ndx \in Nat \ {0}
    BY DEF TypeOK
  <2>2. ndx \in DOMAIN hits
    BY <1>3, <2>1, LenProperties
  <2>3. hits[ndx] \in ToSet(hits)
    BY <2>1, <2>2, Elements
  <2>4. hits[ndx] \in key_map[Main] /\ cb[hits[ndx]].type = "vsig"
    BY <2>3 DEF Rest, RunInv
  <2>5. Calls(hits[ndx], ndx, "vsig") /\ hits' = hits
    BY <1>3 DEF CallVSignal
  <2>6. QED
    BY <1>1, <2>1, <2>4, <2>5, LoopRest
<1>4. QED
  BY <1>2, <1>3

LEMMA DrainRest ==
  ASSUME TypeOK, FiledInv, Rest, Drain
  PROVE  Rest'
<1>1. /\ pc[Main] = "drain" /\ Main \in Threads /\ DOMAIN pc = Threads
      /\ UNCHANGED <<objVars, mainVars, arr, ready, signum>>
  BY VectorNames DEF Drain, TypeOK
<1>2. InRun /\ ~InCallback /\ ~Serves("vsig")
  BY <1>1 DEF InRun, InCallback, Serves
<1>3. hits = <<>>
  BY <1>2 DEF Rest, RunInv
<1>4. PICK s \in {"signals", "vsig"} :
        /\ Then(s) /\ (s = "signals" => hits' = <<>>)
        /\ \A id \in ToSet(hits') : id \in key_map[Main] /\ cb[id].type = "vsig"
  <2>1. CASE mq = <<>>
    <3>1. ToSet(<<>>) = {}
      BY DEF ToSet
    <3>2. Then("signals") /\ hits' = <<>>
      BY <1>3, <2>1 DEF Drain
    <3>3. QED
      BY <3>1, <3>2
  <2>2. CASE mq # <<>>
    <3>1. /\ hits' = vec[Main][VsigVec(Head(mq))]
          /\ Then(IF hits' = <<>> THEN "signals" ELSE "vsig")
      BY <2>2 DEF Drain
    <3>2. VsigVec(Head(mq)) \in Vectors
      <4>1. mq \in Seq(Vsigs)
        BY DEF TypeOK
      <4>2. Head(mq) \in Vsigs
        BY <2>2, <4>1, HeadTailProperties
      <4>3. QED
        BY <4>2, VectorNames
    <3>3. \A id \in ToSet(hits') : id \in key_map[Main] /\ VecOf(cb[id]) = VsigVec(Head(mq))
      BY <1>1, <3>1, <3>2 DEF FiledInv
    <3>4. \A id \in ToSet(hits') : cb[id].type = "vsig"
      BY <3>3 DEF VecOf, VsigVec
    <3>5. QED
      BY <3>1, <3>3, <3>4
  <2>3. QED
    BY <2>1, <2>2
<1>5. /\ pc'[Main] = s /\ Goto(Main, s) /\ ndx' = 1
      /\ UNCHANGED <<cur, phase, unregistered, late, owed>>
  BY <1>1, <1>4 DEF Then, Goto, histVars
<1>6. /\ InRun' /\ ~InCallback' /\ ~Serves("fds")' /\ NextTimer' = 1 /\ First' = 1
      /\ ~Serves("signal")' /\ (Serves("vsig")' <=> s = "vsig")
  BY <1>5 DEF InRun, InCallback, Serves, NextTimer, First
<1>7. UNCHANGED <<cb, key_map, vec, processing, deleted_vec>>
  BY <1>1 DEF objVars, mainVars
<1>8. MarkedInv'
  BY <1>1, <1>5, <1>7, MovesQuiet DEF Rest
<1>9. RunInv'
  <2>1. processing' /\ ToSet(arr') \subseteq ToSet(vec'[Main][FdVec])
    BY <1>1, <1>2, <1>7 DEF Rest, RunInv
  <2>2. \A id \in ToSet(hits') : id \in key_map'[Main] /\ cb'[id].type = "vsig"
    BY <1>4, <1>7
  <2>3. InRun' /\ pc'[Main] # "poll"
    BY <1>5, <1>6
  <2>4. hits' # <<>> => Serves("vsig")'
    BY <1>4, <1>6
  <2>5. QED
    BY <1>6, <2>1, <2>2, <2>3, <2>4 DEF RunInv
<1>10. OwedInv'
  BY <1>1, <1>5, <1>6, SignalsOwed DEF Rest
<1>11. QED
  BY <1>5, <1>8, <1>9, <1>10 DEF Rest, CalledWhileRegistered

---------------------------------------------------------------------------
(* The round: the timers and the file descriptors.                         *)

LEMMA CallTimerRest ==
  ASSUME TypeOK, FiledInv, Rest, CallTimer
  PROVE  Rest'
<1> DEFINE ids == vec[Main][TimerVec]
           i == FirstOf(ids, Unmarked(ToSet(ids)))
<1>1. /\ pc[Main] = "timers" /\ Main \in Threads /\ DOMAIN pc = Threads
      /\ UNCHANGED <<key_map, vec, processing, deleted_vec, time_ms, arr, ready, hits, signum>>
      /\ TimerVec \in Vectors /\ FdVec \in Vectors
  BY VectorNames DEF CallTimer, TypeOK, mainVars
<1>2. /\ InRun /\ ~InCallback /\ First = ndx /\ NextTimer = ndx /\ ~FdsServed
      /\ ~Serves("vsig")
  BY <1>1 DEF InRun, InCallback, Serves, First, NextTimer, FdsServed
<1>3. /\ ids \in Seq(DOMAIN cb) /\ DOMAIN ids = 1 .. Len(ids) /\ Len(ids) \in Nat
      /\ ToSet(ids) \subseteq key_map[Main] /\ ToSet(ids) \subseteq DOMAIN cb
      /\ \A k \in DOMAIN ids : ids[k] \in ToSet(ids)
      /\ ndx \in Nat \ {0} /\ IsInjective(ids)
  BY <1>1, Objects, Elements DEF TypeOK, FiledInv
<1>4. \A k \in DOMAIN ids : ids[k] \in Unmarked(ToSet(ids)) <=> ~cb[ids[k]].deleted
  BY <1>3 DEF Unmarked, Skips
<1>5. /\ hits = <<>> /\ processing /\ ToSet(arr) \subseteq ToSet(vec[Main][FdVec])
  BY <1>2 DEF Rest, RunInv
<1>6. TimersInOrder
  BY <1>2 DEF Rest, OwedInv
<1>7. \/ i = 0 /\ \A k \in DOMAIN ids : ndx <= k => cb[ids[k]].deleted
      \/ /\ i \in DOMAIN ids /\ ndx <= i /\ ~cb[ids[i]].deleted
         /\ \A k \in DOMAIN ids : ndx <= k /\ k < i => cb[ids[k]].deleted
  BY <1>3, <1>4, FirstOfIs
<1>8. \/ (i = 0 \/ (i # 0 /\ ~IsDue(ids[i]))) /\ Then("fds") /\ UNCHANGED cb
      \/ /\ i # 0 /\ IsDue(ids[i]) /\ Calls(ids[i], i, "timers")
         /\ cb' = [cb EXCEPT ![ids[i]].due = @ + cb[ids[i]].interval]
  BY DEF CallTimer
<1>9. \A k \in DOMAIN ids : ids[k] \in owed => ndx <= k /\ ~cb[ids[k]].deleted
  BY <1>2, <1>6 DEF TimersInOrder, Rest, OwedInv
<1>10. CASE i # 0 /\ Calls(ids[i], i, "timers")
  <2> DEFINE id == ids[i]
  <2>1. /\ i \in DOMAIN ids /\ i \in Nat /\ ndx <= i /\ ~cb[id].deleted
        /\ \A k \in DOMAIN ids : ndx <= k /\ k < i => cb[ids[k]].deleted
        /\ id \in key_map[Main] /\ id \in DOMAIN cb
    BY <1>3, <1>7, <1>10
  <2>2. /\ pc'[Main] = "callback" /\ Goto(Main, "callback") /\ ndx' = i /\ cur' = id
        /\ phase' = "timers" /\ unregistered' = unregistered /\ owed' = owed \ {id}
        /\ late' = IF id \in unregistered THEN late \cup {cb[id].type} ELSE late
    BY <1>1, <1>10 DEF Calls, Goto
  <2>3. /\ InRun' /\ InCallback' /\ First' = i + 1 /\ NextTimer' = i + 1 /\ ~FdsServed'
        /\ ~Serves("fds")' /\ ~Serves("signal")'
    BY <2>2 DEF InRun, InCallback, First, NextTimer, FdsServed, Serves
  <2>4. \A k \in DOMAIN cb : /\ cb'[k].deleted = cb[k].deleted /\ cb'[k].type = cb[k].type
                             /\ cb'[k].of = cb[k].of
                             /\ k # id => cb'[k] = cb[k]
    <3>1. CASE UNCHANGED cb
      BY <3>1
    <3>2. CASE cb' = [cb EXCEPT ![id].due = @ + cb[id].interval]
      <4>1. \A k \in DOMAIN cb : k # id => cb'[k] = cb[k]
        BY <3>2
      <4>2. cb'[id] = [cb[id] EXCEPT !.due = @ + cb[id].interval] /\ cb[id] \in Callbacks
        BY <2>1, <3>2, Objects
      <4>3. cb'[id].deleted = cb[id].deleted /\ cb'[id].type = cb[id].type
            /\ cb'[id].of = cb[id].of
        BY <4>2 DEF Callbacks
      <4>4. QED
        BY <4>1, <4>3
    <3>3. QED
      BY <1>8, <3>1, <3>2
  <2>5. MarkedInv'
    <3>1. key_map[Main] \subseteq DOMAIN cb
      BY <1>1, Objects
    <3>2. \A k \in key_map[Main] : /\ cb'[k].deleted = cb[k].deleted
                                  /\ cb'[k].type = cb[k].type /\ cb'[k].of = cb[k].of
      BY <2>4, <3>1
    <3>3. QED
      BY <1>1, <2>2, <3>2, MovesQuiet DEF Rest
  <2>6. RunInv'
    <3>1. ToSet(hits') = {} /\ hits' = <<>>
      BY <1>1, <1>5 DEF ToSet
    <3>2. processing' /\ ToSet(arr') \subseteq ToSet(vec'[Main][FdVec])
      BY <1>1, <1>5
    <3>3. cur' \in key_map'[Main] /\ ndx' \in DOMAIN vec'[Main][TimerVec]
          /\ cur' = vec'[Main][TimerVec][ndx']
      BY <1>1, <2>1, <2>2
    <3>4. QED
      BY <2>2, <2>3, <3>1, <3>2, <3>3 DEF RunInv
  <2>7. \A k \in DOMAIN ids : ids[k] \in owed' => ids[k] \in owed /\ k # i
                                                     /\ cb'[ids[k]] = cb[ids[k]]
    <3>1. SUFFICES ASSUME NEW k \in DOMAIN ids, ids[k] \in owed'
                   PROVE  ids[k] \in owed /\ k # i /\ cb'[ids[k]] = cb[ids[k]]
      OBVIOUS
    <3>2. ids[k] \in owed /\ ids[k] # id
      BY <2>2, <3>1
    <3>3. ids[k] \in DOMAIN cb
      BY <1>3
    <3>4. cb'[ids[k]] = cb[ids[k]]
      BY <2>4, <3>2, <3>3
    <3>5. QED
      BY <3>2, <3>4
  <2>8. \A k \in DOMAIN ids : ids[k] \in owed /\ k # i => ids[k] \in owed'
    BY <1>3, <2>1, <2>2 DEF IsInjective
  <2>9. TimersInOrder'
    <3>1. ASSUME NEW j \in DOMAIN ids, NEW k \in DOMAIN ids, j < k, ids[j] \in owed',
                 ids[k] \in owed'
          PROVE  cb'[ids[j]].due <= cb'[ids[k]].due
      BY <1>6, <2>7, <3>1 DEF TimersInOrder
    <3>2. ASSUME NEW j \in DOMAIN ids, NEW k \in DOMAIN ids, j < k, i + 1 <= j,
                 ids[j] \notin owed', ~cb'[ids[j]].deleted
          PROVE  ids[k] \notin owed'
      <4>1. j # i /\ ndx <= j
        BY <1>3, <2>1, <3>2
      <4>2. ids[j] \notin owed /\ ~cb[ids[j]].deleted
        BY <1>3, <2>4, <2>8, <3>2, <4>1
      <4>3. ids[k] \notin owed
        BY <1>2, <1>6, <3>2, <4>1, <4>2 DEF TimersInOrder
      <4>4. QED
        BY <2>7, <4>3
    <3>3. ASSUME NEW j \in DOMAIN ids, ids[j] \in owed' PROVE i + 1 <= j
      <4>1. ndx <= j /\ ~cb[ids[j]].deleted /\ j # i
        BY <1>9, <2>7, <3>3
      <4>2. ~(j < i)
        BY <2>1, <4>1
      <4>3. QED
        BY <1>3, <2>1, <4>1, <4>2
    <3>4. ids' = ids
      BY <1>1
    <3>5. QED
      BY <2>3, <3>1, <3>2, <3>3, <3>4 DEF TimersInOrder
  <2>10. OwedInv'
    <3>1. \A k \in owed' : k \in key_map'[Main] /\ ~cb'[k].deleted
      <4>1. \A k \in owed : k \in key_map[Main] /\ k \in DOMAIN cb /\ ~cb[k].deleted
        BY OwedKinds DEF Rest, OwedInv
      <4>2. QED
        BY <1>1, <2>2, <2>4, <4>1
    <3>2. owed' \subseteq ToSet(vec'[Main][TimerVec]) \cup ready'
      BY <1>1, <2>2 DEF Rest, OwedInv
    <3>3. QED
      BY <2>2, <2>3, <2>9, <3>1, <3>2 DEF OwedInv
  <2>11. id \notin unregistered
    BY <2>1 DEF Rest, MarkedInv
  <2>12. QED
    BY <2>2, <2>5, <2>6, <2>10, <2>11 DEF Rest, CalledWhileRegistered
<1>11. CASE (i = 0 \/ (i # 0 /\ ~IsDue(ids[i]))) /\ Then("fds") /\ UNCHANGED cb
  <2>1. /\ pc'[Main] = "fds" /\ Goto(Main, "fds") /\ ndx' = 1 /\ UNCHANGED cb
        /\ UNCHANGED <<cur, phase, unregistered, late, owed>>
    BY <1>1, <1>11 DEF Then, Goto, histVars
  <2>2. /\ InRun' /\ ~InCallback' /\ First' = 1 /\ FdsServed' /\ ~Serves("signal")'
    BY <2>1 DEF InRun, InCallback, First, FdsServed, Serves
  <2>3. MarkedInv'
    BY <1>1, <2>1, MovesQuiet DEF Rest
  <2>4. RunInv'
    <3>1. ToSet(hits') = {} /\ hits' = <<>>
      BY <1>1, <1>5 DEF ToSet
    <3>2. processing' /\ ToSet(arr') \subseteq ToSet(vec'[Main][FdVec])
      BY <1>1, <1>5
    <3>3. QED
      BY <2>1, <2>2, <3>1, <3>2 DEF RunInv
  <2>5. ASSUME NEW k \in DOMAIN ids, ids[k] \in owed PROVE ~IsDue(ids[k])
    <3>1. ndx <= k /\ ~cb[ids[k]].deleted
      BY <1>9, <2>5
    <3>2. /\ i \in DOMAIN ids /\ ndx <= i /\ ~cb[ids[i]].deleted /\ ~(k < i)
          /\ ~IsDue(ids[i])
      BY <1>3, <1>7, <1>11, <3>1
    <3>3. CASE k = i
      BY <3>2, <3>3
    <3>4. CASE k # i
      <4>1. i < k
        BY <1>3, <3>2, <3>4
      <4>2. ids[i] \in owed
        BY <1>2, <1>6, <2>5, <3>2, <4>1 DEF TimersInOrder
      <4>3. cb[ids[i]].due <= cb[ids[k]].due
        BY <1>6, <2>5, <3>2, <4>1, <4>2 DEF TimersInOrder
      <4>4. cb[ids[i]].due \in Int /\ cb[ids[k]].due \in Int /\ time_ms \in Int
        <5>1. cb[ids[i]] \in Callbacks /\ cb[ids[k]] \in Callbacks
          BY <1>3, <3>2, Objects
        <5>2. time_ms \in Int
          BY BoundsAssumption DEF TypeOK
        <5>3. QED
          BY <5>1, <5>2 DEF Callbacks
      <4>5. QED
        BY <3>2, <4>3, <4>4 DEF IsDue
    <3>5. QED
      BY <3>3, <3>4
  <2>6. \A id \in owed' \cap ToSet(vec'[Main][TimerVec]) : ~IsDue(id)'
    <3>1. \A id \in owed \cap ToSet(ids) : ~IsDue(id)
      BY <2>5 DEF ToSet
    <3>2. QED
      BY <1>1, <2>1, <3>1 DEF IsDue
  <2>7. \A k \in DOMAIN arr' : 1 <= k
    <3>1. arr \in Seq(DOMAIN cb)
      BY DEF TypeOK
    <3>2. QED
      BY <1>1, <3>1, Elements
  <2>8. OwedInv'
    <3>1. \A k \in owed' : k \in key_map'[Main] /\ ~cb'[k].deleted
      BY <1>1, <2>1 DEF Rest, OwedInv
    <3>2. owed' \subseteq ToSet(vec'[Main][TimerVec]) \cup ready'
      BY <1>1, <2>1 DEF Rest, OwedInv
    <3>3. QED
      BY <2>1, <2>2, <2>6, <2>7, <3>1, <3>2 DEF OwedInv
  <2>9. QED
    BY <2>1, <2>3, <2>4, <2>8 DEF Rest, CalledWhileRegistered
<1>12. QED
  BY <1>8, <1>10, <1>11

LEMMA CallFdRest ==
  ASSUME TypeOK, FiledInv, Rest, CallFd
  PROVE  Rest'
<1> DEFINE i == FirstOf(arr, Unmarked(ready))
           tv == vec[Main][TimerVec]
<1>1. /\ pc[Main] = "fds" /\ Main \in Threads /\ DOMAIN pc = Threads
      /\ UNCHANGED <<key_map, vec, processing, deleted_vec, time_ms, arr, ready, hits, signum>>
      /\ TimerVec \in Vectors /\ FdVec \in Vectors /\ key_map[Main] \subseteq DOMAIN cb
  BY VectorNames, Objects DEF CallFd, TypeOK, mainVars
<1>2. /\ InRun /\ ~InCallback /\ First = ndx /\ FdsServed /\ Serves("fds") /\ ~Serves("vsig")
  BY <1>1 DEF InRun, InCallback, Serves, First, FdsServed
<1>3. /\ hits = <<>> /\ processing /\ ToSet(arr) \subseteq ToSet(vec[Main][FdVec])
      /\ ready \subseteq ToSet(arr) /\ arr \in Seq(DOMAIN cb) /\ ndx \in Nat \ {0}
      /\ ToSet(arr) \subseteq key_map[Main] /\ \A k \in DOMAIN arr : arr[k] \in ToSet(arr)
      /\ DOMAIN arr = 1 .. Len(arr) /\ Len(arr) \in Nat
  <2>1. arr \in Seq(DOMAIN cb)
    BY DEF TypeOK
  <2>2. \A k \in DOMAIN arr : arr[k] \in ToSet(arr)
    BY <2>1, Elements
  <2>3. hits = <<>> /\ processing /\ ToSet(arr) \subseteq ToSet(vec[Main][FdVec])
    BY <1>2 DEF Rest, RunInv
  <2>4. ToSet(arr) \subseteq key_map[Main]
    BY <1>1, <2>3 DEF FiledInv
  <2>5. DOMAIN arr = 1 .. Len(arr) /\ Len(arr) \in Nat
    BY <2>1, Elements
  <2>6. QED
    BY <2>1, <2>2, <2>3, <2>4, <2>5 DEF TypeOK
<1>4. \A id \in ready : id \in Unmarked(ready) <=> ~cb[id].deleted
  BY DEF Unmarked, Skips
<1>5. \/ i = 0 /\ \A k \in DOMAIN arr : ndx <= k => arr[k] \notin Unmarked(ready)
      \/ /\ i \in DOMAIN arr /\ ndx <= i /\ arr[i] \in Unmarked(ready)
         /\ \A k \in DOMAIN arr : ndx <= k /\ k < i => arr[k] \notin Unmarked(ready)
  BY <1>3, FirstOfIs
<1>6. \/ i = 0 /\ Then("purge") /\ UNCHANGED cb
      \/ i # 0 /\ Calls(arr[i], i, "fds") /\ cb' = [cb EXCEPT ![arr[i]].last = now]
  BY DEF CallFd
<1> HIDE DEF i
\* Who is owed and in arr is ready, and still to come.
<1>7. ASSUME NEW k \in DOMAIN arr, arr[k] \in owed
      PROVE  ndx <= k /\ arr[k] \in Unmarked(ready)
  <2>1. ndx <= k /\ ~cb[arr[k]].deleted
    BY <1>2, <1>7 DEF Rest, OwedInv
  <2>2. VecOf(cb[arr[k]]) = FdVec
    BY <1>1, <1>3 DEF FiledInv
  <2>3. arr[k] \in ready
    BY <1>1, <1>7, <2>2, OwedKinds, VectorNames DEF Rest
  <2>4. QED
    BY <1>4, <2>1, <2>3
<1>8. CASE i # 0 /\ Calls(arr[i], i, "fds") /\ cb' = [cb EXCEPT ![arr[i]].last = now]
  <2> DEFINE id == arr[i]
  <2>1. /\ i \in DOMAIN arr /\ i \in Nat /\ ndx <= i /\ id \in ready /\ ~cb[id].deleted
        /\ \A k \in DOMAIN arr : ndx <= k /\ k < i => arr[k] \notin Unmarked(ready)
        /\ id \in key_map[Main] /\ id \in DOMAIN cb
    <3>1. i \in DOMAIN arr /\ arr[i] \in Unmarked(ready) /\ i \in Nat
      BY <1>3, <1>5, <1>8
    <3>2. arr[i] \in ready
      BY <3>1 DEF Unmarked
    <3>3. QED
      BY <1>1, <1>3, <1>4, <1>5, <1>8, <3>1, <3>2
  <2>2. /\ pc'[Main] = "callback" /\ Goto(Main, "callback") /\ ndx' = i /\ cur' = id
        /\ phase' = "fds" /\ unregistered' = unregistered /\ owed' = owed \ {id}
        /\ late' = IF id \in unregistered THEN late \cup {cb[id].type} ELSE late
    BY <1>1, <1>8 DEF Calls, Goto
  <2>3. /\ InRun' /\ InCallback' /\ First' = i + 1 /\ FdsServed'
        /\ Serves("fds")' /\ ~Serves("signal")'
    BY <2>2 DEF InRun, InCallback, First, FdsServed, Serves
  <2>4. \A k \in DOMAIN cb : /\ cb'[k].deleted = cb[k].deleted /\ cb'[k].type = cb[k].type
                             /\ cb'[k].of = cb[k].of /\ cb'[k].due = cb[k].due
    <3>1. \A k \in DOMAIN cb : k # id => cb'[k] = cb[k]
      BY <1>8
    <3>2. cb'[id] = [cb[id] EXCEPT !.last = now] /\ cb[id] \in Callbacks
      BY <1>8, <2>1, Objects
    <3>3. /\ cb'[id].deleted = cb[id].deleted /\ cb'[id].type = cb[id].type
          /\ cb'[id].of = cb[id].of /\ cb'[id].due = cb[id].due
      BY <3>2 DEF Callbacks
    <3>4. QED
      BY <3>1, <3>3
  <2>5. MarkedInv'
    <3>1. \A k \in key_map[Main] : /\ cb'[k].deleted = cb[k].deleted
                                   /\ cb'[k].type = cb[k].type /\ cb'[k].of = cb[k].of
      BY <1>1, <2>4
    <3>2. QED
      BY <1>1, <2>2, <3>1, MovesQuiet DEF Rest
  <2>6. RunInv'
    <3>1. ToSet(hits') = {} /\ hits' = <<>>
      BY <1>1, <1>3 DEF ToSet
    <3>2. processing' /\ ToSet(arr') \subseteq ToSet(vec'[Main][FdVec])
      BY <1>1, <1>3
    <3>3. cur' \in key_map'[Main]
      BY <1>1, <2>1, <2>2
    <3>4. QED
      BY <2>2, <2>3, <3>1, <3>2, <3>3 DEF RunInv
  <2>7. \A k \in owed' : k \in key_map'[Main] /\ ~cb'[k].deleted
    <3>1. \A k \in owed : k \in key_map[Main] /\ k \in DOMAIN cb /\ ~cb[k].deleted
      BY OwedKinds DEF Rest, OwedInv
    <3>2. QED
      BY <1>1, <2>2, <2>4, <3>1
  <2>8. owed' \subseteq ToSet(vec'[Main][TimerVec]) \cup ready'
    BY <1>1, <2>2 DEF Rest, OwedInv
  <2>9. \A k \in owed' \cap ToSet(vec'[Main][TimerVec]) : ~IsDue(k)'
    <3>1. \A k \in owed \cap ToSet(vec[Main][TimerVec]) : ~IsDue(k) /\ k \in DOMAIN cb
      BY <1>2, OwedKinds DEF Rest, OwedInv
    <3>2. QED
      BY <1>1, <2>2, <2>4, <3>1 DEF IsDue
  <2>10. \A k \in DOMAIN arr' : arr'[k] \in owed' => First' <= k
    <3>1. SUFFICES ASSUME NEW k \in DOMAIN arr, arr[k] \in owed' PROVE i + 1 <= k
      BY <1>1, <2>3
    <3>2. arr[k] \in owed /\ arr[k] # id
      BY <2>2, <3>1
    <3>3. ndx <= k /\ arr[k] \in Unmarked(ready)
      BY <1>7, <3>2
    <3>4. ~(k < i) /\ k # i
      BY <2>1, <3>2, <3>3
    <3>5. QED
      BY <1>3, <2>1, <3>4
  <2>11. OwedInv'
    BY <2>2, <2>3, <2>7, <2>8, <2>9, <2>10 DEF OwedInv
  <2>12. id \notin unregistered
    BY <2>1 DEF Rest, MarkedInv
  <2>13. QED
    BY <2>2, <2>5, <2>6, <2>11, <2>12 DEF Rest, CalledWhileRegistered
<1>9. CASE i = 0 /\ Then("purge") /\ UNCHANGED cb
  <2>1. /\ pc'[Main] = "purge" /\ Goto(Main, "purge") /\ ndx' = 1 /\ UNCHANGED cb
        /\ UNCHANGED <<cur, phase, unregistered, late, owed>>
    BY <1>1, <1>9 DEF Then, Goto, histVars
  <2>2. ~InRun' /\ ~InCallback' /\ FdsServed' /\ \A s \in {"signal", "fds", "vsig"} : ~Serves(s)'
    BY <2>1 DEF InRun, InCallback, FdsServed, Serves
  <2>3. MarkedInv'
    BY <1>1, <2>1, MovesQuiet DEF Rest
  <2>4. RunInv'
    <3>1. ToSet(hits') = {} /\ hits' = <<>>
      BY <1>1, <1>3 DEF ToSet
    <3>2. QED
      BY <2>1, <2>2, <3>1 DEF RunInv
  <2>5. owed \cap ready = {}
    <3>1. SUFFICES ASSUME NEW id \in owed, id \in ready PROVE FALSE
      OBVIOUS
    <3>2. PICK k \in DOMAIN arr : arr[k] = id
      BY <1>3, <3>1 DEF ToSet
    <3>3. QED
      BY <1>3, <1>5, <1>7, <1>9, <3>1, <3>2
  <2>6. OwedInv'
    <3>1. \A k \in owed' : k \in key_map'[Main] /\ ~cb'[k].deleted
      BY <1>1, <2>1 DEF Rest, OwedInv
    <3>2. owed' \subseteq ToSet(vec'[Main][TimerVec]) \cup ready'
      BY <1>1, <2>1 DEF Rest, OwedInv
    <3>3. \A k \in owed' \cap ToSet(vec'[Main][TimerVec]) : ~IsDue(k)'
      BY <1>1, <1>2, <2>1 DEF Rest, OwedInv, IsDue
    <3>4. owed' \cap ready' = {}
      BY <1>1, <2>1, <2>5
    <3>5. QED
      BY <2>1, <2>2, <3>1, <3>2, <3>3, <3>4 DEF OwedInv
  <2>7. QED
    BY <2>1, <2>3, <2>4, <2>6 DEF Rest, CalledWhileRegistered
<1>10. QED
  BY <1>6, <1>8, <1>9

---------------------------------------------------------------------------
(* A callback unregisters, and returns.                                    *)

LEMMA MarkFacts ==
  ASSUME TypeOK, NEW id \in DOMAIN cb, Mark(id)
  PROVE  /\ UNCHANGED <<key_map, vec, caught>> /\ DOMAIN cb' = DOMAIN cb /\ cb'[id].deleted
         /\ deleted_vec' \in Seq(DOMAIN cb)
         /\ \A k \in DOMAIN cb :
              /\ cb'[k].due = cb[k].due /\ cb'[k].type = cb[k].type /\ cb'[k].of = cb[k].of
              /\ cb[k].deleted => cb'[k].deleted
              /\ k # id => cb'[k] = cb[k]
<1>1. \A k \in DOMAIN cb : cb[k] \in Callbacks
  BY Objects
<1>2. deleted_vec \in Seq(DOMAIN cb)
  BY DEF TypeOK
<1>3. CASE Marks(id)
  <2>1. /\ cb' = [cb EXCEPT ![id] = [cb[id] EXCEPT !.deleted = TRUE]]
        /\ UNCHANGED <<key_map, vec, caught>> /\ deleted_vec' = Append(deleted_vec, id)
    BY <1>3 DEF Mark
  <2>2. /\ DOMAIN cb' = DOMAIN cb /\ cb'[id] = [cb[id] EXCEPT !.deleted = TRUE]
        /\ \A k \in DOMAIN cb : k # id => cb'[k] = cb[k]
    BY <2>1
  <2>3. /\ cb'[id].due = cb[id].due /\ cb'[id].type = cb[id].type /\ cb'[id].of = cb[id].of
        /\ cb'[id].deleted
    BY <1>1, <2>2 DEF Callbacks
  <2>4. deleted_vec' \in Seq(DOMAIN cb)
    BY <1>2, <2>1, Appended
  <2>5. QED
    BY <2>1, <2>2, <2>3, <2>4
<1>4. CASE ~Marks(id)
  <2>1. UNCHANGED <<cb, key_map, vec, caught, deleted_vec>> /\ cb[id].deleted
    BY <1>1, <1>4 DEF Mark, Marks, objVars, Callbacks
  <2>2. QED
    BY <1>2, <2>1
<1>5. QED
  BY <1>3, <1>4

\* What holds in a callback is no other after one was marked, or nothing was done.
LEMMA InCallbackRest ==
  ASSUME TypeOK, FiledInv, Rest, InCallback, InCallback', MarkedInv', UNCHANGED runVars,
         processing' = processing, late' = late,
         \/ UNCHANGED objVars /\ owed' = owed
         \/ \E id \in DOMAIN cb : Mark(id) /\ owed' = owed \ {id}
  PROVE  Rest'
<1>1. UNCHANGED <<time_ms, arr, ready, hits, ndx, signum, cur, phase>>
  BY DEF runVars
<1>2. /\ InRun /\ InRun' /\ First' = First /\ NextTimer' = NextTimer
      /\ \A s \in {"signal", "vsig", "fds", "timers"} :
           (Serves(s)' <=> phase = s) /\ (Serves(s) <=> phase = s)
      /\ pc[Main] \notin {"poll", "purge"} /\ pc'[Main] \notin {"poll", "purge"}
  BY <1>1 DEF InRun, InCallback, First, NextTimer, Serves
<1>3. /\ UNCHANGED <<key_map, vec>>
      /\ \A k \in DOMAIN cb : /\ cb'[k].due = cb[k].due /\ cb'[k].type = cb[k].type
                              /\ cb[k].deleted => cb'[k].deleted
  BY MarkFacts DEF objVars
<1>4. /\ owed' \subseteq owed
      /\ \A k \in owed : k \in DOMAIN cb
      /\ \A k \in owed' : ~cb'[k].deleted
      /\ \A k \in owed : k \in owed' \/ cb'[k].deleted
  <2>1. \A k \in owed : k \in DOMAIN cb /\ ~cb[k].deleted
    BY OwedKinds DEF Rest, OwedInv
  <2>2. CASE UNCHANGED objVars /\ owed' = owed
    BY <2>1, <2>2 DEF objVars
  <2>3. ASSUME NEW id \in DOMAIN cb, Mark(id), owed' = owed \ {id}
        PROVE  /\ owed' \subseteq owed /\ \A k \in owed' : ~cb'[k].deleted
               /\ \A k \in owed : k \in owed' \/ cb'[k].deleted
    BY <2>1, <2>3, MarkFacts
  <2>4. QED
    BY <2>1, <2>2, <2>3
<1>5. RunInv'
  <2>1. Main \in Threads /\ key_map[Main] \subseteq DOMAIN cb
    BY Objects, VectorNames
  <2>2. processing' /\ ToSet(arr') \subseteq ToSet(vec'[Main][FdVec])
    BY <1>1, <1>2, <1>3 DEF Rest, RunInv
  <2>3. hits' # <<>> => Serves("vsig")'
    BY <1>1, <1>2 DEF Rest, RunInv
  <2>4. \A k \in ToSet(hits') : k \in key_map'[Main] /\ cb'[k].type = "vsig"
    BY <1>1, <1>3, <2>1 DEF Rest, RunInv
  <2>5. phase' # "none" /\ cur' \in key_map'[Main]
    BY <1>1, <1>3 DEF Rest, RunInv
  <2>6. phase' = "timers" =>
          ndx' \in DOMAIN vec'[Main][TimerVec] /\ cur' = vec'[Main][TimerVec][ndx']
    BY <1>1, <1>3 DEF Rest, RunInv
  <2>7. Serves("signal")' => signum' \in DOMAIN Signals
    BY <1>1, <1>2 DEF Rest, RunInv
  <2>8. QED
    BY <1>2, <2>2, <2>3, <2>4, <2>5, <2>6, <2>7 DEF RunInv
<1>6. OwedInv'
  <2> DEFINE tv == vec[Main][TimerVec]
             tw == vec'[Main][TimerVec]
  <2>1. \A id \in owed' : id \in owed /\ id \in key_map'[Main] /\ ~cb'[id].deleted
    BY <1>3, <1>4 DEF Rest, OwedInv
  <2>2. \A id \in ToSet(tv) : cb'[id].due = cb[id].due /\ (cb[id].deleted => cb'[id].deleted)
    BY <1>3, Objects, VectorNames
  <2>3. tw = tv
    BY <1>3
  <2>4. First \in Nat /\ First' \in Nat /\ NextTimer \in Nat
    BY <1>2 DEF First, NextTimer, TypeOK
  <2>5. Serves("fds")' <=> Serves("fds")
    BY <1>2
  <2> HIDE DEF tv, tw
  <2>6. QED
    BY <1>1, <1>2, <1>4, <2>1, <2>2, <2>3, <2>4, <2>5, OwedStays DEF Rest, tv, tw
<1>7. QED
  BY <1>5, <1>6 DEF Rest, CalledWhileRegistered

LEMMA CallbackRest ==
  ASSUME TypeOK, KeyInv, FiledInv, Rest, Callback
  PROVE  Rest'
<1>1. /\ pc[Main] = "callback" /\ DOMAIN pc = Threads /\ Main \in Threads /\ InCallback
      /\ InRun
  BY VectorNames DEF Callback, TypeOK, InCallback, InRun
<1>2. processing
  BY <1>1 DEF Rest, RunInv
<1>3. CASE \E s : Register(Main, s, "return")
  <2>1. PICK s : Register(Main, s, "return")
    BY <1>3
  <2>2. /\ pc'[Main] = "store" /\ then'[Main] = "return" /\ Goto(Main, "store")
        /\ UNCHANGED <<objVars, mainVars, runVars, histVars>>
    BY <1>1, <2>1 DEF Register, Goto, TypeOK
  <2>3. UNCHANGED <<cb, key_map, processing, deleted_vec, unregistered, late, owed>>
    BY <2>2 DEF objVars, mainVars, histVars
  <2>4. MarkedInv'
    BY <1>1, <2>2, <2>3, MovesQuiet DEF Rest
  <2>5. InCallback'
    BY <2>2 DEF InCallback
  <2>6. QED
    BY <1>1, <2>2, <2>3, <2>4, <2>5, InCallbackRest
<1>4. CASE UnregisterKey("return")
  <2>1. MarkedInv'
    BY <1>1, <1>4, UnregisterMarked DEF Rest
  <2>2. InCallback' /\ UNCHANGED runVars
    BY <1>1, <1>4 DEF UnregisterKey, Goto, InCallback
  <2>3. CASE UNCHANGED <<objVars, mainVars, histVars>>
    <3>1. processing' = processing /\ late' = late /\ owed' = owed
      BY <2>3 DEF mainVars, histVars
    <3>2. QED
      BY <1>1, <2>1, <2>2, <2>3, <3>1, InCallbackRest
  <2>4. ASSUME NEW id \in key_map[Main], Unregister(id), UNCHANGED <<processing, late>>
        PROVE  Rest'
    <3>1. id \in DOMAIN cb
      BY Objects, VectorNames
    <3>2. Mark(id) /\ owed' = owed \ {id}
      BY <1>2, <2>4 DEF Unregister
    <3>3. QED
      BY <1>1, <2>1, <2>2, <2>4, <3>1, <3>2, InCallbackRest
  <2>5. QED
    BY <1>4, <2>3, <2>4, Unregisters DEF Rest
<1>5. CASE /\ Goto(Main, "return")
           /\ UNCHANGED <<regVars, objVars, spawnVars, mainVars, runVars, histVars>>
  <2>1. UNCHANGED <<cb, key_map, processing, deleted_vec, unregistered, late, owed>>
    BY <1>5 DEF objVars, mainVars, histVars
  <2>2. MarkedInv'
    BY <1>1, <1>5, <2>1, MovesQuiet DEF Rest
  <2>3. InCallback'
    BY <1>1, <1>5 DEF InCallback, Goto
  <2>4. QED
    BY <1>1, <1>5, <2>1, <2>2, <2>3, InCallbackRest
<1>6. QED
  BY <1>3, <1>4, <1>5 DEF Callback

LEMMA ReturnRest ==
  ASSUME TypeOK, FiledInv, Rest, Return
  PROVE  Rest'
<1> DEFINE single == phase = "timers" /\ cb[cur].interval = 0
           tv == vec[Main][TimerVec]
           tw == vec'[Main][TimerVec]
<1>1. /\ pc[Main] = "return" /\ DOMAIN pc = Threads /\ Main \in Threads /\ InCallback
      /\ InRun /\ processing' = processing /\ late' = late
      /\ TimerVec \in Vectors /\ FdVec \in Vectors /\ key_map[Main] \subseteq DOMAIN cb
  BY VectorNames, Objects DEF Return, TypeOK, InCallback, InRun
<1>2. /\ processing /\ phase \in {"signal", "vsig", "timers", "fds"} /\ cur \in key_map[Main]
      /\ cur \in DOMAIN cb /\ ToSet(arr) \subseteq ToSet(vec[Main][FdVec])
      /\ ndx \in Nat \ {0}
      /\ phase = "timers" => ndx \in DOMAIN tv /\ cur = tv[ndx]
  BY <1>1 DEF Rest, RunInv, TypeOK
<1>3. PICK rtn \in {0, 1} :
        /\ IF single THEN Mark(cur) /\ unregistered' = unregistered \cup {cur}
           ELSE UNCHANGED <<objVars, deleted_vec, unregistered>>
        /\ owed' = IF rtn = 0 THEN owed ELSE {}
        /\ IF rtn # 0 THEN LeaveRun
           ELSE /\ Goto(Main, phase) /\ ndx' = IF single THEN ndx ELSE ndx + 1
                /\ cur' = 0 /\ phase' = "none"
                /\ UNCHANGED <<poll_ms, time_ms, arr, ready, hits, signum>>
  BY Zenon DEF Return
<1>4. single => tv \in Seq(DOMAIN cb) /\ VecOf(cb[cur]) = TimerVec /\ cb[cur].type # "sig"
  <2>1. SUFFICES ASSUME single
                 PROVE  tv \in Seq(DOMAIN cb) /\ VecOf(cb[cur]) = TimerVec /\ cb[cur].type # "sig"
    OBVIOUS
  <2>2. tv \in Seq(DOMAIN cb) /\ cur \in ToSet(tv)
    BY <1>1, <1>2, <2>1, Objects, Elements
  <2>3. VecOf(cb[cur]) = TimerVec
    BY <1>1, <2>2 DEF FiledInv
  <2>4. QED
    BY <2>2, <2>3 DEF VecOf, TimerVec
<1>5. \E s : s \in Phases \cup {"idle"} /\ Goto(Main, s) /\ pc'[Main] = s
  BY <1>1, <1>2, <1>3 DEF LeaveRun, Goto, Phases
<1>6. MarkedInv'
  <2>1. CASE single
    BY <1>1, <1>2, <1>3, <1>4, <2>1, MarkMarked DEF Rest
  <2>2. CASE ~single
    <3>1. UNCHANGED <<cb, key_map, deleted_vec, unregistered>>
      BY <1>3, <2>2 DEF objVars
    <3>2. QED
      BY <1>1, <1>5, <3>1, MovesQuiet DEF Rest, Phases
  <2>3. QED
    BY <2>1, <2>2
<1>7. /\ UNCHANGED <<key_map, vec>>
      /\ \A k \in DOMAIN cb : /\ cb'[k].due = cb[k].due /\ cb'[k].type = cb[k].type
                              /\ cb[k].deleted => cb'[k].deleted
                              /\ ~(single /\ k = cur) => cb'[k] = cb[k]
      /\ single => cb'[cur].deleted
  <2>1. CASE single
    BY <1>2, <1>3, <2>1, MarkFacts
  <2>2. CASE ~single
    BY <1>3, <2>2 DEF objVars
  <2>3. QED
    BY <2>1, <2>2
<1> HIDE DEF single
<1>8. CASE rtn # 0
  <2>1. /\ pc'[Main] = "idle" /\ ready' = {} /\ hits' = <<>> /\ ToSet(hits') = {} /\ owed' = {}
        /\ phase' = "none"
    BY <1>1, <1>3, <1>8 DEF LeaveRun, Goto, ToSet
  <2>2. ~InRun' /\ ~InCallback' /\ ~FdsServed' /\ \A s \in {"signal", "fds", "vsig"} : ~Serves(s)'
    BY <2>1 DEF InRun, InCallback, FdsServed, Serves
  <2>3. RunInv'
    BY <2>1, <2>2 DEF RunInv
  <2>4. OwedInv'
    BY <2>1, <2>2, NoneInOrder DEF OwedInv
  <2>5. QED
    BY <1>1, <1>6, <2>3, <2>4 DEF Rest, CalledWhileRegistered
<1>9. CASE rtn = 0
  <2>1. /\ pc'[Main] = phase /\ phase' = "none" /\ owed' = owed
        /\ ndx' = IF single THEN ndx ELSE ndx + 1
        /\ UNCHANGED <<time_ms, arr, ready, hits, signum>>
    BY <1>1, <1>3, <1>9 DEF Goto
  <2>2. /\ InRun' /\ ~InCallback' /\ First' = ndx' /\ First = ndx + 1
        /\ \A s \in {"signal", "vsig", "fds", "timers"} :
             (Serves(s)' <=> phase = s) /\ (Serves(s) <=> phase = s)
        /\ NextTimer' = (IF phase = "timers" THEN ndx' ELSE 1)
        /\ NextTimer = (IF phase = "timers" THEN ndx + 1 ELSE 1)
        /\ pc'[Main] # "poll" /\ pc'[Main] # "purge"
    BY <1>1, <1>2, <2>1 DEF InRun, InCallback, First, Serves, NextTimer
  <2>3. RunInv'
    <3>1. processing' /\ ToSet(arr') \subseteq ToSet(vec'[Main][FdVec])
      BY <1>1, <1>2, <1>7, <2>1
    <3>2. hits' # <<>> => Serves("vsig")'
      BY <2>1, <2>2 DEF Rest, RunInv
    <3>3. \A k \in ToSet(hits') : k \in key_map'[Main] /\ cb'[k].type = "vsig"
      BY <1>1, <1>7, <2>1 DEF Rest, RunInv
    <3>4. Serves("signal")' => signum' \in DOMAIN Signals
      BY <2>1, <2>2 DEF Rest, RunInv
    <3>5. QED
      BY <2>2, <3>1, <3>2, <3>3, <3>4 DEF RunInv
  <2>4. single => cur \notin owed
    <3>1. SUFFICES ASSUME single, cur \in owed PROVE FALSE
      OBVIOUS
    <3>2. phase = "timers" /\ ndx \in DOMAIN tv /\ cur = tv[ndx]
      BY <1>2, <3>1 DEF single
    <3>3. ~FdsServed /\ NextTimer = ndx + 1
      BY <1>1, <2>2, <3>2 DEF FdsServed
    <3>4. NextTimer <= ndx
      BY <3>1, <3>2, <3>3 DEF Rest, OwedInv, TimersInOrder
    <3>5. QED
      BY <1>2, <3>3, <3>4
  <2>5. \A k \in owed : k \in DOMAIN cb /\ k \in key_map[Main] /\ ~cb'[k].deleted
    <3>1. \A k \in owed : k \in DOMAIN cb /\ k \in key_map[Main] /\ ~cb[k].deleted
      BY OwedKinds DEF Rest, OwedInv
    <3>2. QED
      BY <1>7, <2>4, <3>1
  <2>6. \A id \in ToSet(tv) : cb'[id].due = cb[id].due /\ (cb[id].deleted => cb'[id].deleted)
    BY <1>1, <1>7, Objects
  <2>7. tw = tv
    BY <1>7
  <2>8. /\ First \in Nat /\ First' \in Nat /\ First' <= First /\ NextTimer' <= NextTimer
        /\ \A i \in DOMAIN tv : NextTimer' <= i => NextTimer <= i \/ cb'[tv[i]].deleted
    <3>1. First \in Nat /\ First' \in Nat /\ First' <= First /\ NextTimer' <= NextTimer
      BY <1>2, <2>1, <2>2
    <3>2. SUFFICES ASSUME NEW i \in DOMAIN tv, NextTimer' <= i, ~(NextTimer <= i)
                   PROVE  cb'[tv[i]].deleted
      BY <3>1
    <3>3. i \in Nat
      BY <1>1, Objects, Elements
    <3>4. phase = "timers" /\ single /\ i = ndx
      BY <1>2, <2>1, <2>2, <3>2, <3>3
    <3>5. QED
      BY <1>2, <1>7, <3>4
  <2>9. OwedInv'
    <3>1. \A id \in owed' : id \in owed /\ id \in key_map'[Main] /\ ~cb'[id].deleted
      BY <1>7, <2>1, <2>5
    <3>2. \A id \in owed : id \in owed' \/ cb'[id].deleted
      BY <2>1
    <3>3. pc[Main] # "purge" /\ pc'[Main] # "purge"
      BY <1>1, <2>2
    <3> HIDE DEF tv, tw
    <3>4. QED
      BY <2>1, <2>2, <2>6, <2>7, <2>8, <3>1, <3>2, <3>3, OwedStays DEF Rest, tv, tw
  <2>10. QED
    BY <1>1, <1>6, <2>3, <2>9 DEF Rest, CalledWhileRegistered
<1>10. QED
  BY <1>8, <1>9

LEMMA PurgeRest ==
  ASSUME TypeOK, KeyInv, FiledInv, Rest, Purge
  PROVE  Rest'
<1>1. /\ pc[Main] = "purge" /\ DOMAIN pc = Threads /\ Main \in Threads
      /\ ~processing' /\ owed' = {} /\ ready' = {} /\ arr' = <<>>
      /\ UNCHANGED <<hits, phase, unregistered, late>>
  BY VectorNames DEF Purge, TypeOK
<1>2. hits = <<>>
  BY <1>1 DEF Rest, RunInv, Serves, InCallback
<1>3. pc'[Main] \in {"purge", "round"} /\ MarkedInv'
  <2>1. CASE deleted_vec = <<>>
    <3>1. Goto(Main, "round") /\ UNCHANGED <<cb, key_map, deleted_vec>> /\ pc'[Main] = "round"
      BY <1>1, <2>1 DEF Purge, objVars, Goto
    <3>2. Quiet
      BY <1>1, <2>1, <3>1 DEF Quiet
    <3>3. QED
      BY <3>1, <3>2, QuietMarked DEF Rest
  <2>2. CASE deleted_vec # <<>>
    <3> DEFINE last == Last(deleted_vec)
    <3>1. /\ last \in key_map[Main] /\ Destroy(last) /\ deleted_vec' = Front(deleted_vec)
          /\ pc' = pc
      BY <2>2, PurgeFrees DEF Rest
    <3>2. deleted_vec \in Seq(DOMAIN cb) /\ IsInjective(deleted_vec)
      BY <1>1 DEF TypeOK, Rest, MarkedInv
    <3>3. IsInjective(deleted_vec') /\ ToSet(deleted_vec') = ToSet(deleted_vec) \ {last}
      BY <2>2, <3>1, <3>2, FrontOf
    <3>4. QED
      BY <1>1, <3>1, <3>3, DestroyMarked DEF Rest
  <2>3. QED
    BY <2>1, <2>2
<1>4. /\ ~InRun' /\ ~InCallback' /\ ~Serves("fds")' /\ ~Serves("signal")'
  BY <1>3 DEF InRun, InCallback, Serves
<1>5. RunInv'
  <2>1. ToSet(<<>>) = {}
    BY DEF ToSet
  <2>2. QED
    BY <1>1, <1>2, <1>4, <2>1 DEF RunInv
<1>6. OwedInv'
  BY <1>1, <1>4, NoneInOrder DEF OwedInv
<1>7. QED
  BY <1>1, <1>3, <1>5, <1>6 DEF Rest, CalledWhileRegistered

\* Every step keeps what is marked, what the round holds, and what it owes.
LEMMA RestKept ==
  ASSUME TypeOK, KeyInv, FiledInv, CaughtInv, Rest, [Next]_vars
  PROVE  Rest'
<1>1. CASE Outside \/ Cleanup
  BY <1>1, OutsideRest, CleanupRest
<1>2. CASE TestReleased \/ Awake \/ \E w \in Workers : Spawn(w)
  BY <1>2, SpawnRest
<1>3. CASE Arrives \/ UNCHANGED vars \/ \E w \in Workers : WorkerStarts(w) \/ Release(w)
  BY <1>3, OthersRest
<1>4. CASE \E t \in Threads : Store(t)
  BY <1>4, StoreRest
<1>5. CASE StartRound \/ PollReturns \/ ServeSignal \/ CallSignal \/ Drain \/ CallVSignal
  BY <1>5, StartRest, PollRest, ServeRest, CallSignalRest, DrainRest, CallVSignalRest
<1>6. CASE CallTimer \/ CallFd \/ Callback \/ Return \/ Purge
  BY <1>6, CallTimerRest, CallFdRest, CallbackRest, ReturnRest, PurgeRest
<1>7. QED
  BY <1>1, <1>2, <1>3, <1>4, <1>5, <1>6 DEF Next

---------------------------------------------------------------------------
(* Types: what is registered, and where everybody is.                      *)

RegTypes ==
  /\ keySrc = Len(cb) /\ loaded \in [Threads -> 0 .. Len(cb)]
  /\ pc \in [Threads -> Pcs] /\ then \in [Threads -> Pcs]
  /\ spec \in [Threads -> AllSpecs \cup {None}]

\* Nobody begins to register, or has registered.
Moves ==
  /\ UNCHANGED regVars /\ pc' \in [Threads -> Pcs]
  /\ \A t \in Threads : pc'[t] = "store" => pc[t] = "store"

\* A thread registers what it may.
Registers == \E t \in Threads : \E s \in OwnSpecs(t), back \in Pcs : Register(t, s, back)

LEMMA GoesMoves ==
  ASSUME TypeOK, NEW t \in Threads, NEW s \in Pcs, s # "store", Goto(t, s), UNCHANGED regVars
  PROVE  Moves
<1>1. pc' = [pc EXCEPT ![t] = s] /\ pc \in [Threads -> Pcs]
  BY DEF Goto, TypeOK
<1>2. QED
  BY <1>1 DEF Moves

LEMMA RoundMoves ==
  ASSUME TypeOK, KeyInv, RunInv,
         \/ StartRound \/ PollReturns \/ ServeSignal \/ CallSignal \/ Drain \/ CallVSignal
         \/ CallTimer \/ CallFd \/ Return \/ Purge
  PROVE  Moves
<1>1. UNCHANGED regVars
  BY DEF StartRound, PollReturns, ServeSignal, CallSignal, Drain, CallVSignal, CallTimer, CallFd,
         Return, Purge
<1> DEFINE On == \E s \in Pcs : s # "store" /\ Goto(Main, s)
<1>2. CASE StartRound \/ PollReturns
  <2>1. On
    BY <1>2 DEF StartRound, PollReturns, Pcs
  <2>2. QED
    BY <1>1, <2>1, GoesMoves, VectorNames
<1>3. CASE ServeSignal \/ CallSignal \/ Drain \/ CallVSignal
  <2>1. On
    BY <1>3 DEF ServeSignal, CallSignal, Drain, CallVSignal, Calls, Then, Pcs
  <2>2. QED
    BY <1>1, <2>1, GoesMoves, VectorNames
<1>4. CASE CallTimer \/ CallFd
  <2>1. On
    BY <1>4 DEF CallTimer, CallFd, Calls, Then, Pcs
  <2>2. QED
    BY <1>1, <2>1, GoesMoves, VectorNames
<1>5. CASE Return
  <2>1. phase \in {"signal", "vsig", "timers", "fds"}
    BY <1>5 DEF Return, RunInv, InCallback, KeyInv, TurnInv, Phases
  <2>2. \E rtn \in {0, 1} : IF rtn # 0 THEN LeaveRun ELSE Goto(Main, phase)
    BY <1>5, Zenon DEF Return
  <2>3. On
    BY <2>1, <2>2 DEF LeaveRun, Pcs
  <2>4. QED
    BY <1>1, <2>3, GoesMoves, VectorNames
<1>6. CASE Purge
  <2>1. pc' = pc \/ Goto(Main, "round")
    BY <1>6 DEF Purge
  <2>2. CASE pc' = pc
    BY <1>1, <2>2 DEF Moves, TypeOK
  <2>3. CASE Goto(Main, "round")
    BY <1>1, <2>3, GoesMoves, VectorNames DEF Pcs
  <2>4. QED
    BY <2>1, <2>2, <2>3
<1>7. QED
  BY <1>2, <1>3, <1>4, <1>5, <1>6

\* A step begins a registration, ends one, or does neither.
LEMMA StepKinds ==
  ASSUME TypeOK, KeyInv, RunInv, [Next]_vars
  PROVE  Moves \/ (Registers /\ UNCHANGED objVars) \/ \E t \in Threads : Store(t)
<1> USE WorkersAssumption
<1>1. ASSUME NEW t \in Threads, NEW s \in OwnSpecs(t), NEW back \in Pcs, Register(t, s, back)
      PROVE  Registers /\ UNCHANGED objVars
  BY <1>1, Zenon DEF Registers, Register
<1>2. /\ Specs \subseteq OwnSpecs(Main) /\ \A t \in Threads : Usr2 \in OwnSpecs(t)
      /\ Main \in Threads /\ Workers \subseteq Threads
      /\ {"idle", "return", "started"} \subseteq Pcs
  BY DEF OwnSpecs, Threads, Pcs
<1>3. CASE Outside
  <2>1. CASE \E s \in OwnSpecs(Main) : Register(Main, s, "idle")
    BY <1>1, <1>2, <2>1
  <2>2. CASE \E s \in Pcs : s # "store" /\ Goto(Main, s) /\ UNCHANGED regVars
    BY <1>2, <2>2, GoesMoves
  <2>3. QED
    BY <1>2, <1>3, <2>1, <2>2 DEF Outside, UnregisterKey, Pcs
<1>4. CASE Callback
  <2>1. CASE \E s \in OwnSpecs(Main) : Register(Main, s, "return")
    BY <1>1, <1>2, <2>1
  <2>2. CASE \E s \in Pcs : s # "store" /\ Goto(Main, s) /\ UNCHANGED regVars
    BY <1>2, <2>2, GoesMoves
  <2>3. QED
    BY <1>2, <1>4, <2>1, <2>2 DEF Callback, UnregisterKey, Pcs
<1>5. ASSUME NEW w \in Workers, WorkerStarts(w)
      PROVE  Registers /\ UNCHANGED objVars
  <2> DEFINE n == Cardinality(key_map[w])
  <2>1. n \in Nat /\ n < Len(WorkerRegisters) /\ Register(w, WorkerRegisters[n + 1], "started")
    <3>1. key_map[w] \subseteq 1 .. Len(cb) /\ Len(cb) \in Nat
      BY <1>2, Objects
    <3>2. IsFiniteSet(key_map[w])
      <4> DEFINE m == Len(cb)
      <4>1. m \in Int /\ key_map[w] \subseteq 1 .. m
        BY <3>1
      <4> HIDE DEF m
      <4>2. IsFiniteSet(1 .. m)
        BY <4>1, FS_Interval
      <4>3. QED
        BY <4>1, <4>2, FS_Subset
    <3>3. QED
      BY <1>5, <3>2, FS_CardinalityType DEF WorkerStarts
  <2>2. WorkerRegisters[n + 1] \in OwnSpecs(w)
    <3>1. WorkerSpecs \in Seq(AllSpecs)
      BY SpecsAssumption
    <3> DEFINE S == {Usr2} \cup ToSet(WorkerSpecs)
    <3>2. WorkerSpecs \in Seq(S)
      <4>1. /\ WorkerSpecs \in [1 .. Len(WorkerSpecs) -> S] /\ Len(WorkerSpecs) \in Nat
        BY <3>1, Elements
      <4>2. QED
        BY <4>1, SeqDef
    <3>3. WorkerRegisters \in Seq(S)
      <4>1. <<Usr2>> \in Seq(S)
        OBVIOUS
      <4>2. QED
        BY <3>2, <4>1, ConcatProperties DEF WorkerRegisters
    <3>4. n + 1 \in DOMAIN WorkerRegisters
      BY <2>1, <3>3, LenProperties
    <3>5. WorkerRegisters[n + 1] \in S
      BY <3>3, <3>4, Elements
    <3>6. QED
      BY <3>5, <1>2 DEF OwnSpecs
  <2>3. QED
    BY <1>1, <1>2, <2>1, <2>2
<1>6. CASE \E w \in Workers : Spawn(w)
  <2>1. PICK w \in Workers : Spawn(w)
    BY <1>6
  <2>2. /\ pc' = [pc EXCEPT ![Main] = "test", ![w] = "started"] /\ UNCHANGED regVars
        /\ pc \in [Threads -> Pcs]
    BY <2>1 DEF Spawn, TypeOK
  <2>3. QED
    BY <1>2, <2>2 DEF Moves, Pcs
<1>7. CASE \E w \in Workers : Release(w)
  BY <1>2, <1>7, GoesMoves DEF Release, Pcs
<1>8. CASE Cleanup \/ TestReleased \/ Awake
  BY <1>2, <1>8, GoesMoves DEF Cleanup, TestReleased, Awake, Pcs
<1>9. CASE Arrives \/ UNCHANGED vars
  BY <1>9 DEF Arrives, vars, Moves, TypeOK
<1>10. QED
  BY <1>3, <1>4, <1>5, <1>6, <1>7, <1>8, <1>9, RoundMoves DEF Next

LEMMA RegKept ==
  ASSUME TypeOK, KeyInv, FiledInv, CaughtInv, MarkedInv, RunInv, [Next]_vars
  PROVE  RegTypes' /\ \A t \in Threads : pc'[t] = "store" => spec'[t] \in OwnSpecs(t)
<1>1. /\ keySrc = Len(cb) /\ Len(cb) \in Nat /\ loaded \in [Threads -> 0 .. Len(cb)]
      /\ pc \in [Threads -> Pcs] /\ then \in [Threads -> Pcs]
      /\ spec \in [Threads -> AllSpecs \cup {None}]
      /\ DOMAIN cb = 1 .. Len(cb) /\ cb \in Seq(Callbacks)
      /\ \A t \in Threads : pc[t] = "store" => spec[t] \in OwnSpecs(t)
      /\ \A t \in Threads : OwnSpecs(t) \subseteq AllSpecs
  BY Objects, VectorNames DEF TypeOK, CaughtInv
<1>2. cb' \in Seq(Callbacks) /\ DOMAIN cb' = 1 .. Len(cb') /\ Len(cb') \in Nat
  <2>1. cb' \in Seq(Callbacks)
    BY FiledKept DEF Filed, ObjTypes
  <2>2. QED
    BY <2>1, LenProperties
<1>3. CASE \E t \in Threads : Store(t)
  <2>1. PICK t \in Threads : Store(t)
    BY <1>3
  <2>2. /\ DOMAIN cb' = DOMAIN cb \cup {Len(cb) + 1}
    BY <2>1, Stored
  <2>3. Len(cb') = Len(cb) + 1
    <3> DEFINE n == Len(cb)
               m == Len(cb')
    <3>1. n \in Nat /\ m \in Nat /\ 1 .. m = 1 .. n \cup {n + 1}
      BY <1>1, <1>2, <2>2
    <3> HIDE DEF n, m
    <3>2. m = n + 1
      <4>1. n + 1 \in 1 .. m
        BY <3>1
      <4>2. m \in 1 .. m
        BY <3>1, <4>1
      <4>3. m \in 1 .. n + 1
        BY <3>1, <4>2
      <4>4. QED
        BY <3>1, <4>1, <4>3
    <3>3. QED
      BY <3>2 DEF n, m
  <2>4. /\ keySrc' = loaded[t] + 1 /\ loaded[t] = keySrc
        /\ pc' = [pc EXCEPT ![t] = then[t]] /\ then' = [then EXCEPT ![t] = "idle"]
        /\ spec' = [spec EXCEPT ![t] = None] /\ loaded' = [loaded EXCEPT ![t] = 0]
    BY <2>1 DEF Store, Goto, KeyInv, CounterInv
  <2>5. then[t] # "store"
    BY <2>1 DEF Store, KeyInv, TurnInv, Threads
  <2>6. RegTypes'
    <3>1. keySrc' = Len(cb')
      BY <1>1, <2>3, <2>4
    <3>2. loaded' \in [Threads -> 0 .. Len(cb')]
      BY <1>1, <2>3, <2>4
    <3>3. pc' \in [Threads -> Pcs] /\ then' \in [Threads -> Pcs]
          /\ spec' \in [Threads -> AllSpecs \cup {None}]
      BY <1>1, <2>4 DEF Pcs
    <3>4. QED
      BY <3>1, <3>2, <3>3 DEF RegTypes
  <2>7. \A u \in Threads : pc'[u] = "store" => u # t /\ pc[u] = "store" /\ spec'[u] = spec[u]
    BY <1>1, <2>4, <2>5
  <2>8. QED
    BY <1>1, <2>6, <2>7
<1>4. CASE ~\E t \in Threads : Store(t)
  <2>1. DOMAIN cb' = DOMAIN cb
    BY <1>4, ObjectSteps DEF InPlace, Destroys, Destroy, Cleanup
  <2>2. Len(cb') = Len(cb)
    BY <1>1, <1>2, <2>1
  <2>3. CASE Moves
    BY <1>1, <2>2, <2>3 DEF Moves, RegTypes, regVars
  <2>4. CASE Registers
    <3> PICK t \in Threads : \E s \in OwnSpecs(t), back \in Pcs : Register(t, s, back)
      BY <2>4 DEF Registers
    <3>1. PICK s \in OwnSpecs(t), back \in Pcs : Register(t, s, back)
      OBVIOUS
    <3>2. /\ pc' = [pc EXCEPT ![t] = "store"] /\ then' = [then EXCEPT ![t] = back]
          /\ spec' = [spec EXCEPT ![t] = s] /\ loaded' = [loaded EXCEPT ![t] = keySrc]
          /\ keySrc' = keySrc /\ s \in AllSpecs
      BY <1>1, <3>1 DEF Register, Goto
    <3>3. RegTypes'
      BY <1>1, <2>2, <3>2 DEF RegTypes, Pcs
    <3>4. QED
      BY <1>1, <3>1, <3>2, <3>3
  <2>5. QED
    BY <1>4, <2>3, <2>4, StepKinds
<1>5. QED
  BY <1>3, <1>4

---------------------------------------------------------------------------
(* Types: signals, the clock and the spawner.                              *)

WorldTypes ==
  /\ caught \subseteq ToSet(Signals) /\ raised \subseteq ToSet(Signals)
  /\ mq \in Seq(Vsigs) /\ created \subseteq Workers
  /\ condMtx \in BOOLEAN /\ release_parent \in BOOLEAN /\ processing \in BOOLEAN
  /\ now \in 0 .. MaxTime /\ time_ms \in 0 .. MaxTime /\ events \in 0 .. MaxEvents

LEMMA CaughtTyped ==
  ASSUME TypeOK, KeyInv, FiledInv, CaughtInv, MarkedInv, RunInv, [Next]_vars
  PROVE  caught' \subseteq ToSet(Signals)
<1>1. caught \subseteq ToSet(Signals)
  BY DEF TypeOK
<1>2. CASE \E t \in Threads : Store(t)
  <2>1. PICK t \in Threads : Store(t)
    BY <1>2
  <2>2. /\ spec[t] \in AllSpecs
        /\ caught' = IF spec[t].type = "sig" /\ vec[t][VecOf(spec[t])] = <<>>
                     THEN caught \cup {spec[t].of} ELSE caught
    BY <2>1, Stored
  <2>3. QED
    BY <1>1, <2>2, VectorNames
<1>3. CASE InPlace \/ Cleanup
  BY <1>1, <1>3 DEF InPlace, Cleanup
<1>4. CASE Destroys
  <2>1. caught' \subseteq caught
    BY <1>4 DEF Destroys, Destroy
  <2>2. QED
    BY <1>1, <2>1
<1>5. QED
  BY <1>2, <1>3, <1>4, ObjectSteps

LEMMA WorldTyped ==
  ASSUME TypeOK, KeyInv, FiledInv, CaughtInv, MarkedInv, RunInv, [Next]_vars
  PROVE  WorldTypes'
<1>1. /\ caught \subseteq ToSet(Signals) /\ raised \subseteq ToSet(Signals)
      /\ mq \in Seq(Vsigs) /\ created \subseteq Workers
      /\ condMtx \in BOOLEAN /\ release_parent \in BOOLEAN /\ processing \in BOOLEAN
      /\ now \in 0 .. MaxTime /\ time_ms \in 0 .. MaxTime /\ events \in 0 .. MaxEvents
      /\ MaxTime \in Nat /\ MaxEvents \in Nat /\ "USR2" \in ToSet(Signals)
  BY BoundsAssumption, VectorNames DEF TypeOK
<1>2. caught' \subseteq ToSet(Signals)
  BY CaughtTyped
<1>3. CASE UNCHANGED <<spawnVars, worldVars, mainVars, time_ms>>
  BY <1>1, <1>2, <1>3 DEF spawnVars, worldVars, mainVars, WorldTypes
<1>4. CASE UNCHANGED <<spawnVars, worldVars, time_ms>> /\ processing' = processing
  BY <1>1, <1>2, <1>4 DEF spawnVars, worldVars, WorldTypes
<1>5. CASE Outside \/ Callback
  <2>1. CASE UNCHANGED <<spawnVars, worldVars, runVars>> /\ processing' = processing
    BY <1>4, <2>1 DEF runVars
  <2>2. CASE /\ now' \in now .. MaxTime
             /\ UNCHANGED <<spawnVars, events, raised, mq, mainVars, runVars>>
    BY <1>1, <1>2, <2>2 DEF spawnVars, mainVars, runVars, WorldTypes
  <2>3. ASSUME NEW next, UnregisterKey(next)
        PROVE  UNCHANGED <<spawnVars, worldVars, runVars>> /\ processing' = processing
    BY <2>3 DEF UnregisterKey, mainVars
  <2>4. QED
    BY <1>5, <2>1, <2>2, <2>3 DEF Outside, Callback, Register, mainVars
<1>6. CASE Cleanup
  <2>1. UNCHANGED <<created, condMtx, release_parent, processing, now, time_ms, events, raised>>
        /\ mq' = <<>>
    BY <1>6 DEF Cleanup, spawnVars, mainVars, runVars
  <2>2. QED
    BY <1>1, <1>2, <2>1 DEF WorldTypes
<1>7. CASE TestReleased \/ Awake \/ \E w \in Workers : Spawn(w) \/ Release(w)
  <2>1. /\ created' \subseteq Workers /\ condMtx' \in BOOLEAN /\ release_parent' \in BOOLEAN
        /\ UNCHANGED <<worldVars, mainVars, runVars>>
    BY <1>1, <1>7 DEF TestReleased, Awake, Spawn, Release
  <2>2. QED
    BY <1>1, <1>2, <2>1 DEF worldVars, mainVars, runVars, WorldTypes
<1>8. CASE (\E w \in Workers : WorkerStarts(w)) \/ (\E t \in Threads : Store(t)) \/ UNCHANGED vars
  BY <1>3, <1>8 DEF WorkerStarts, Register, Store, vars, runVars
<1>9. CASE Arrives
  <2>1. raised' \subseteq ToSet(Signals) /\ mq' \in Seq(Vsigs)
    <3>1. CASE \E sig \in caught \ {"USR2"} : raised' = raised \cup {sig} /\ UNCHANGED mq
      BY <1>1, <3>1
    <3>2. CASE \E v \in Vsigs : mq' = Append(mq, v) /\ raised' = raised \cup {"USR2"}
      BY <1>1, <3>2, Appended
    <3>3. QED
      BY <1>9, <3>1, <3>2 DEF Arrives
  <2>2. /\ events' \in 0 .. MaxEvents /\ UNCHANGED <<spawnVars, now, mainVars, time_ms>>
    BY <1>1, <1>9 DEF Arrives, runVars
  <2>3. QED
    BY <1>1, <1>2, <2>1, <2>2 DEF spawnVars, mainVars, WorldTypes
<1>10. CASE StartRound \/ PollReturns
  <2>1. /\ now' \in 0 .. MaxTime /\ time_ms' = time_ms /\ processing' \in BOOLEAN
        /\ UNCHANGED <<spawnVars, events, raised, mq>>
    <3>1. CASE StartRound
      BY <1>1, <3>1 DEF StartRound, worldVars
    <3>2. CASE PollReturns
      <4>1. \E t \in now .. MaxTime : now' = t
        BY <3>2 DEF PollReturns
      <4>2. UNCHANGED <<time_ms, spawnVars, events, raised, mq>> /\ processing' = processing
        BY <3>2 DEF PollReturns, mainVars
      <4>3. QED
        BY <1>1, <4>1, <4>2
    <3>3. QED
      BY <1>10, <3>1, <3>2
  <2>2. QED
    BY <1>1, <1>2, <2>1 DEF spawnVars, WorldTypes
<1>11. CASE ServeSignal
  <2>1. raised' \subseteq raised /\ time_ms' \in {now, time_ms}
        /\ UNCHANGED <<spawnVars, now, events, mq, mainVars>>
    BY <1>11 DEF ServeSignal
  <2>2. QED
    BY <1>1, <1>2, <2>1 DEF spawnVars, mainVars, WorldTypes
<1>12. CASE Drain
  <2>1. mq' \in Seq(Vsigs) /\ UNCHANGED <<spawnVars, now, events, raised, mainVars, time_ms>>
    BY <1>1, <1>12, HeadTailProperties DEF Drain
  <2>2. QED
    BY <1>1, <1>2, <2>1 DEF spawnVars, mainVars, WorldTypes
<1>13. CASE CallSignal \/ CallVSignal \/ CallTimer \/ CallFd
  BY <1>3, <1>13 DEF CallSignal, CallVSignal, CallTimer, CallFd
<1>14. CASE Return
  <2>1. /\ UNCHANGED <<spawnVars, worldVars>> /\ processing' = processing
        /\ time_ms' \in {time_ms, 0}
    <3>1. \E rtn \in {0, 1} : IF rtn # 0 THEN LeaveRun ELSE UNCHANGED time_ms
      BY <1>14, Zenon DEF Return
    <3>2. QED
      BY <1>14, <3>1 DEF Return, LeaveRun
  <2>2. time_ms' \in 0 .. MaxTime
    BY <1>1, <2>1
  <2>3. processing' \in BOOLEAN
    BY <1>1, <2>1
  <2>4. QED
    BY <1>1, <1>2, <2>1, <2>2, <2>3 DEF spawnVars, worldVars, WorldTypes
<1>15. CASE Purge
  <2>1. UNCHANGED <<created, condMtx, release_parent, now, events, raised, mq>>
    BY <1>15 DEF Purge, spawnVars, worldVars
  <2>2. processing' \in BOOLEAN
    BY <1>15 DEF Purge
  <2>3. time_ms' \in 0 .. MaxTime
    BY <1>1, <1>15 DEF Purge
  <2>4. QED
    BY <1>1, <1>2, <2>1, <2>2, <2>3 DEF WorldTypes
<1>16. QED
  BY <1>5, <1>6, <1>7, <1>8, <1>9, <1>10, <1>11, <1>12, <1>13, <1>14, <1>15 DEF Next

---------------------------------------------------------------------------
(* Types: the lists, and the locals of ES_run().                           *)

\* No callback is ever forgotten.
LEMMA ObjectsGrow ==
  ASSUME TypeOK, KeyInv, FiledInv, CaughtInv, MarkedInv, RunInv, [Next]_vars
  PROVE  DOMAIN cb \subseteq DOMAIN cb'
<1>1. ASSUME NEW t \in Threads, Store(t) PROVE DOMAIN cb \subseteq DOMAIN cb'
  BY <1>1, Stored
<1>2. CASE InPlace \/ Destroys \/ Cleanup
  BY <1>2 DEF InPlace, Destroys, Destroy, Cleanup
<1>3. QED
  BY <1>1, <1>2, ObjectSteps

LEMMA ListsKept ==
  ASSUME TypeOK, KeyInv, FiledInv, MarkedInv, RunInv, [Next]_vars
  PROVE  deleted_vec' \in Seq(DOMAIN cb) /\ unregistered' \subseteq DOMAIN cb
<1>1. /\ deleted_vec \in Seq(DOMAIN cb) /\ unregistered \subseteq DOMAIN cb
      /\ key_map[Main] \subseteq DOMAIN cb
  BY Objects, VectorNames DEF TypeOK
<1>2. CASE UNCHANGED <<deleted_vec, unregistered>>
  BY <1>1, <1>2
<1>3. ASSUME NEW next, UnregisterKey(next)
      PROVE  deleted_vec' \in Seq(DOMAIN cb) /\ unregistered' \subseteq DOMAIN cb
  <2>1. CASE UNCHANGED <<objVars, mainVars, histVars>>
    BY <1>2, <2>1 DEF mainVars, histVars
  <2>2. ASSUME NEW id \in key_map[Main], Unregister(id)
        PROVE  deleted_vec' \in Seq(DOMAIN cb) /\ unregistered' \subseteq DOMAIN cb
    <3>1. unregistered' = unregistered \cup {id} /\ id \in DOMAIN cb
      BY <1>1, <2>2 DEF Unregister
    <3>2. deleted_vec' = deleted_vec \/ Mark(id)
      BY <2>2 DEF Unregister
    <3>3. QED
      BY <1>1, <3>1, <3>2, MarkFacts
  <2>3. QED
    BY <1>3, <2>1, <2>2, Unregisters
<1>4. CASE Outside \/ Callback
  <2>1. UNCHANGED <<mainVars, histVars>> \/ \E next : UnregisterKey(next)
    BY <1>4 DEF Outside, Callback, Register
  <2>2. QED
    BY <1>2, <1>3, <2>1 DEF mainVars, histVars
<1>5. CASE Return
  <2>1. cur \in DOMAIN cb
    BY <1>1, <1>5 DEF Return, RunInv, InCallback
  <2>2. \/ UNCHANGED <<deleted_vec, unregistered>>
        \/ Mark(cur) /\ unregistered' = unregistered \cup {cur}
    BY <1>5 DEF Return
  <2>3. QED
    BY <1>1, <2>1, <2>2, MarkFacts
<1>6. CASE Purge
  <2>1. unregistered' = unregistered /\ pc[Main] = "purge"
    BY <1>6 DEF Purge
  <2>2. CASE deleted_vec = <<>>
    BY <1>2, <1>6, <2>1, <2>2 DEF Purge
  <2>3. CASE deleted_vec # <<>>
    BY <1>1, <1>6, <2>1, <2>3, PurgeFrees, FrontOf DEF MarkedInv
  <2>4. QED
    BY <2>2, <2>3
<1>7. CASE UNCHANGED mainVars /\ unregistered' = unregistered
  BY <1>2, <1>7 DEF mainVars
<1>8. CASE Cleanup \/ TestReleased \/ Awake \/ Arrives \/ UNCHANGED vars
           \/ \E w \in Workers : Spawn(w) \/ WorkerStarts(w) \/ Release(w)
  BY <1>7, <1>8 DEF Cleanup, TestReleased, Awake, Arrives, Spawn, WorkerStarts, Release, Register,
                    histVars, vars
<1>9. CASE \E t \in Threads : Store(t)
  BY <1>7, <1>9 DEF Store, histVars
<1>10. CASE StartRound \/ PollReturns
  BY <1>2, <1>7, <1>10 DEF StartRound, PollReturns
<1>11. CASE ServeSignal \/ CallSignal \/ Drain \/ CallVSignal \/ CallTimer \/ CallFd
  BY <1>7, <1>11 DEF ServeSignal, CallSignal, Drain, CallVSignal, CallTimer, CallFd, Calls, Then,
                     histVars
<1>12. QED
  BY <1>4, <1>5, <1>6, <1>8, <1>9, <1>10, <1>11 DEF Next

\* What ES_run() holds on to are callbacks.
LEMMA ServedTyped ==
  ASSUME TypeOK, KeyInv, FiledInv, MarkedInv, RunInv, [Next]_vars
  PROVE  hits' \in Seq(DOMAIN cb) /\ arr' \in Seq(DOMAIN cb) /\ ready' \subseteq ToSet(arr')
<1>1. /\ hits \in Seq(DOMAIN cb) /\ arr \in Seq(DOMAIN cb) /\ ready \subseteq ToSet(arr)
      /\ <<>> \in Seq(DOMAIN cb)
  BY DEF TypeOK
<1>2. CASE UNCHANGED <<hits, arr, ready>>
  BY <1>1, <1>2
<1>3. CASE UNCHANGED runVars
  BY <1>2, <1>3 DEF runVars
<1>4. CASE Outside \/ Callback
  BY <1>3, <1>4 DEF Outside, Callback, Register, UnregisterKey
<1>5. CASE Cleanup \/ TestReleased \/ Awake \/ Arrives \/ UNCHANGED vars
           \/ \E w \in Workers : Spawn(w) \/ WorkerStarts(w) \/ Release(w)
  BY <1>3, <1>5 DEF Cleanup, TestReleased, Awake, Arrives, Spawn, WorkerStarts, Release, Register,
                    vars
<1>6. CASE \E t \in Threads : Store(t)
  BY <1>3, <1>6 DEF Store
<1>7. CASE StartRound
  <2>1. PICK fds \in Sorted(vec[Main][FdVec], LastActivity) : arr' = fds
    BY <1>7 DEF StartRound
  <2>2. ready = {} /\ ready' = ready /\ hits' = hits
    BY <1>7 DEF StartRound, RunInv, InRun, InCallback
  <2>3. arr' \in Seq(DOMAIN cb)
    BY <2>1, Objects, VectorNames, SortedSeq
  <2>4. QED
    BY <1>1, <2>2, <2>3
<1>8. CASE PollReturns
  BY <1>1, <1>8 DEF PollReturns
<1>9. CASE ServeSignal \/ CallSignal \/ CallTimer \/ CallFd
  BY <1>2, <1>9 DEF ServeSignal, CallSignal, CallTimer, CallFd
<1>10. CASE Drain
  <2>1. arr' = arr /\ ready' = ready
    BY <1>10 DEF Drain
  <2>2. CASE mq = <<>>
    BY <1>1, <1>10, <2>1, <2>2 DEF Drain
  <2>3. CASE mq # <<>>
    <3>1. mq \in Seq(Vsigs)
      BY DEF TypeOK
    <3>2. Head(mq) \in Vsigs
      BY <2>3, <3>1
    <3>3. vec[Main][VsigVec(Head(mq))] \in Seq(DOMAIN cb)
      BY <3>2, Objects, VectorNames
    <3>4. QED
      BY <1>1, <1>10, <2>1, <2>3, <3>3 DEF Drain
  <2>4. QED
    BY <2>2, <2>3
<1>11. CASE CallVSignal
  BY <1>1, <1>11 DEF CallVSignal
<1>12. CASE Return
  <2>1. \E rtn \in {0, 1} : IF rtn # 0 THEN LeaveRun ELSE UNCHANGED <<arr, ready, hits>>
    BY <1>12, Zenon DEF Return
  <2>2. QED
    BY <1>1, <2>1 DEF LeaveRun
<1>13. CASE Purge
  BY <1>1, <1>13 DEF Purge
<1>14. QED
  BY <1>4, <1>5, <1>6, <1>7, <1>8, <1>9, <1>10, <1>11, <1>12, <1>13 DEF Next

\* The callback that runs, and where the loops of ES_run() are.
LEMMA LoopTyped ==
  ASSUME TypeOK, KeyInv, FiledInv, MarkedInv, RunInv, [Next]_vars
  PROVE  /\ cur' \in {0, cur} \/ InCallback'
         /\ ndx' \in Nat \ {0} /\ signum' \in Nat \ {0}
<1>1. ndx \in Nat \ {0} /\ signum \in Nat \ {0} /\ DOMAIN pc = Threads /\ Main \in Threads
  BY VectorNames DEF TypeOK
<1>2. CASE UNCHANGED <<cur, ndx, signum>>
  BY <1>1, <1>2
<1>3. CASE UNCHANGED runVars
  BY <1>2, <1>3 DEF runVars
<1>4. CASE Outside \/ Callback
  BY <1>3, <1>4 DEF Outside, Callback, Register, UnregisterKey
<1>5. CASE Cleanup \/ TestReleased \/ Awake \/ Arrives \/ UNCHANGED vars
           \/ \E w \in Workers : Spawn(w) \/ WorkerStarts(w) \/ Release(w)
  BY <1>3, <1>5 DEF Cleanup, TestReleased, Awake, Arrives, Spawn, WorkerStarts, Release, Register,
                    vars
<1>6. CASE \E t \in Threads : Store(t)
  BY <1>3, <1>6 DEF Store
<1>7. CASE StartRound \/ PollReturns
  BY <1>1, <1>2, <1>7 DEF StartRound, PollReturns
<1>8. ASSUME NEW id, NEW i \in Nat \ {0}, NEW in, Calls(id, i, in), signum' = signum
      PROVE  InCallback' /\ ndx' \in Nat \ {0} /\ signum' \in Nat \ {0}
  BY <1>1, <1>8 DEF Calls, Goto, InCallback
<1>9. ASSUME NEW next, Then(next)
      PROVE  cur' = cur /\ ndx' \in Nat \ {0}
  BY <1>9 DEF Then
<1>10. CASE ServeSignal
  <2> DEFINE is == {i \in signum .. Len(Signals) : Signals[i] \in raised}
  <2>1. is \in SUBSET Nat /\ 0 \notin is
    BY <1>1
  <2>2. \/ signum' = signum
        \/ is # {} /\ signum' = Min(is)
    BY <1>10 DEF ServeSignal
  <2>3. \E next : Then(next)
    BY <1>10 DEF ServeSignal
  <2> HIDE DEF is
  <2>4. signum' \in Nat \ {0}
    BY <1>1, <2>1, <2>2, Least
  <2>5. QED
    BY <1>9, <2>3, <2>4
<1>11. CASE CallSignal
  <2> DEFINE ids == vec[Main][SigVec(Signals[signum])]
             i == FirstOf(ids, Unmarked(ToSet(ids)))
  <2>1. pc[Main] = "signal" /\ signum' = signum
    BY <1>11 DEF CallSignal
  <2>2. signum \in DOMAIN Signals
    BY <2>1 DEF RunInv, Serves
  <2>3. ids \in Seq(DOMAIN cb)
    <3>1. Signals[signum] \in ToSet(Signals)
      BY <2>2 DEF ToSet
    <3>2. QED
      BY <3>1, Objects, VectorNames
  <2>4. i = 0 \/ i \in Nat \ {0}
    <3>1. DOMAIN ids \subseteq Nat \ {0}
      BY <2>3, Elements
    <3>2. QED
      BY <1>1, <2>3, <3>1, FirstOfIs
  <2>5. \/ Then("signals")
        \/ i # 0 /\ Calls(ids[i], i, "signal")
    BY <1>11 DEF CallSignal
  <2> HIDE DEF ids, i
  <2>6. QED
    BY <1>1, <1>8, <1>9, <2>1, <2>4, <2>5
<1>12. CASE Drain
  <2>1. (\E next : Then(next)) /\ signum' = signum
    BY <1>12 DEF Drain
  <2>2. QED
    BY <1>1, <1>9, <2>1
<1>13. CASE CallVSignal
  <2>1. /\ \/ Then("drain")
           \/ Calls(hits[ndx], ndx, "vsig")
        /\ signum' = signum
    BY <1>13 DEF CallVSignal
  <2>2. QED
    BY <1>1, <1>8, <1>9, <2>1
<1>14. ASSUME NEW s \in Seq(DOMAIN cb), NEW wanted
       PROVE  FirstOf(s, wanted) = 0 \/ FirstOf(s, wanted) \in Nat \ {0}
  <2>1. DOMAIN s \subseteq Nat \ {0}
    BY Elements
  <2>2. QED
    BY <1>1, <2>1, FirstOfIs
<1>15. CASE CallTimer
  <2> DEFINE ids == vec[Main][TimerVec]
             i == FirstOf(ids, Unmarked(ToSet(ids)))
  <2>1. ids \in Seq(DOMAIN cb)
    BY Objects, VectorNames
  <2>2. i = 0 \/ i \in Nat \ {0}
    BY <1>14, <2>1
  <2>3. /\ Then("fds") \/ (i # 0 /\ Calls(ids[i], i, "timers"))
        /\ signum' = signum
    BY <1>15 DEF CallTimer
  <2> HIDE DEF ids, i
  <2>4. QED
    BY <1>1, <1>8, <1>9, <2>2, <2>3
<1>16. CASE CallFd
  <2> DEFINE i == FirstOf(arr, Unmarked(ready))
  <2>1. arr \in Seq(DOMAIN cb)
    BY DEF TypeOK
  <2>2. i = 0 \/ i \in Nat \ {0}
    BY <1>14, <2>1
  <2>3. /\ Then("purge") \/ (i # 0 /\ Calls(arr[i], i, "fds"))
        /\ signum' = signum
    BY <1>16 DEF CallFd
  <2> HIDE DEF i
  <2>4. QED
    BY <1>1, <1>8, <1>9, <2>2, <2>3
<1>17. CASE Return
  <2>1. \E rtn \in {0, 1} :
          IF rtn # 0 THEN LeaveRun
          ELSE ndx' \in {ndx, ndx + 1} /\ cur' = 0 /\ signum' = signum
    BY <1>17, Zenon DEF Return
  <2>2. CASE LeaveRun
    BY <2>2 DEF LeaveRun
  <2>3. CASE ndx' \in {ndx, ndx + 1} /\ cur' = 0 /\ signum' = signum
    BY <1>1, <2>3
  <2>4. QED
    BY <2>1, <2>2, <2>3
<1>18. CASE Purge
  BY <1>2, <1>18 DEF Purge
<1>19. QED
  BY <1>4, <1>5, <1>6, <1>7, <1>10, <1>11, <1>12, <1>13, <1>15, <1>16, <1>17, <1>18 DEF Next

\* The time-out of poll(): for ever only if there is no timer.
LEMMA PollTyped ==
  ASSUME TypeOK, KeyInv, FiledInv, CaughtInv, MarkedInv, RunInv, [Next]_vars
  PROVE  /\ poll_ms' \in Int /\ poll_ms' >= -1
         /\ poll_ms' = -1 => vec'[Main][TimerVec] = <<>> \/ pc'[Main] # "poll"
<1>1. /\ poll_ms \in Int /\ poll_ms >= -1 /\ now \in Nat
      /\ poll_ms = -1 => vec[Main][TimerVec] = <<>> \/ pc[Main] # "poll"
      /\ DOMAIN pc = Threads /\ Main \in Threads /\ TimerVec \in Vectors
      /\ vec \in [Threads -> [Vectors -> Seq(DOMAIN cb)]]
      /\ \A id \in DOMAIN cb : cb[id].due \in Int
  <2>1. /\ poll_ms \in Int /\ poll_ms >= -1
        /\ poll_ms = -1 => vec[Main][TimerVec] = <<>> \/ pc[Main] # "poll"
    BY DEF TypeOK
  <2>2. now \in Nat
    BY BoundsAssumption DEF TypeOK
  <2>3. \A id \in DOMAIN cb : cb[id].due \in Int
    BY Objects DEF Callbacks
  <2>4. DOMAIN pc = Threads /\ vec \in [Threads -> [Vectors -> Seq(DOMAIN cb)]]
    BY DEF TypeOK
  <2>5. QED
    BY <2>1, <2>2, <2>3, <2>4, VectorNames
<1>2. CASE poll_ms' \in {poll_ms, 0} /\ pc'[Main] # "poll"
  BY <1>1, <1>2
<1>3. CASE /\ poll_ms' = poll_ms /\ pc'[Main] = pc[Main]
           /\ vec'[Main][TimerVec] = vec[Main][TimerVec]
  BY <1>1, <1>3
<1>4. CASE StartRound
  <2>1. PICK fds \in Sorted(vec[Main][FdVec], LastActivity),
             timers \in Timers(vec[Main][TimerVec]) :
          /\ vec' = [vec EXCEPT ![Main][FdVec] = fds, ![Main][TimerVec] = timers]
          /\ poll_ms' = PollMs(timers)
    BY <1>4 DEF StartRound
  <2>2. timers \in Seq(DOMAIN cb)
    BY <1>1, SortedSeq DEF Timers
  <2>3. vec'[Main][TimerVec] = timers
    BY <1>1, <2>1
  <2>4. CASE timers = <<>>
    BY <2>1, <2>3, <2>4 DEF PollMs
  <2>5. CASE timers # <<>>
    <3>1. Head(timers) \in DOMAIN cb
      BY <2>2, <2>5
    <3>2. poll_ms' \in Nat
      BY <1>1, <2>1, <2>5, <3>1 DEF PollMs
    <3>3. QED
      BY <3>2
  <2>6. QED
    BY <2>4, <2>5
<1>5. CASE Outside \/ Cleanup \/ TestReleased \/ Awake \/ Callback
  BY <1>1, <1>2, <1>5 DEF Outside, Cleanup, TestReleased, Awake, Callback, Register, UnregisterKey,
                          Goto, runVars
<1>6. CASE \E w \in Workers : Spawn(w)
  BY <1>1, <1>2, <1>6 DEF Spawn, runVars
<1>7. CASE \E w \in Workers : WorkerStarts(w) \/ Release(w)
  <2>1. PICK w \in Workers : WorkerStarts(w) \/ Release(w)
    BY <1>7
  <2>2. UNCHANGED <<objVars, runVars>> /\ w # Main
    BY <2>1, WorkersAssumption DEF WorkerStarts, Release, Register
  <2>3. \E s : Goto(w, s)
    BY <2>1 DEF WorkerStarts, Release, Register
  <2>4. QED
    BY <1>3, <2>2, <2>3 DEF Goto, objVars, runVars
<1>8. CASE Arrives \/ UNCHANGED vars
  BY <1>3, <1>8 DEF Arrives, objVars, runVars, vars
<1>9. ASSUME NEW t \in Threads, Store(t)
      PROVE  /\ poll_ms' \in Int /\ poll_ms' >= -1
             /\ poll_ms' = -1 => vec'[Main][TimerVec] = <<>> \/ pc'[Main] # "poll"
  <2>1. poll_ms' = poll_ms /\ pc[t] = "store" /\ Goto(t, then[t])
    BY <1>9 DEF Store, runVars
  <2>2. CASE t = Main
    <3>1. then[Main] \in {"idle", "return"}
      BY <2>1, <2>2 DEF KeyInv, TurnInv
    <3>2. QED
      BY <1>1, <1>2, <2>1, <2>2, <3>1 DEF Goto
  <2>3. CASE t # Main
    <3>1. vec' = [vec EXCEPT ![t][VecOf(spec[t])] = Append(@, Len(cb) + 1)]
      BY <1>9 DEF Store
    <3>2. vec'[Main] = vec[Main]
      BY <1>1, <2>3, <3>1
    <3>3. QED
      BY <1>1, <1>3, <2>1, <2>3, <3>2 DEF Goto
  <2>4. QED
    BY <2>2, <2>3
<1>10. CASE PollReturns \/ ServeSignal \/ CallSignal \/ Drain \/ CallVSignal \/ CallTimer \/ CallFd
  <2>1. poll_ms' = poll_ms
    BY <1>10 DEF PollReturns, ServeSignal, CallSignal, Drain, CallVSignal, CallTimer, CallFd
  <2>2. \E s : s # "poll" /\ Goto(Main, s)
    BY <1>10 DEF PollReturns, ServeSignal, CallSignal, Drain, CallVSignal, CallTimer, CallFd, Calls,
                 Then
  <2>3. QED
    BY <1>1, <1>2, <2>1, <2>2 DEF Goto
<1>11. CASE Return
  <2>1. \E rtn \in {0, 1} : IF rtn # 0 THEN LeaveRun ELSE Goto(Main, phase) /\ poll_ms' = poll_ms
    BY <1>11, Zenon DEF Return
  <2>2. phase # "poll"
    BY DEF TypeOK
  <2>3. QED
    BY <1>1, <1>2, <2>1, <2>2 DEF LeaveRun, Goto
<1>12. CASE Purge
  BY <1>12 DEF Purge
<1>13. QED
  BY <1>4, <1>5, <1>6, <1>7, <1>8, <1>9, <1>10, <1>11, <1>12 DEF Next

LEMMA TypeKept ==
  ASSUME Inv, [Next]_vars
  PROVE  TypeOK'
<1> USE DEF Inv
<1>1. /\ cb' \in Seq(Callbacks) /\ key_map' \in [Threads -> SUBSET DOMAIN cb']
      /\ vec' \in [Threads -> [Vectors -> Seq(DOMAIN cb')]]
  BY FiledKept DEF Filed, ObjTypes
<1>2. /\ keySrc' = Len(cb') /\ loaded' \in [Threads -> 0 .. Len(cb')]
      /\ pc' \in [Threads -> Pcs] /\ then' \in [Threads -> Pcs]
      /\ spec' \in [Threads -> AllSpecs \cup {None}]
  BY RegKept DEF RegTypes
<1>3. WorldTypes'
  BY WorldTyped
<1>4. DOMAIN cb \subseteq DOMAIN cb'
  BY ObjectsGrow
<1>5. /\ deleted_vec' \in Seq(DOMAIN cb') /\ hits' \in Seq(DOMAIN cb') /\ arr' \in Seq(DOMAIN cb')
      /\ ready' \subseteq ToSet(arr') /\ unregistered' \subseteq DOMAIN cb'
  BY <1>4, ListsKept, ServedTyped, SeqMonotonic
<1>6. Rest' /\ key_map'[Main] \subseteq DOMAIN cb'
  BY <1>1, RestKept, VectorNames DEF Rest
<1>7. cur' \in {0} \cup DOMAIN cb' /\ ndx' \in Nat \ {0} /\ signum' \in Nat \ {0}
  <2>1. InCallback' => cur' \in key_map'[Main]
    BY <1>6 DEF Rest, RunInv
  <2>2. cur \in {0} \cup DOMAIN cb
    BY DEF TypeOK
  <2>3. QED
    BY <1>4, <1>6, <2>1, <2>2, LoopTyped
<1>8. phase' \in {"none", "signal", "vsig", "timers", "fds"}
  BY Consecution DEF KeyInv, TurnInv, Phases
<1>9. owed' \subseteq DOMAIN cb' /\ late' \subseteq Types
  BY <1>6 DEF Rest, OwedInv, CalledWhileRegistered, Types
<1>10. /\ poll_ms' \in Int /\ poll_ms' >= -1
       /\ poll_ms' = -1 => vec'[Main][TimerVec] = <<>> \/ pc'[Main] # "poll"
  BY PollTyped
<1>11. /\ caught' \subseteq ToSet(Signals) /\ raised' \subseteq ToSet(Signals)
       /\ mq' \in Seq(Vsigs) /\ created' \subseteq Workers
       /\ condMtx' \in BOOLEAN /\ release_parent' \in BOOLEAN /\ processing' \in BOOLEAN
       /\ now' \in 0 .. MaxTime /\ time_ms' \in 0 .. MaxTime /\ events' \in 0 .. MaxEvents
  BY <1>3 DEF WorldTypes
<1> HIDE DEF Inv
<1>12. QED
  BY <1>1, <1>2, <1>5, <1>7, <1>8, <1>9, <1>10, <1>11 DEF TypeOK

---------------------------------------------------------------------------
(* Every step keeps what holds, and what it means.                         *)

LEMMA InitInv ==
  ASSUME Init
  PROVE  Inv
<1>1. \A t \in Threads, slot \in Vectors : vec[t][slot] = <<>> /\ ToSet(vec[t][slot]) = {}
  BY DEF Init, NoVec, ToSet
<1>2. /\ cb = <<>> /\ key_map = [t \in Threads |-> {}] /\ vec = [t \in Threads |-> NoVec]
      /\ DOMAIN cb = {} /\ Len(cb) = 0
      /\ deleted_vec = <<>> /\ hits = <<>> /\ arr = <<>> /\ ready = {} /\ ~processing
      /\ unregistered = {} /\ owed = {} /\ late = {} /\ pc[Main] = "idle"
      /\ Main \in Threads
      /\ \A t \in Threads : pc[t] # "store"
  BY VectorNames DEF Init
<1>3. TypeOK
  <2>1. /\ cb \in Seq(Callbacks) /\ key_map \in [Threads -> SUBSET DOMAIN cb]
        /\ vec \in [Threads -> [Vectors -> Seq(DOMAIN cb)]]
    BY <1>2 DEF NoVec
  <2>2. /\ keySrc = Len(cb) /\ loaded \in [Threads -> 0 .. Len(cb)]
        /\ pc \in [Threads -> Pcs] /\ then \in [Threads -> Pcs]
        /\ spec \in [Threads -> AllSpecs \cup {None}]
    BY <1>2 DEF Init, Pcs
  <2>3. /\ caught \subseteq ToSet(Signals) /\ raised \subseteq ToSet(Signals)
        /\ mq \in Seq(Vsigs) /\ created \subseteq Workers
        /\ condMtx \in BOOLEAN /\ release_parent \in BOOLEAN /\ processing \in BOOLEAN
        /\ now \in 0 .. MaxTime /\ time_ms \in 0 .. MaxTime /\ events \in 0 .. MaxEvents
    <3>1. now = 0 /\ time_ms = 0 /\ events = 0
      BY DEF Init
    <3>2. condMtx \in BOOLEAN /\ release_parent \in BOOLEAN /\ processing \in BOOLEAN
      BY DEF Init
    <3>3. caught = {} /\ raised = {} /\ mq = <<>> /\ created = {}
      BY DEF Init
    <3>4. QED
      BY <3>1, <3>2, <3>3, BoundsAssumption
  <2>4. /\ deleted_vec \in Seq(DOMAIN cb) /\ hits \in Seq(DOMAIN cb) /\ arr \in Seq(DOMAIN cb)
        /\ ready \subseteq ToSet(arr) /\ unregistered \subseteq DOMAIN cb
        /\ owed \subseteq DOMAIN cb /\ late \subseteq Types
    BY <1>2
  <2>5. /\ cur \in {0} \cup DOMAIN cb /\ phase \in {"none", "signal", "vsig", "timers", "fds"}
        /\ ndx \in Nat \ {0} /\ signum \in Nat \ {0} /\ poll_ms = 0
    BY DEF Init
  <2>6. QED
    BY <2>1, <2>2, <2>3, <2>4, <2>5 DEF TypeOK
<1>4. KeyInv
  BY Initial
<1>5. FiledInv
  BY <1>1, <1>2 DEF FiledInv, IsInjective
<1>6. CaughtInv /\ MarkedInv
  BY <1>2 DEF CaughtInv, MarkedInv, IsInjective, ToSet
<1>7. ~InRun /\ ~InCallback /\ ~FdsServed /\ \A s \in {"vsig", "signal", "fds"} : ~Serves(s)
  BY <1>2 DEF InRun, InCallback, FdsServed, Serves
<1>8. RunInv
  BY <1>2, <1>7 DEF RunInv, ToSet
<1>9. TimersInOrder
  BY <1>1, <1>2, VectorNames DEF TimersInOrder
<1>10. OwedInv
  BY <1>2, <1>7, <1>9 DEF OwedInv
<1>11. CalledWhileRegistered
  BY <1>2 DEF CalledWhileRegistered
<1>12. QED
  BY <1>3, <1>4, <1>5, <1>6, <1>8, <1>10, <1>11 DEF Inv

LEMMA InvKept ==
  ASSUME Inv, [Next]_vars
  PROVE  Inv'
<1>1. TypeOK /\ KeyInv /\ FiledInv /\ CaughtInv /\ MarkedInv /\ RunInv /\ Rest
  BY DEF Inv, Rest
<1>2. TypeOK'
  BY TypeKept
<1>3. KeyInv'
  BY <1>1, Consecution
<1>4. FiledInv' /\ Caught'
  BY <1>1, FiledKept DEF Filed
<1>5. CaughtInv'
  <2>1. \A t \in Threads : pc'[t] = "store" => spec'[t] \in OwnSpecs(t)
    BY <1>1, RegKept
  <2>2. QED
    BY <1>4, <2>1 DEF CaughtInv, Caught
<1>6. Rest'
  BY <1>1, RestKept
<1>7. QED
  BY <1>2, <1>3, <1>4, <1>5, <1>6 DEF Inv, Rest

LEMMA InvHolds == Spec => []Inv
<1>1. Inv /\ [Next]_vars => Inv'
  BY InvKept
<1>2. QED
  BY InitInv, <1>1, PTL DEF Spec

\* Of any program that registers and unregisters with the event server: objects, maps
\* and vectors have the types ES_run() expects, the counter of keys is the number of
\* registrations, and poll() waits for ever only if there is no timer.
THEOREM TypeCorrect == Spec => []TypeOK
<1>1. Inv => TypeOK
  BY DEF Inv
<1>2. QED
  BY InvHolds, <1>1, PTL

\* However many callbacks are registered, marked by ES_unregister() and purged, in and
\* out of ES_run(): maps, vectors, the list of what is to be removed and the handlers
\* that are installed agree.
THEOREM FiledCorrect == Spec => []FiledOnce
<1>1. Inv => FiledOnce
  BY DEF Inv, FiledInv, CaughtInv, MarkedInv, FiledOnce
<1>2. QED
  BY InvHolds, <1>1, PTL

\* Only callbacks of virtual signals are ever called after ES_unregister().
THEOREM CalledCorrect == Spec => []CalledWhileRegistered
<1>1. Inv => CalledWhileRegistered
  BY DEF Inv
<1>2. QED
  BY InvHolds, <1>1, PTL

\* A round of ES_run() that no callback ends calls every timer that was registered
\* before it and is due when timers are served, and every file descriptor that was
\* ready, whatever callbacks register and unregister.
THEOREM ServedCorrect == Spec => []EveryoneServed
<1>1. ASSUME Inv PROVE EveryoneServed
  <2>1. SUFFICES ASSUME pc[Main] = "purge", NEW id \in owed
                 PROVE  cb[id].type = "timer" /\ ~IsDue(id)
    BY DEF EveryoneServed
  <2>2. id \notin ready
    BY <1>1, <2>1 DEF Inv, OwedInv
  <2>3. VecOf(cb[id]) = TimerVec /\ id \in ToSet(vec[Main][TimerVec])
    BY <1>1, <2>2, OwedKinds DEF Inv
  <2>4. cb[id].type = "timer"
    BY <2>3 DEF VecOf, TimerVec
  <2>5. ~IsDue(id)
    BY <1>1, <2>1, <2>3 DEF Inv, OwedInv, FdsServed
  <2>6. QED
    BY <2>4, <2>5
<1>2. QED
  BY InvHolds, <1>1, PTL
=============================================================================
