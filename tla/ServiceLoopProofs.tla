-------------------------- MODULE ServiceLoopProofs --------------------------
(***************************************************************************)
(* What holds of the service and its cache for every set of addresses and  *)
(* configurations, every length of the logs and any number of events.      *)
(***************************************************************************)
EXTENDS ServiceLoop, SequenceTheorems, FiniteSetTheorems, WellFoundedInduction, TLAPS

---------------------------------------------------------------------------
(* The cache holds what the contents of the logs say.                      *)

\* What a run has in hand for the cache file it is about to write.
HandInv ==
  /\ pc \in {"write", "close"} => /\ file.counts = Offenses(targets, file.content)
                                  /\ file.content = sumStr \/ Key \in raced
  /\ pc = "close" => Key \in DOMAIN cache

CacheInv == CacheTrue /\ HandInv

\* A true file stays true if nobody changes it or the data base it relies on.
LEMMA TrueKept ==
  ASSUME NEW k, FileTrue(k), cache'[k] = cache[k],
         \/ k \in cut' \ DOMAIN dbs'
         \/ /\ k \in cut => k \in cut'
            /\ k \in DOMAIN dbs <=> k \in DOMAIN dbs'
            /\ k \in DOMAIN dbs => dbs'[k] = dbs[k]
  PROVE  FileTrue(k)'
BY DEF FileTrue, DbTrue, CacheFile, Offenses, Lines

\* A run that does not write leaves a true cache true.
LEMMA CacheKept ==
  ASSUME CacheInv, UNCHANGED <<cache, dbs, cut, raced>>,
         pc # "close", pc' \notin {"write", "close"}
  PROVE  CacheInv'
<1>1. ASSUME NEW k \in DOMAIN cache' \ raced' PROVE FileTrue(k)'
  <2>1. FileTrue(k)
    BY DEF CacheInv, CacheTrue
  <2>2. QED
    BY <2>1, TrueKept
<1>2. QED
  BY <1>1 DEF CacheInv, CacheTrue, HandInv

\* What happens to the logs, the configuration and the script is none of its business.
LEMMA CacheUntouched ==
  ASSUME CacheInv, UNCHANGED <<cache, dbs, cut, raced, pc, targets, sumStr, file>>
  PROVE  CacheInv'
<1>1. Key' = Key
  BY DEF Key
<1>2. ASSUME NEW k \in DOMAIN cache' \ raced' PROVE FileTrue(k)' \/ (k = Key' /\ pc' = "close")
  <2>1. FileTrue(k) \/ (k = Key /\ pc = "close")
    BY DEF CacheInv, CacheTrue
  <2>2. QED
    BY <1>1, <2>1, TrueKept
<1>3. CacheTrue'
  BY <1>2 DEF CacheTrue
<1>4. QED
  BY <1>1, <1>3 DEF CacheInv, HandInv, Offenses, Lines

LEMMA StartKeepsCache ==
  ASSUME CacheInv, NEW c, NEW a, ReadConfig(c) \/ Lock(c, a)
  PROVE  CacheInv'
<1>1. CASE ReadConfig(c)
  BY <1>1, CacheUntouched DEF ReadConfig, cacheVars, runVars
<1>2. CASE Lock(c, a)
  <2>1. pc = "idle" /\ pc' \in {"dir", "flush"} /\ UNCHANGED <<cache, dbs, cut, raced>>
    BY <1>2 DEF Lock, Goto, cacheVars
  <2>2. QED
    BY <2>1, CacheKept
<1>3. QED
  BY <1>1, <1>2

LEMMA ScanKeepsCache ==
  ASSUME CacheInv, Scan
  PROVE  CacheInv'
<1> DEFINE content == logs[Head(fname_vec)]
<1>1. /\ UNCHANGED <<cache, dbs, cut, targets, sumStr>> /\ pc = "look"
      /\ pc' \in {"write", "aborted"} /\ Key \notin DOMAIN cache
      /\ pc' = "aborted" => raced' = raced
  BY DEF Scan, Goto
<1>2. CASE pc' = "aborted"
  BY <1>1, <1>2, CacheKept
<1>3. CASE pc' = "write"
  <2>1. /\ file'.counts = Offenses(targets, content) /\ file'.content = content
        /\ raced' = IF content = sumStr THEN raced \ {Key} ELSE raced \cup {Key}
    BY <1>3 DEF Scan, Goto, Found
  <2> HIDE DEF content
  <2>2. HandInv'
    <3>1. Key' = Key
      BY <1>1 DEF Key
    <3>2. content = sumStr \/ Key \in raced'
      BY <2>1
    <3>3. file'.counts = Offenses(targets', file'.content)
      BY <1>1, <2>1 DEF Offenses, Lines
    <3>4. QED
      BY <1>1, <1>3, <2>1, <3>1, <3>2, <3>3 DEF HandInv, Offenses, Lines
  <2>3. ASSUME NEW k \in DOMAIN cache' \ raced' PROVE FileTrue(k)'
    <3>1. k \in DOMAIN cache \ raced
      BY <1>1, <2>1
    <3>2. FileTrue(k)
      BY <1>1, <3>1 DEF CacheInv, CacheTrue
    <3>3. QED
      BY <1>1, <3>2, TrueKept
  <2>4. QED
    BY <2>2, <2>3 DEF CacheInv, CacheTrue
<1>4. QED
  BY <1>1, <1>2, <1>3

\* What the data bases of other files have, nobody changes who writes one.
LEMMA PutIs ==
  ASSUME NEW as, Put(as)
  PROVE  /\ DOMAIN dbs' = {Key} \cup DOMAIN dbs
         /\ \A k \in DOMAIN dbs \ {Key} : dbs'[k] = dbs[k]
         /\ \A a \in Addrs \cap as : dbs'[Key][a] = file.content
         /\ \A a \in Addrs \ as :
              dbs'[Key][a] = IF Key \in DOMAIN dbs THEN dbs[Key][a] ELSE Gone
         /\ DOMAIN dbs'[Key] = Addrs
<1> DEFINE old == IF Key \in DOMAIN dbs THEN dbs[Key] ELSE [a \in Addrs |-> Gone]
           key == Key
           v == [a \in Addrs |-> IF a \in as THEN file.content ELSE old[a]]
<1>1. dbs' = With(dbs, key, v)
  BY DEF Put
<1>2. /\ DOMAIN v = Addrs /\ \A a \in Addrs \cap as : v[a] = file.content
      /\ \A a \in Addrs \ as : v[a] = IF Key \in DOMAIN dbs THEN dbs[Key][a] ELSE Gone
  OBVIOUS
<1> HIDE DEF key, v
<1>3. /\ DOMAIN dbs' = {key} \cup DOMAIN dbs /\ dbs'[key] = v
      /\ \A k \in DOMAIN dbs \ {key} : dbs'[k] = dbs[k]
  BY <1>1 DEF With
<1>4. QED
  BY <1>2, <1>3 DEF key

LEMMA WriteKeepsCache ==
  ASSUME CacheInv, OpenCache \/ CloseCache
  PROVE  CacheInv'
<1>1. CASE OpenCache
  <2> DEFINE key == Key
  <2>1. /\ pc = "write" /\ pc' = "close" /\ UNCHANGED <<raced, cut, dbs, targets, sumStr, file>>
        /\ cache' = With(cache, key, CacheFile(None))
    BY <1>1 DEF OpenCache, Goto, runVars
  <2>2. Key' = Key
    BY <2>1 DEF Key
  <2> HIDE DEF key
  <2>3. /\ DOMAIN cache' = {key} \cup DOMAIN cache
        /\ \A k \in DOMAIN cache \ {key} : cache'[k] = cache[k]
    BY <2>1 DEF With
  <2>4. ASSUME NEW k \in DOMAIN cache' \ raced', k # key PROVE FileTrue(k)'
    <3>1. FileTrue(k)
      BY <2>1, <2>3, <2>4 DEF CacheInv, CacheTrue
    <3>2. QED
      BY <2>1, <2>3, <2>4, <3>1, TrueKept
  <2>5. CacheTrue'
    BY <2>1, <2>2, <2>4 DEF CacheTrue, key
  <2>6. HandInv'
    BY <2>1, <2>2, <2>3 DEF CacheInv, HandInv, Offenses, Lines, key
  <2>7. QED
    BY <2>5, <2>6 DEF CacheInv
<1>2. CASE CloseCache
  <2> DEFINE key == Key
  <2>1. /\ pc = "close" /\ pc' = "add" /\ UNCHANGED <<raced, cut, targets, sumStr, file>>
        /\ cache' = With(cache, key, CacheFile(file.counts))
        /\ IF Offenders = {} THEN UNCHANGED dbs ELSE Put(Offenders)
    BY <1>2 DEF CloseCache, Goto, runVars
  <2>2. /\ file.counts = Offenses(key[1], file.content)
        /\ file.content = key[2] \/ key \in raced
    BY <2>1 DEF CacheInv, HandInv, Key
  <2>3. /\ DOMAIN dbs' \cup {key} = DOMAIN dbs \cup {key}
        /\ \A k \in DOMAIN dbs \ {key} : dbs'[k] = dbs[k]
        /\ \A a \in Addrs \cap Offenders : key \in DOMAIN dbs' /\ dbs'[key][a] = file.content
    BY <2>1, PutIs
  <2> HIDE DEF key
  <2>4. /\ DOMAIN cache' = {key} \cup DOMAIN cache /\ cache'[key] = CacheFile(file.counts)
        /\ \A k \in DOMAIN cache \ {key} : cache'[k] = cache[k]
    BY <2>1 DEF With
  <2>5. ASSUME NEW k \in DOMAIN cache' \ raced' PROVE FileTrue(k)'
    <3>1. CASE k # key
      <4>1. FileTrue(k)
        BY <2>1, <2>4, <3>1 DEF CacheInv, CacheTrue, key
      <4>2. QED
        BY <2>1, <2>3, <2>4, <3>1, <4>1, TrueKept
    <3>2. CASE k = key
      <4>1. file.content = key[2] /\ cache'[key] = CacheFile(Offenses(key[1], key[2]))
        BY <2>1, <2>2, <2>4, <3>2
      <4>2. \A a \in Addrs : cache'[key].counts[a] > 0 => a \in Addrs \cap Offenders
        BY <2>4 DEF CacheFile, Offenders
      <4>3. \A a \in Addrs : cache'[key].counts[a] > 0 => key \in DOMAIN dbs' /\ dbs'[key][a] = key[2]
        BY <2>3, <4>1, <4>2
      <4>4. DbTrue(key)'
        BY <2>1, <4>3 DEF DbTrue, key, Key
      <4>5. FileTrue(key)'
        BY <2>1, <4>1, <4>4 DEF FileTrue, CacheFile, Offenses, Lines, key, Key
      <4>6. QED
        BY <2>1, <3>2, <4>5 DEF key, Key
    <3>3. QED
      BY <3>1, <3>2
  <2>6. QED
    BY <2>1, <2>5 DEF CacheInv, CacheTrue, HandInv
<1>3. QED
  BY <1>1, <1>2

\* One file less.
LEMMA RestrictIs ==
  ASSUME NEW f, NEW k
  PROVE  /\ DOMAIN Restrict(f, DOMAIN f \ {k}) = DOMAIN f \ {k}
         /\ \A j \in DOMAIN f \ {k} : Restrict(f, DOMAIN f \ {k})[j] = f[j]
BY DEF Restrict

\* What is removed is true no longer, and what loses its data base is known.
LEMMA UnlinkKeepsCache ==
  ASSUME CacheInv, NEW k, UnlinkCache(k) \/ UnlinkDb(k)
  PROVE  CacheInv'
<1>1. pc \in {"flush", "clean", "others"} /\ pc' = pc /\ raced' = raced
  BY DEF UnlinkCache, UnlinkDb, Unwanted
<1>2. CASE UnlinkCache(k)
  <2>1. /\ DOMAIN cache' = DOMAIN cache \ {k} /\ \A j \in DOMAIN cache' : cache'[j] = cache[j]
        /\ cut' = cut \ {k} /\ dbs' = dbs
    BY <1>2, RestrictIs DEF UnlinkCache
  <2>2. ASSUME NEW j \in DOMAIN cache' \ raced' PROVE FileTrue(j)'
    <3>1. FileTrue(j) /\ j # k
      BY <1>1, <2>1 DEF CacheInv, CacheTrue
    <3>2. QED
      BY <2>1, <3>1, TrueKept
  <2>3. QED
    BY <1>1, <2>2 DEF CacheInv, CacheTrue, HandInv
<1>3. CASE UnlinkDb(k)
  <2>1. /\ DOMAIN dbs' = DOMAIN dbs \ {k} /\ \A j \in DOMAIN dbs' : dbs'[j] = dbs[j]
        /\ cut' = cut \cup ({k} \cap DOMAIN cache) /\ cache' = cache
    BY <1>3, RestrictIs DEF UnlinkDb
  <2>2. ASSUME NEW j \in DOMAIN cache' \ raced' PROVE FileTrue(j)'
    <3>1. FileTrue(j)
      BY <1>1, <2>1 DEF CacheInv, CacheTrue
    <3>2. j = k => j \in cut' \ DOMAIN dbs'
      BY <2>1
    <3>3. QED
      BY <2>1, <3>1, <3>2, TrueKept
  <2>3. QED
    BY <1>1, <2>2 DEF CacheInv, CacheTrue, HandInv
<1>4. QED
  BY <1>2, <1>3

LEMMA RunKeepsCache ==
  ASSUME CacheInv, RunStep
  PROVE  CacheInv'
<1>1. CASE ReadDir \/ Checksum \/ Load \/ AddFile \/ CleanUp \/ Removed
  <2>1. UNCHANGED <<cache, dbs, cut, raced>> /\ pc # "close" /\ pc' \notin {"write", "close"}
    BY <1>1 DEF ReadDir, Checksum, Load, AddFile, CleanUp, Removed, Goto, cacheVars
  <2>2. QED
    BY <2>1, CacheKept
<1>2. CASE \E d \in cacheDirs : Rmdir(d)
  BY <1>2, CacheUntouched DEF Rmdir, runVars
<1>3. QED
  BY <1>1, <1>2, ScanKeepsCache, WriteKeepsCache, UnlinkKeepsCache DEF RunStep

LEMMA KillKeepsCache ==
  ASSUME CacheInv, Killed
  PROVE  CacheInv'
<1>1. pc' = "idle" /\ cut' = cut
  BY DEF Killed, Forgotten, Goto
<1>2. CASE pc = "close"
  <2> DEFINE key == Key
  <2>1. PICK part : cache' = With(cache, key, part)
    BY <1>2 DEF Killed
  <2>2. raced' = raced \cup {key} /\ (UNCHANGED dbs \/ \E as \in SUBSET Offenders : Put(as))
    BY <1>2 DEF Killed
  <2>3. /\ DOMAIN dbs' \cup {key} = DOMAIN dbs \cup {key}
        /\ \A k \in DOMAIN dbs \ {key} : dbs'[k] = dbs[k]
    BY <2>2, PutIs
  <2> HIDE DEF key
  <2>4. /\ DOMAIN cache' = {key} \cup DOMAIN cache
        /\ \A k \in DOMAIN cache \ {key} : cache'[k] = cache[k]
    BY <2>1 DEF With
  <2>5. ASSUME NEW k \in DOMAIN cache' \ raced' PROVE FileTrue(k)'
    <3>1. FileTrue(k) /\ k # key
      BY <2>2, <2>4 DEF CacheInv, CacheTrue, key
    <3>2. QED
      BY <1>1, <2>3, <2>4, <3>1, TrueKept
  <2>6. QED
    BY <1>1, <2>5 DEF CacheInv, CacheTrue, HandInv
<1>3. CASE pc # "close"
  BY <1>1, <1>3, CacheKept DEF Killed
<1>4. QED
  BY <1>2, <1>3

LEMMA CacheHolds == Spec => []CacheInv
<1>1. Init => CacheInv
  <2> SUFFICES ASSUME Init PROVE CacheInv
    OBVIOUS
  <2>1. DOMAIN cache = {} /\ pc = "idle"
    BY DEF Init, LogCacheInit
  <2>2. QED
    BY <2>1 DEF CacheInv, CacheTrue, HandInv
<1>2. CacheInv /\ [Next]_vars => CacheInv'
  <2> SUFFICES ASSUME CacheInv, [Next]_vars PROVE CacheInv'
    OBVIOUS
  <2>1. CASE FirstRun \/ NextRun \/ WorldAsks \/ WorldLocks
    BY <2>1, StartKeepsCache DEF FirstRun, NextRun, Begins, WorldAsks, WorldLocks
  <2>2. CASE Works
    BY <2>2, StartKeepsCache, RunKeepsCache DEF Works
  <2>3. CASE RunEnds
    <3>1. /\ UNCHANGED <<cache, dbs, cut, raced>> /\ pc # "close" /\ pc' = "idle"
      BY <2>3 DEF RunEnds, Exit, Forgotten, Goto, cacheVars
    <3>2. QED
      BY <3>1, CacheKept
  <2>4. CASE Launch \/ ReadEvent \/ Again
    BY <2>4, CacheUntouched
    DEF Launch, ReadEvent, Again, logCacheVars, cacheVars, runVars
  <2>5. CASE \/ \E a \in Addrs, n \in LogNames : WorldWrites(n, a)
             \/ WorldMoves \/ WorldCreates
             \/ \E p \in Patterns : WorldConfigures(p)
             \/ \E c \in Callers : WorldKillsWaiting(c)
    BY <2>5, CacheUntouched
    DEF WorldWrites, WorldMoves, WorldCreates, WorldConfigures, WorldKillsWaiting,
        Written, Moved, Created, Configured, KilledWaiting, cacheVars, runVars
  <2>6. CASE WorldKills
    BY <2>6, KillKeepsCache DEF WorldKills
  <2>7. CASE UNCHANGED vars
    BY <2>7, CacheUntouched DEF vars, logCacheVars, cacheVars, runVars
  <2>8. QED
    BY <2>1, <2>2, <2>3, <2>4, <2>5, <2>6, <2>7 DEF Next, Service, World
<1>3. QED
  BY <1>1, <1>2, PTL DEF Spec

\* What a cache file says of an address is what a scan of that content would say,
\* unless the log changed between checksum and scan or the run died writing it.
THEOREM CacheCorrect == Spec => []CacheTrue
<1>1. CacheInv => CacheTrue
  BY DEF CacheInv
<1>2. QED
  BY <1>1, CacheHolds, PTL

---------------------------------------------------------------------------
(* The service watches the log.                                            *)

\* Its own runs are the ones it waits for, and once the watched log has been moved,
\* the pipe says so until the script gives up the watch.
WatchInv ==
  /\ pc # "idle" /\ asked = Gone => sh \in {"wait_first", "wait"} /\ read["service"] = Gone
  /\ read["service"] # Gone => sh \in {"wait_first", "wait"}
  /\ DOMAIN read = Callers
  /\ sh \in {"read", "sleep", "wait"} =>
       watched = "log" \/ \E i \in DOMAIN pipe : pipe[i] = "MOVE_SELF"
  /\ pipe \in Seq({"MODIFY", "MOVE_SELF", "CFG_MODIFY"})

\* A line behind the others leaves them where they were.
LEMMA NotifyKeeps ==
  ASSUME NEW S, NEW s \in Seq(S), NEW op \in S, NEW move
  PROVE  /\ Append(s, op) \in Seq(S)
         /\ (\E i \in DOMAIN s : s[i] = move) => \E i \in DOMAIN Append(s, op) : Append(s, op)[i] = move
         /\ op = move => \E i \in DOMAIN Append(s, op) : Append(s, op)[i] = move
<1>1. /\ Append(s, op) \in Seq(S)
      /\ Len(Append(s, op)) = Len(s) + 1 /\ Append(s, op)[Len(s) + 1] = op
      /\ \A i \in 1 .. Len(s) : Append(s, op)[i] = s[i]
  BY AppendProperties
<1>2. DOMAIN s = 1 .. Len(s) /\ DOMAIN Append(s, op) = 1 .. Len(s) + 1 /\ Len(s) \in Nat
  BY <1>1, LenProperties
<1>3. DOMAIN s \subseteq DOMAIN Append(s, op) /\ Len(s) + 1 \in DOMAIN Append(s, op)
  BY <1>2
<1>4. QED
  BY <1>1, <1>2, <1>3

\* Nor does reading the first line take another away.
LEMMA ReadKeeps ==
  ASSUME NEW S, NEW s \in Seq(S), s # <<>>, NEW move
  PROVE  /\ Tail(s) \in Seq(S)
         /\ Head(s) # move /\ (\E i \in DOMAIN s : s[i] = move) =>
              \E i \in DOMAIN Tail(s) : Tail(s)[i] = move
<1>1. /\ Tail(s) \in Seq(S) /\ Len(Tail(s)) = Len(s) - 1 /\ Head(s) = s[1]
      /\ \A i \in 1 .. Len(s) - 1 : Tail(s)[i] = s[i + 1]
  BY HeadTailProperties
<1>2. DOMAIN s = 1 .. Len(s) /\ DOMAIN Tail(s) = 1 .. Len(s) - 1 /\ Len(s) \in Nat
  BY <1>1, LenProperties
<1>3. ASSUME Head(s) # move, NEW i \in DOMAIN s, s[i] = move
      PROVE  \E j \in DOMAIN Tail(s) : Tail(s)[j] = move
  <2>1. i \in 1 .. Len(s) /\ i # 1
    BY <1>1, <1>2, <1>3
  <2>2. i - 1 \in 1 .. Len(s) - 1 /\ (i - 1) + 1 = i
    BY <1>2, <2>1
  <2>3. QED
    BY <1>1, <1>2, <1>3, <2>2
<1>4. QED
  BY <1>1, <1>3

\* Steps of a run in progress.
LEMMA RunKeepsWatch ==
  ASSUME WatchInv, RunStep, UNCHANGED shellVars
  PROVE  WatchInv'
<1>1. pc # "idle" /\ asked' = asked /\ read' = read
  BY DEF RunStep, ReadDir, Checksum, Load, Scan, OpenCache, CloseCache, AddFile, CleanUp,
         UnlinkCache, UnlinkDb, Rmdir, Removed, Unwanted, UnwantedDirs, Goto, runVars
<1>2. QED
  BY <1>1 DEF WatchInv, shellVars

\* A run gets the lock.
LEMMA LockKeepsWatch ==
  ASSUME WatchInv, UNCHANGED shellVars, NEW c, NEW a, Lock(c, a),
         (c = "service" /\ a = Gone) \/ (c = "somebody" /\ a # Gone)
  PROVE  WatchInv'
<1>1. pc = "idle" /\ asked' = a /\ read[c] # Gone /\ read' = [read EXCEPT ![c] = Gone]
  BY DEF Lock
<1>2. QED
  BY <1>1 DEF WatchInv, shellVars, Callers

\* The script goes on after its run, whether it ended or was killed.
LEMMA AfterRunKeepsWatch ==
  ASSUME WatchInv, sh \in {"wait_first", "wait"}, read'["service"] = Gone,
         DOMAIN read' = Callers, pc' # "idle" => asked' # Gone,
         NEW ok \in BOOLEAN, AfterRun(ok), UNCHANGED <<watched, pipe>>
  PROVE  WatchInv'
<1>1. sh' \in {"launch", "read", "pause"} /\ (sh = "wait_first" => sh' = "launch")
  BY DEF AfterRun
<1>2. QED
  BY <1>1 DEF WatchInv

LEMMA AfterKeepsWatch ==
  ASSUME WatchInv, pc # "idle", pc' = "idle", NEW ok \in BOOLEAN, After(ok),
         UNCHANGED <<watched, pipe, read>>
  PROVE  WatchInv'
<1>1. CASE asked # Gone
  BY <1>1 DEF After, WatchInv
<1>2. CASE asked = Gone
  <2>1. sh \in {"wait_first", "wait"} /\ read'["service"] = Gone /\ DOMAIN read' = Callers
    BY <1>2 DEF WatchInv
  <2>2. AfterRun(ok)
    BY <1>2 DEF After
  <2>3. QED
    BY <2>1, <2>2, AfterRunKeepsWatch
<1>3. QED
  BY <1>1, <1>2

LEMMA WatchHolds == Spec => []WatchInv
<1>1. Init => WatchInv
  <2>1. <<>> \in Seq({"MODIFY", "MOVE_SELF", "CFG_MODIFY"})
    BY EmptySeq
  <2>2. QED
    BY <2>1 DEF Init, LogCacheInit, WatchInv, Callers
<1>2. WatchInv /\ [Next]_vars => WatchInv'
  <2> SUFFICES ASSUME WatchInv, [Next]_vars PROVE WatchInv'
    OBVIOUS
  <2> DEFINE Ops == {"MODIFY", "MOVE_SELF", "CFG_MODIFY"}
  <2>1. CASE FirstRun \/ NextRun
    <3>1. /\ UNCHANGED <<pc, asked, watched, pipe>> /\ read' = [read EXCEPT !["service"] = config]
          /\ read["service"] = Gone /\ sh \in {"first", "sleep"}
          /\ sh' = IF sh = "first" THEN "wait_first" ELSE "wait"
      BY <2>1 DEF FirstRun, NextRun, Begins, ReadConfig, runVars
    <3>2. pc = "idle" \/ asked # Gone
      BY <3>1 DEF WatchInv
    <3>3. QED
      BY <3>1, <3>2 DEF WatchInv
  <2>2. CASE WorldAsks
    <3>1. /\ UNCHANGED <<pc, asked, shellVars>>
          /\ read' = [read EXCEPT !["somebody"] = config]
      BY <2>2 DEF WorldAsks, ReadConfig, runVars
    <3>2. QED
      BY <3>1 DEF WatchInv, shellVars
  <2>3. CASE WorldLocks
    BY <2>3, LockKeepsWatch DEF WorldLocks
  <2>4. CASE Works
    BY <2>4, RunKeepsWatch, LockKeepsWatch DEF Works
  <2>5. CASE RunEnds
    <3>1. pc # "idle" /\ pc' = "idle" /\ UNCHANGED <<watched, pipe, read>>
      BY <2>5 DEF RunEnds, Exit, Forgotten, Goto
    <3>2. After(pc = "done")
      BY <2>5 DEF RunEnds
    <3>3. QED
      BY <3>1, <3>2, AfterKeepsWatch
  <2>6. CASE WorldKills
    <3>1. pc # "idle" /\ pc' = "idle" /\ UNCHANGED <<watched, pipe, read>>
      BY <2>6 DEF WorldKills, Killed, Forgotten, Goto
    <3>2. After(FALSE)
      BY <2>6 DEF WorldKills
    <3>3. QED
      BY <3>1, <3>2, AfterKeepsWatch
  <2>16. CASE \E c \in Callers : WorldKillsWaiting(c)
    <3>1. PICK c \in Callers : WorldKillsWaiting(c)
      BY <2>16
    <3>2. /\ UNCHANGED <<pc, asked, watched, pipe>> /\ read[c] # Gone
          /\ read' = [read EXCEPT ![c] = Gone]
      BY <3>1 DEF WorldKillsWaiting, KilledWaiting, runVars
    <3>3. CASE c = "service"
      <4>1. /\ sh \in {"wait_first", "wait"}
            /\ pc' # "idle" => asked' # Gone
            /\ read'["service"] = Gone /\ DOMAIN read' = Callers
        BY <3>2, <3>3 DEF WatchInv
      <4>2. AfterRun(FALSE)
        BY <3>1, <3>3 DEF WorldKillsWaiting
      <4>3. QED
        BY <3>2, <4>1, <4>2, AfterRunKeepsWatch
    <3>4. CASE c # "service"
      <4>1. sh' = sh /\ read'["service"] = read["service"] /\ DOMAIN read' = DOMAIN read
        BY <3>1, <3>2, <3>4 DEF WorldKillsWaiting
      <4>2. QED
        BY <3>2, <4>1 DEF WatchInv
    <3>5. QED
      BY <3>3, <3>4
  <2>7. CASE Launch
    <3>1. UNCHANGED <<pc, asked, pipe, read>> /\ sh = "launch"
      BY <2>7 DEF Launch, logCacheVars, runVars
    <3>2. sh' = "pause" \/ (sh' = "read" /\ watched' = "log")
      BY <2>7 DEF Launch
    <3>3. QED
      BY <3>1, <3>2 DEF WatchInv
  <2>8. CASE ReadEvent
    <3>1. /\ UNCHANGED <<pc, asked, watched, read>> /\ sh = "read" /\ pipe # <<>>
          /\ pipe' = Tail(pipe)
          /\ sh' = IF Breaks(Head(pipe)) THEN "pause" ELSE "sleep"
      BY <2>8 DEF ReadEvent, logCacheVars, runVars
    <3>2. pipe \in Seq(Ops)
      BY DEF WatchInv
    <3> HIDE DEF Ops
    <3>3. /\ Tail(pipe) \in Seq(Ops)
          /\ Head(pipe) # "MOVE_SELF" /\ (\E i \in DOMAIN pipe : pipe[i] = "MOVE_SELF") =>
               \E i \in DOMAIN Tail(pipe) : Tail(pipe)[i] = "MOVE_SELF"
      BY <3>1, <3>2, ReadKeeps
    <3>4. CASE Breaks(Head(pipe))
      BY <3>1, <3>3, <3>4 DEF WatchInv, Ops
    <3>5. CASE ~Breaks(Head(pipe))
      BY <3>1, <3>3, <3>5 DEF WatchInv, Ops, Breaks
    <3>6. QED
      BY <3>4, <3>5
  <2>9. CASE Again
    <3>1. <<>> \in Seq(Ops)
      BY EmptySeq
    <3>2. QED
      BY <2>9, <3>1 DEF Again, WatchInv, logCacheVars, runVars
  <2>10. CASE \E a \in Addrs, n \in LogNames : WorldWrites(n, a)
    <3>1. /\ UNCHANGED <<pc, asked, watched, sh, read>>
          /\ pipe' = pipe \/ pipe' = Append(pipe, "MODIFY")
      BY <2>10 DEF WorldWrites, Written, Notify, runVars
    <3>2. "MODIFY" \in Ops /\ pipe \in Seq(Ops)
      BY DEF WatchInv
    <3> HIDE DEF Ops
    <3>3. /\ Append(pipe, "MODIFY") \in Seq(Ops)
          /\ (\E i \in DOMAIN pipe : pipe[i] = "MOVE_SELF") =>
               \E i \in DOMAIN Append(pipe, "MODIFY") : Append(pipe, "MODIFY")[i] = "MOVE_SELF"
      BY <3>2, NotifyKeeps
    <3>4. QED
      BY <3>1, <3>3 DEF WatchInv, Ops
  <2>11. CASE WorldMoves
    <3>1. /\ UNCHANGED <<pc, asked, sh, read>>
          /\ pipe' = IF watched = "log" THEN Append(pipe, "MOVE_SELF") ELSE pipe
      BY <2>11 DEF WorldMoves, Moved, Notify, runVars
    <3>2. "MOVE_SELF" \in Ops /\ pipe \in Seq(Ops)
      BY DEF WatchInv
    <3> HIDE DEF Ops
    <3>3. /\ Append(pipe, "MOVE_SELF") \in Seq(Ops)
          /\ \E i \in DOMAIN Append(pipe, "MOVE_SELF") : Append(pipe, "MOVE_SELF")[i] = "MOVE_SELF"
      BY <3>2, NotifyKeeps
    <3>4. CASE watched = "log"
      BY <3>1, <3>3, <3>4 DEF WatchInv, Ops
    <3>5. CASE watched # "log"
      BY <3>1, <3>5 DEF WatchInv
    <3>6. QED
      BY <3>4, <3>5
  <2>12. CASE WorldCreates
    BY <2>12 DEF WorldCreates, Created, WatchInv, shellVars, runVars
  <2>13. CASE \E p \in Patterns : WorldConfigures(p)
    <3>1. /\ UNCHANGED <<pc, asked, watched, sh, read>>
          /\ pipe' = pipe \/ pipe' = Append(pipe, "CFG_MODIFY")
      BY <2>13 DEF WorldConfigures, Configured, runVars
    <3>2. "CFG_MODIFY" \in Ops /\ pipe \in Seq(Ops)
      BY DEF WatchInv
    <3> HIDE DEF Ops
    <3>3. /\ Append(pipe, "CFG_MODIFY") \in Seq(Ops)
          /\ (\E i \in DOMAIN pipe : pipe[i] = "MOVE_SELF") =>
               \E i \in DOMAIN Append(pipe, "CFG_MODIFY") : Append(pipe, "CFG_MODIFY")[i] = "MOVE_SELF"
      BY <3>2, NotifyKeeps
    <3>4. QED
      BY <3>1, <3>3 DEF WatchInv, Ops
  <2>14. CASE UNCHANGED vars
    BY <2>14 DEF vars, shellVars, logCacheVars, runVars, WatchInv
  <2>15. QED
    BY <2>1, <2>2, <2>3, <2>4, <2>5, <2>6, <2>7, <2>8, <2>9, <2>10, <2>11, <2>12, <2>13, <2>14,
       <2>16
    DEF Next, Service, World
<1>3. QED
  BY <1>1, <1>2, PTL DEF Spec

\* While the script sleeps on an empty pipe, what it watches is the log: it never
\* waits for a file that has been renamed and will not be written again.
THEOREM WatchCorrect == Spec => []WatchesTheLog
<1>1. WatchInv => WatchesTheLog
  BY DEF WatchInv, WatchesTheLog
<1>2. QED
  BY <1>1, WatchHolds, PTL

---------------------------------------------------------------------------
(* The cache does not grow.                                                *)

\* What a run is done with has its cache file, until the run ends; after the first of
\* its removals no other file is left under its configuration, after the last no other.
BoundInv ==
  /\ \E S : file_map \in Seq(S)
  /\ pc \in {"idle", "flush", "dir"} => file_map = <<>>
  /\ \A k \in Files : k = <<k[1], k[2]>>
  /\ \A i \in DOMAIN file_map : <<targets, file_map[i][1]>> \in DOMAIN cache
  /\ pc \in {"close", "add"} => Key \in DOMAIN cache
  /\ pc \in {"clean", "others", "done"} => targets \in cacheDirs
  /\ pc \in {"others", "done"} => \A k \in Files : InUse(k)
  /\ pc = "done" => cacheDirs = {targets} /\ \A k \in Files : k[1] = targets

\* Nothing a run has in hand changes.
LEMMA BoundUntouched ==
  ASSUME BoundInv,
         UNCHANGED <<file_map, targets, sumStr>>,
         DOMAIN cache' = DOMAIN cache, DOMAIN dbs' = DOMAIN dbs,
         \/ UNCHANGED <<pc, cacheDirs>>
         \/ pc' \in {"sum", "look", "write", "aborted"} /\ pc # "idle"
         \/ pc' = "add" /\ Key \in DOMAIN cache
  PROVE  BoundInv'
BY DEF BoundInv, Key, Sums, Files, InUse

\* A log that is done with has its cache file.
LEMMA AddKeepsBound ==
  ASSUME BoundInv, AddFile
  PROVE  BoundInv'
<1>1. /\ pc = "add" /\ pc' = "sum" /\ UNCHANGED <<targets, sumStr, cache, dbs>>
      /\ file_map' = Append(file_map, <<sumStr, file.counts, file.lines>>)
  BY DEF AddFile, Goto, cacheVars
<1> DEFINE item == <<sumStr, file.counts, file.lines>>
<1>2. PICK S : file_map \in Seq(S)
  BY DEF BoundInv
<1>3. item[1] = sumStr
  OBVIOUS
<1>4. file_map' = Append(file_map, item)
  BY <1>1
<1> HIDE DEF item
<1>5. file_map \in Seq(S \cup {item})
  BY <1>2, SeqMonotonic
<1>6. /\ Append(file_map, item) \in Seq(S \cup {item})
      /\ Len(Append(file_map, item)) = Len(file_map) + 1
      /\ \A i \in 1 .. Len(file_map) : Append(file_map, item)[i] = file_map[i]
      /\ Append(file_map, item)[Len(file_map) + 1] = item
  BY <1>5, AppendProperties
<1>7. /\ file_map' \in Seq(S \cup {item}) /\ DOMAIN file_map = 1 .. Len(file_map)
      /\ DOMAIN file_map' = 1 .. Len(file_map) + 1 /\ Len(file_map) \in Nat
  BY <1>4, <1>5, <1>6, LenProperties
<1>8. <<targets, sumStr>> \in DOMAIN cache
  BY <1>1 DEF BoundInv, Key
<1>9. \A i \in DOMAIN file_map' : <<targets, file_map'[i][1]>> \in DOMAIN cache
  <2> TAKE i \in DOMAIN file_map'
  <2>1. CASE i \in 1 .. Len(file_map)
    BY <1>4, <1>6, <1>7, <2>1 DEF BoundInv
  <2>2. CASE i = Len(file_map) + 1
    BY <1>3, <1>4, <1>6, <1>8, <2>2
  <2>3. QED
    BY <1>7, <2>1, <2>2
<1>10. QED
  BY <1>1, <1>7, <1>9 DEF BoundInv, Files

\* What a run is done with is in use, whatever else is removed.
LEMMA UnlinkKeepsBound ==
  ASSUME BoundInv, NEW k, UnlinkCache(k) \/ UnlinkDb(k)
  PROVE  BoundInv'
<1>1. /\ UNCHANGED <<pc, file_map, targets, sumStr, cacheDirs>>
      /\ pc \in {"flush", "clean", "others"} /\ k \in Unwanted
  BY DEF UnlinkCache, UnlinkDb, Unwanted, runVars
<1>2. /\ DOMAIN cache \ {k} \subseteq DOMAIN cache' /\ DOMAIN cache' \subseteq DOMAIN cache
      /\ DOMAIN dbs' \subseteq DOMAIN dbs
  BY RestrictIs DEF UnlinkCache, UnlinkDb
<1>3. \A i \in DOMAIN file_map : <<targets, file_map[i][1]>> # k
  <2>1. CASE pc = "flush"
    BY <2>1 DEF BoundInv
  <2>2. CASE pc = "clean"
    BY <1>1, <2>2 DEF Unwanted, InUse, Sums
  <2>3. CASE pc = "others"
    BY <1>1, <2>3 DEF Unwanted
  <2>4. QED
    BY <1>1, <2>1, <2>2, <2>3
<1>4. /\ Files' \subseteq Files
      /\ \A i \in DOMAIN file_map' : <<targets', file_map'[i][1]>> \in DOMAIN cache'
  BY <1>1, <1>2, <1>3 DEF BoundInv, Files
<1>5. \A f : InUse(f)' = InUse(f)
  BY <1>1 DEF InUse, Sums
<1>6. QED
  BY <1>1, <1>4, <1>5 DEF BoundInv

LEMMA RunKeepsBound ==
  ASSUME BoundInv, RunStep
  PROVE  BoundInv'
<1>1. CASE ReadDir
  <2>1. /\ pc = "dir" /\ pc' = "sum" /\ UNCHANGED <<file_map, targets, sumStr, cache, dbs>>
    BY <1>1 DEF ReadDir, Goto, cacheVars
  <2>2. QED
    BY <2>1, BoundUntouched
<1>2. CASE Checksum
  <2>1. /\ pc = "sum" /\ pc' \in {"aborted", "look"} /\ UNCHANGED <<file_map, targets, cache, dbs>>
    BY <1>2 DEF Checksum, Goto, cacheVars
  <2>2. QED
    BY <2>1 DEF BoundInv, Files
<1>3. CASE Load
  <2>1. /\ pc = "look" /\ pc' \in {"aborted", "add"} /\ Key \in DOMAIN cache
        /\ UNCHANGED <<file_map, targets, sumStr, cache, dbs>>
    BY <1>3 DEF Load, Goto, cacheVars
  <2>2. QED
    BY <2>1, BoundUntouched
<1>4. CASE Scan
  <2>1. /\ pc = "look" /\ pc' \in {"aborted", "write"}
        /\ UNCHANGED <<file_map, targets, sumStr, cache, dbs>>
    BY <1>4 DEF Scan, Goto
  <2>2. QED
    BY <2>1, BoundUntouched
<1>5. CASE OpenCache \/ CloseCache
  <2>1. /\ pc' \in {"close", "add"} /\ UNCHANGED <<file_map, targets, sumStr>>
        /\ DOMAIN cache' = DOMAIN cache \cup {Key} /\ DOMAIN dbs' \subseteq DOMAIN dbs \cup {Key}
    BY <1>5, PutIs DEF OpenCache, CloseCache, With, Goto, runVars
  <2>2. Key = <<Key[1], Key[2]>> /\ Key' = Key
    BY <2>1 DEF Key
  <2>3. QED
    BY <2>1, <2>2 DEF BoundInv, Files
<1>6. CASE CleanUp
  <2>1. /\ pc = "sum" /\ pc' \in {"clean", "aborted"}
        /\ pc' = "clean" => targets \in cacheDirs
        /\ UNCHANGED <<file_map, targets, sumStr, cacheDirs, cache, dbs>>
    BY <1>6 DEF CleanUp, Goto, runVars, cacheVars
  <2>2. QED
    BY <2>1 DEF BoundInv, Files
<1>7. CASE \E d \in cacheDirs : Rmdir(d)
  <2>1. PICK d : Rmdir(d)
    BY <1>7
  <2>2. /\ UNCHANGED <<pc, file_map, targets, sumStr, cache, dbs>> /\ cacheDirs' = cacheDirs \ {d}
        /\ pc \in {"flush", "others"} /\ (pc = "others" => d # targets)
    BY <2>1 DEF Rmdir, UnwantedDirs, runVars
  <2>3. Files' = Files /\ \A f : InUse(f)' = InUse(f)
    BY <2>2 DEF Files, InUse, Sums
  <2>4. QED
    BY <2>2, <2>3 DEF BoundInv
<1>8. CASE Removed
  <2>1. /\ UNCHANGED <<file_map, targets, sumStr, cacheDirs, cache, dbs>>
        /\ Unwanted = {} /\ UnwantedDirs = {}
        /\ \/ pc = "flush" /\ pc' = "dir"
           \/ pc = "clean" /\ pc' = "others"
           \/ pc = "others" /\ pc' = "done"
    BY <1>8 DEF Removed, Goto, runVars, cacheVars
  <2>2. Files' = Files /\ \A f : InUse(f)' = InUse(f)
    BY <2>1 DEF Files, InUse, Sums
  <2>3. pc = "clean" => \A f \in Files : InUse(f)
    BY <2>1 DEF Unwanted
  <2>4. pc = "others" => /\ \A f \in Files : f[1] = targets
                         /\ cacheDirs \subseteq {targets}
    BY <2>1 DEF Unwanted, UnwantedDirs
  <2>5. QED
    BY <2>1, <2>2, <2>3, <2>4 DEF BoundInv
<1>9. QED
  BY <1>1, <1>2, <1>3, <1>4, <1>5, <1>6, <1>7, <1>8, AddKeepsBound, UnlinkKeepsBound DEF RunStep

\* A run starts, ends or is killed with nothing in hand.
LEMMA NothingInHand ==
  ASSUME BoundInv, pc' \in {"idle", "flush", "dir"}, file_map' = <<>>,
         Files' \subseteq Files \cup {Key}
  PROVE  BoundInv'
<1>1. file_map' \in Seq({})
  BY EmptySeq
<1>2. DOMAIN file_map' = {} /\ Key = <<Key[1], Key[2]>>
  BY DEF Key
<1>3. QED
  BY <1>1, <1>2 DEF BoundInv

LEMMA BoundHolds == Spec => []BoundInv
<1>1. Init => BoundInv
  <2> SUFFICES ASSUME Init PROVE BoundInv
    OBVIOUS
  <2>1. Files = {} /\ pc = "idle" /\ file_map = <<>> /\ DOMAIN file_map = {}
    BY DEF Init, LogCacheInit, Files
  <2>2. file_map \in Seq({})
    BY <2>1, EmptySeq
  <2>3. QED
    BY <2>1, <2>2 DEF BoundInv
<1>2. BoundInv /\ [Next]_vars => BoundInv'
  <2> SUFFICES ASSUME BoundInv, [Next]_vars PROVE BoundInv'
    OBVIOUS
  <2>1. CASE WorldLocks \/ Lock("service", Gone)
    <3>1. PICK c, a : Lock(c, a)
      BY <2>1 DEF WorldLocks
    <3>2. /\ pc = "idle" /\ pc' \in {"dir", "flush"} /\ UNCHANGED <<file_map, cache, dbs>>
      BY <3>1 DEF Lock, Goto, cacheVars
    <3>3. file_map' = <<>>
      BY <3>2 DEF BoundInv
    <3>4. QED
      BY <3>2, <3>3, NothingInHand DEF Files
  <2>2. CASE Works
    BY <2>1, <2>2, RunKeepsBound DEF Works
  <2>3. CASE RunEnds \/ WorldKills
    <3>1. pc' = "idle" /\ file_map' = <<>>
      BY <2>3 DEF RunEnds, WorldKills, Exit, Killed, Forgotten, Goto
    <3>2. Files' \subseteq Files \cup {Key}
      BY <2>3, PutIs DEF RunEnds, WorldKills, Exit, Killed, With, Files, cacheVars
    <3>3. QED
      BY <3>1, <3>2, NothingInHand
  <2>4. CASE \/ FirstRun \/ NextRun \/ WorldAsks \/ Launch \/ ReadEvent \/ Again
             \/ \E a \in Addrs, n \in LogNames : WorldWrites(n, a)
             \/ WorldMoves \/ WorldCreates
             \/ \E p \in Patterns : WorldConfigures(p)
             \/ \E c \in Callers : WorldKillsWaiting(c)
             \/ UNCHANGED vars
    <3>1. UNCHANGED <<file_map, targets, sumStr, cache, dbs, pc, cacheDirs>>
      BY <2>4
      DEF FirstRun, NextRun, Begins, WorldAsks, ReadConfig, Launch, ReadEvent, Again,
          WorldWrites, WorldMoves, WorldCreates, WorldConfigures, WorldKillsWaiting,
          Written, Moved, Created, Configured, KilledWaiting, vars, logCacheVars, cacheVars,
          runVars
    <3>2. QED
      BY <3>1, BoundUntouched
  <2>5. QED
    BY <2>1, <2>2, <2>3, <2>4 DEF Next, Service, World
<1>3. QED
  BY <1>1, <1>2, PTL DEF Spec

\* When a run is through, the cache has a file for each checksum it has met and no
\* other, no data base beside others, and the one directory of its configuration: it
\* cannot pile up over rotations, changes of the configuration and crashes.
THEOREM BoundCorrect == Spec => []CacheBounded
<1>1. BoundInv => CacheBounded
  <2> SUFFICES ASSUME BoundInv, pc = "done"
               PROVE  /\ DOMAIN cache = {<<targets, s>> : s \in Sums}
                      /\ DOMAIN dbs \subseteq DOMAIN cache /\ cacheDirs = {targets}
    BY DEF CacheBounded
  <2>1. \A s \in Sums : <<targets, s>> \in DOMAIN cache
    BY DEF BoundInv, Sums
  <2>2. \A k \in Files : k = <<targets, k[2]>> /\ k[2] \in Sums
    BY DEF BoundInv, InUse
  <2>3. cacheDirs = {targets}
    BY DEF BoundInv
  <2>4. Files \subseteq {<<targets, s>> : s \in Sums}
    BY <2>2
  <2>5. {<<targets, s>> : s \in Sums} \subseteq DOMAIN cache
    BY <2>1
  <2>6. QED
    BY <2>3, <2>4, <2>5 DEF Files
<1>2. QED
  BY <1>1, BoundHolds, PTL

---------------------------------------------------------------------------
(* The offenses of a log.                                                  *)

LEMMA ContentIs ==
  ASSUME NEW content \in Contents
  PROVE  /\ Len(content) \in 0 .. MaxLen /\ content \in [1 .. Len(content) -> Addrs]
         /\ content \in Seq(Addrs)
<1>1. PICK n \in 0 .. MaxLen : content \in [1 .. n -> Addrs]
  BY DEF Contents, SeqOf
<1>2. n \in Nat
  BY <1>1, BoundsAssumption
<1>3. content \in Seq(Addrs)
  BY <1>1, <1>2, SeqDef
<1>4. Len(content) = n
  BY <1>1, <1>2, <1>3, LenProperties
<1>5. QED
  BY <1>1, <1>3, <1>4

LEMMA LinesAre ==
  ASSUME NEW content \in Contents, NEW a
  PROVE  /\ IsFiniteSet(Lines(content, a)) /\ Cardinality(Lines(content, a)) \in 0 .. MaxLen
         /\ \A b : b # a => Cardinality(Lines(content, a)) + Cardinality(Lines(content, b)) <= MaxLen
<1> DEFINE n == Len(content)
<1>1. n \in Nat /\ n <= MaxLen /\ content \in [1 .. n -> Addrs] /\ MaxLen \in Nat
  BY ContentIs, BoundsAssumption
<1>2. IsFiniteSet(1 .. n) /\ Cardinality(1 .. n) = n
  <2> HIDE DEF n
  <2>1. 1 \in Int /\ n \in Int
    BY <1>1
  <2>2. IsFiniteSet(1 .. n) /\ Cardinality(1 .. n) = IF 1 > n THEN 0 ELSE n - 1 + 1
    BY <2>1, FS_Interval
  <2>3. QED
    BY <1>1, <2>2
<1>3. \A b : Lines(content, b) \subseteq 1 .. n
  BY <1>1 DEF Lines
<1> HIDE DEF n
<1>4. \A b : IsFiniteSet(Lines(content, b)) /\ Cardinality(Lines(content, b)) <= n
             /\ Cardinality(Lines(content, b)) \in Nat
  BY <1>2, <1>3, FS_Subset, FS_CardinalityType
<1>5. ASSUME NEW b, b # a
      PROVE  Cardinality(Lines(content, a)) + Cardinality(Lines(content, b)) <= MaxLen
  <2> DEFINE A == Lines(content, a)
             B == Lines(content, b)
  <2>1. A \cap B = {}
    BY <1>5 DEF Lines
  <2>2. A \cup B \subseteq 1 .. n
    BY <1>3
  <2>3. IsFiniteSet(A) /\ IsFiniteSet(B)
    BY <1>4
  <2>4. Cardinality(A) \in Nat /\ Cardinality(B) \in Nat
    BY <1>4
  <2> HIDE DEF A, B
  <2>5. Cardinality(A \cap B) = 0
    BY <2>1, FS_EmptySet
  <2>6. Cardinality(A \cup B) = Cardinality(A) + Cardinality(B) - Cardinality(A \cap B)
    BY <2>3, FS_Union
  <2>7. Cardinality(A \cup B) <= n
    BY <1>2, <2>2, FS_Subset
  <2>8. Cardinality(A) + Cardinality(B) <= MaxLen
    BY <1>1, <2>4, <2>5, <2>6, <2>7
  <2>9. QED
    BY <2>8 DEF A, B
<1>6. QED
  BY <1>1, <1>4, <1>5

LEMMA Times ==
  ASSUME NEW m \in Nat, NEW p \in 0 .. m, NEW q \in 0 .. m, NEW n \in Nat,
         NEW i \in 0 .. n, NEW j \in 0 .. n, i + j <= n
  PROVE  p * i \in Nat /\ q * j \in Nat /\ p * i + q * j <= n * m
<1>1. p * i \in Nat /\ q * j \in Nat /\ m * i \in Nat /\ m * j \in Nat /\ n * m \in Nat
  OBVIOUS
<1>2. p * i <= m * i
  OBVIOUS
<1>3. q * j <= m * j
  OBVIOUS
<1>4. m * i + m * j = m * (i + j)
  OBVIOUS
<1>5. m * (i + j) <= m * n
  OBVIOUS
<1>6. m * n = n * m
  OBVIOUS
<1>7. QED
  BY <1>1, <1>2, <1>3, <1>4, <1>5, <1>6

\* Nobody has more offenses than the lines of a log can make, and no two have together.
LEMMA OffensesAre ==
  ASSUME NEW p \in Patterns, NEW content \in Contents
  PROVE  /\ Offenses(p, content) \in Counts
         /\ \A a, b \in Addrs : a # b =>
              Offenses(p, content)[a] + Offenses(p, content)[b] <= MaxLen * MaxTargets
<1>1. MaxLen \in Nat /\ MaxTargets \in Nat /\ MaxLen * MaxTargets \in Nat
  BY BoundsAssumption
<1>2. p \in [Addrs -> 0 .. MaxTargets]
  BY PatternsAssumption
<1>3. ASSUME NEW a \in Addrs
      PROVE  Offenses(p, content)[a] \in 0 .. MaxLen * MaxTargets
  <2> DEFINE i == Cardinality(Lines(content, a))
  <2>1. Offenses(p, content)[a] = p[a] * i
    BY DEF Offenses
  <2>2. i \in 0 .. MaxLen
    BY LinesAre
  <2>3. p[a] \in 0 .. MaxTargets /\ 0 \in 0 .. MaxTargets /\ 0 \in 0 .. MaxLen /\ i + 0 <= MaxLen
    BY <1>1, <1>2, <2>2
  <2> HIDE DEF i
  <2>4. p[a] * i \in Nat /\ 0 * 0 \in Nat /\ p[a] * i + 0 * 0 <= MaxLen * MaxTargets
    BY <1>1, <2>2, <2>3, Times
  <2>5. QED
    BY <1>1, <2>1, <2>4
<1>4. ASSUME NEW a \in Addrs, NEW b \in Addrs, a # b
      PROVE  Offenses(p, content)[a] + Offenses(p, content)[b] <= MaxLen * MaxTargets
  <2> DEFINE i == Cardinality(Lines(content, a))
             j == Cardinality(Lines(content, b))
  <2>1. Offenses(p, content)[a] = p[a] * i /\ Offenses(p, content)[b] = p[b] * j
    BY DEF Offenses
  <2>2. i \in 0 .. MaxLen /\ j \in 0 .. MaxLen /\ i + j <= MaxLen
    BY <1>4, LinesAre
  <2>3. p[a] \in 0 .. MaxTargets /\ p[b] \in 0 .. MaxTargets
    BY <1>2
  <2> HIDE DEF i, j
  <2>4. QED
    BY <1>1, <2>1, <2>2, <2>3, Times
<1>5. Offenses(p, content) = [a \in Addrs |-> Offenses(p, content)[a]]
  BY DEF Offenses
<1>6. Offenses(p, content) \in Counts
  BY <1>3, <1>5 DEF Counts
<1>7. QED
  BY <1>4, <1>6

LEMMA NoneIs == None \in Counts
BY BoundsAssumption DEF None, Counts

\* What is left of a cache file has its type, merged counts included.
LEMMA RemnantsAre ==
  ASSUME NEW p \in Patterns, NEW content \in Contents, NEW part \in Remnants(Offenses(p, content))
  PROVE  part \in CacheFiles
<1> DEFINE counts == Offenses(p, content)
           Part(c, torn) == [counts |-> c, torn |-> torn]
<1>2. /\ counts \in Counts
      /\ \A a, b \in Addrs : a # b => counts[a] + counts[b] <= MaxLen * MaxTargets
  BY OffensesAre
<1>3. MaxLen * MaxTargets \in Nat
  BY BoundsAssumption
<1>9. part \in Remnants(counts)
  OBVIOUS
<1> HIDE DEF counts
<1>4. \A c \in Torn(counts) :
        /\ c \in Counts
        /\ \A a \in Addrs : c[a] = 0 \/ c[a] = counts[a]
  BY <1>2, <1>3 DEF Torn, Counts
<1>5. ASSUME NEW c \in Torn(counts), NEW a \in Addrs, NEW b \in Addrs, a # b, c[a] = 0
      PROVE  [c EXCEPT ![b] = @ + counts[a]] \in Counts
  <2>1. c \in Counts /\ (c[b] = 0 \/ c[b] = counts[b])
    BY <1>4
  <2>2. counts[a] \in 0 .. MaxLen * MaxTargets /\ counts[b] \in 0 .. MaxLen * MaxTargets
    BY <1>2 DEF Counts
  <2>3. counts[b] + counts[a] <= MaxLen * MaxTargets
    BY <1>2, <1>5
  <2>4. c[b] + counts[a] \in 0 .. MaxLen * MaxTargets
    BY <1>3, <2>1, <2>2, <2>3
  <2>5. QED
    BY <2>1, <2>4 DEF Counts
<1>6. \/ \E c \in Torn(counts) : part = Part(c, FALSE)
      \/ \E c \in Torn(counts) : part = Part(c, TRUE)
      \/ \E a, b \in Addrs : \E c \in Torn(counts) :
           a # b /\ c[a] = 0 /\ part = Part([c EXCEPT ![b] = @ + counts[a]], FALSE)
  <2>1. CASE part \in {Part(c, FALSE) : c \in Torn(counts)}
    BY <2>1
  <2>2. CASE part \in {Part(c, TRUE) : c \in Torn(counts) \ {counts}}
    BY <2>2
  <2>3. CASE part \in UNION {{Part([c EXCEPT ![ab[2]] = @ + counts[ab[1]]], FALSE) :
                       c \in {d \in Torn(counts) : d[ab[1]] = 0}} :
                      ab \in {xy \in Addrs \X Addrs : xy[1] # xy[2] /\ counts[xy[1]] > 0}}
    <3>1. PICK ab \in Addrs \X Addrs :
            /\ ab[1] # ab[2]
            /\ part \in {Part([c EXCEPT ![ab[2]] = @ + counts[ab[1]]], FALSE) :
                           c \in {d \in Torn(counts) : d[ab[1]] = 0}}
      BY <2>3
    <3>2. ab[1] \in Addrs /\ ab[2] \in Addrs
      BY <3>1
    <3>3. QED
      BY <3>1, <3>2
  <2>4. QED
    BY <1>9, <2>1, <2>2, <2>3 DEF Remnants
<1>7. ASSUME NEW c \in Counts, NEW torn \in BOOLEAN
      PROVE  Part(c, torn) \in CacheFiles
  BY <1>7 DEF CacheFiles
<1> HIDE DEF Part
<1>8. QED
  BY <1>4, <1>5, <1>6, <1>7

---------------------------------------------------------------------------
(* The types.                                                              *)

\* A run that looks at a log has not yet done with it, and what it writes to a
\* cache file is what some content has.
FileInv ==
  /\ pc \in {"look", "write", "close", "add"} => fname_vec # <<>>
  /\ pc \in {"write", "close"} => file.counts = Offenses(targets, file.content)
  /\ \E S : file_map \in Seq(S)
TypeInv == LogCacheTypeOK /\ FileInv

LEMMA KeyIs ==
  ASSUME LogCacheTypeOK
  PROVE  Key \in Keys
BY DEF LogCacheTypeOK, Key, Keys

\* The files of the cache keep their types.
CacheOK ==
  /\ DOMAIN cache \subseteq Keys /\ \A k \in DOMAIN cache : cache[k] \in CacheFiles
  /\ DOMAIN dbs \subseteq Keys /\ \A k \in DOMAIN dbs : dbs[k] \in [Addrs -> Contents \cup {Gone}]
  /\ cut \subseteq DOMAIN cache

LEMMA PutTyped ==
  ASSUME LogCacheTypeOK, NEW as, Put(as)
  PROVE  /\ DOMAIN dbs' \subseteq Keys
         /\ \A k \in DOMAIN dbs' : dbs'[k] \in [Addrs -> Contents \cup {Gone}]
<1> DEFINE old == IF Key \in DOMAIN dbs THEN dbs[Key] ELSE [a \in Addrs |-> Gone]
           v == [a \in Addrs |-> IF a \in as THEN file.content ELSE old[a]]
           key == Key
<1>1. v \in [Addrs -> Contents \cup {Gone}]
  BY DEF LogCacheTypeOK
<1>2. dbs' = With(dbs, key, v) /\ key \in Keys
  BY KeyIs DEF Put
<1> HIDE DEF v, key
<1>3. QED
  BY <1>1, <1>2 DEF With, LogCacheTypeOK

LEMMA WriteTyped ==
  ASSUME LogCacheTypeOK, NEW v \in CacheFiles, cache' = With(cache, Key, v),
         UNCHANGED dbs \/ \E as : Put(as), cut' = cut
  PROVE  CacheOK'
<1> DEFINE key == Key
<1>1. cache' = With(cache, key, v) /\ key \in Keys
  BY KeyIs
<1> HIDE DEF key
<1>2. /\ DOMAIN cache' = DOMAIN cache \cup {key}
      /\ \A k \in DOMAIN cache' : cache'[k] = v \/ (k \in DOMAIN cache /\ cache'[k] = cache[k])
  BY <1>1 DEF With
<1>3. /\ DOMAIN dbs' \subseteq Keys
      /\ \A k \in DOMAIN dbs' : dbs'[k] \in [Addrs -> Contents \cup {Gone}]
  BY PutTyped DEF LogCacheTypeOK
<1>4. QED
  BY <1>1, <1>2, <1>3 DEF LogCacheTypeOK, CacheOK

LEMMA UnlinkTyped ==
  ASSUME LogCacheTypeOK, NEW k, UnlinkCache(k) \/ UnlinkDb(k)
  PROVE  CacheOK'
<1>1. CASE UnlinkCache(k)
  <2>1. /\ DOMAIN cache' = DOMAIN cache \ {k} /\ \A j \in DOMAIN cache' : cache'[j] = cache[j]
        /\ cut' = cut \ {k} /\ dbs' = dbs
    BY <1>1, RestrictIs DEF UnlinkCache
  <2>2. QED
    BY <2>1 DEF LogCacheTypeOK, CacheOK
<1>2. CASE UnlinkDb(k)
  <2>1. /\ DOMAIN dbs' = DOMAIN dbs \ {k} /\ \A j \in DOMAIN dbs' : dbs'[j] = dbs[j]
        /\ cut' = cut \cup ({k} \cap DOMAIN cache) /\ cache' = cache
    BY <1>2, RestrictIs DEF UnlinkDb
  <2>2. QED
    BY <2>1 DEF LogCacheTypeOK, CacheOK
<1>3. QED
  BY <1>1, <1>2

\* The logs stay logs.
LEMMA LogIs ==
  ASSUME LogCacheTypeOK, fname_vec # <<>>
  PROVE  /\ Head(fname_vec) \in LogNames /\ Tail(fname_vec) \in Seq(LogNames)
         /\ logs[Head(fname_vec)] \in Contents \cup {Gone}
BY HeadTailProperties DEF LogCacheTypeOK

LEMMA NamesAre == Names \in Seq(LogNames)
<1>1. \A n \in LogNames : Listed(n) \in Seq(LogNames)
  BY DEF Listed
<1>2. Listed("log") \in Seq(LogNames) /\ Listed("log.1") \in Seq(LogNames)
  BY <1>1 DEF LogNames
<1>3. QED
  BY <1>2, ConcatProperties DEF Names

LEMMA StartTyped ==
  ASSUME TypeInv, NEW c \in Callers, NEW a \in Asked \cup {Gone}, ReadConfig(c) \/ Lock(c, a),
         events' \in 0 .. MaxEvents
  PROVE  TypeInv'
<1>1. CASE ReadConfig(c)
  BY <1>1 DEF ReadConfig, TypeInv, FileInv, LogCacheTypeOK, cacheVars, runVars
<1>2. CASE Lock(c, a)
  <2>1. /\ pc' \in {"dir", "flush"} /\ targets' \in Patterns /\ asked' \in Asked \cup {Gone}
        /\ read' \in [Callers -> Patterns \cup {Gone}]
    BY <1>2 DEF Lock, Goto, TypeInv, LogCacheTypeOK
  <2>2. UNCHANGED <<worldVars, cacheVars, fname_vec, sumStr, file, file_map, calm, raced, cut>>
    BY <1>2 DEF Lock
  <2>3. QED
    BY <2>1, <2>2 DEF worldVars, cacheVars, TypeInv, FileInv, LogCacheTypeOK
<1>3. QED
  BY <1>1, <1>2

LEMMA AddTyped ==
  ASSUME TypeInv, AddFile
  PROVE  TypeInv'
<1>1. /\ UNCHANGED <<worldVars, read, cacheVars, targets, asked, sumStr, file, calm, raced, cut>>
      /\ pc = "add" /\ pc' = "sum" /\ fname_vec' = Tail(fname_vec)
      /\ file_map' = Append(file_map, <<sumStr, file.counts, file.lines>>)
  BY DEF AddFile, Goto
<1>2. Tail(fname_vec) \in Seq(LogNames)
  BY <1>1, LogIs DEF TypeInv, FileInv
<1> DEFINE item == <<sumStr, file.counts, file.lines>>
<1>3. item[1] \in Contents /\ item[2] \in Counts
  BY DEF TypeInv, LogCacheTypeOK
<1>4. file_map' = Append(file_map, item)
  BY <1>1
<1> HIDE DEF item
<1>5. PICK S : file_map \in Seq(S)
  BY DEF TypeInv, FileInv
<1>6. file_map \in Seq(S \cup {item})
  BY <1>5, SeqMonotonic
<1>7. /\ file_map' \in Seq(S \cup {item})
      /\ DOMAIN file_map' = 1 .. Len(file_map) + 1 /\ DOMAIN file_map = 1 .. Len(file_map)
      /\ Len(file_map) \in Nat
      /\ \A i \in 1 .. Len(file_map) : file_map'[i] = file_map[i]
      /\ file_map'[Len(file_map) + 1] = item
  BY <1>4, <1>6, AppendProperties, LenProperties
<1>8. \A i \in DOMAIN file_map' : i \in DOMAIN file_map \/ i = Len(file_map) + 1
  BY <1>7
<1>9. \A i \in DOMAIN file_map' : file_map'[i][1] \in Contents /\ file_map'[i][2] \in Counts
  BY <1>3, <1>7, <1>8 DEF TypeInv, LogCacheTypeOK
<1>10. QED
  BY <1>1, <1>2, <1>7, <1>9 DEF TypeInv, FileInv, LogCacheTypeOK, worldVars, cacheVars

LEMMA RunTyped ==
  ASSUME TypeInv, RunStep
  PROVE  TypeInv'
<1>1. CASE ReadDir
  BY <1>1, NamesAre DEF ReadDir, Goto, TypeInv, FileInv, LogCacheTypeOK, worldVars, cacheVars
<1>2. CASE Checksum
  <2>1. logs[Head(fname_vec)] \in Contents \cup {Gone}
    BY <1>2, LogIs DEF Checksum, TypeInv
  <2>2. QED
    BY <1>2, <2>1 DEF Checksum, Goto, TypeInv, FileInv, LogCacheTypeOK, worldVars, cacheVars
<1>3. CASE Load
  <2>1. Key \in DOMAIN cache /\ cache[Key] \in CacheFiles /\ fname_vec # <<>>
    BY <1>3 DEF Load, TypeInv, FileInv, LogCacheTypeOK
  <2>2. <<>> \in Contents
    BY BoundsAssumption, EmptySeq DEF Contents, SeqOf
  <2>3. file' = file \/ (file'.counts = cache[Key].counts /\ file'.content = <<>>)
    BY <1>3 DEF Load, Found
  <2>4. file'.counts \in Counts /\ file'.content \in Contents
    BY <2>1, <2>2, <2>3 DEF TypeInv, LogCacheTypeOK, CacheFiles
  <2>5. /\ UNCHANGED <<worldVars, read, cacheVars, targets, asked, fname_vec, sumStr, file_map,
                       calm, raced, cut>>
        /\ pc' \in {"aborted", "add"}
    BY <1>3 DEF Load, Goto
  <2>6. QED
    BY <2>1, <2>4, <2>5 DEF TypeInv, FileInv, LogCacheTypeOK, worldVars, cacheVars
<1>4. CASE Scan
  <2> DEFINE content == logs[Head(fname_vec)]
  <2>1. fname_vec # <<>> /\ content \in Contents \cup {Gone}
    BY <1>4, LogIs DEF Scan, TypeInv, FileInv
  <2>2. targets \in Patterns /\ Key \in Keys /\ raced' \subseteq raced \cup {Key}
    BY <1>4, KeyIs DEF Scan, TypeInv, LogCacheTypeOK
  <2>3. /\ UNCHANGED <<worldVars, read, cache, dbs, targets, asked, fname_vec, sumStr, file_map,
                       calm, cut>>
        /\ cacheDirs' = cacheDirs \cup {targets}
        /\ \/ pc' = "aborted" /\ file' = file
           \/ /\ content # Gone /\ pc' = "write"
              /\ file'.counts = Offenses(targets, content) /\ file'.content = content
    BY <1>4 DEF Scan, Goto, Found
  <2> HIDE DEF content
  <2>4. /\ file'.counts \in Counts /\ file'.content \in Contents
        /\ pc' = "write" => file'.counts = Offenses(targets', file'.content)
    BY <2>1, <2>2, <2>3, OffensesAre DEF TypeInv, LogCacheTypeOK, Offenses, Lines
  <2>5. FileInv'
    BY <2>1, <2>3, <2>4 DEF TypeInv, FileInv, Offenses, Lines
  <2>6. LogCacheTypeOK'
    BY <2>2, <2>3, <2>4 DEF TypeInv, LogCacheTypeOK, worldVars
  <2>7. QED
    BY <2>5, <2>6 DEF TypeInv
<1>5. CASE OpenCache \/ CloseCache
  <2>1. /\ UNCHANGED <<worldVars, read, cacheDirs, runVars, calm, raced, cut>>
        /\ pc \in {"write", "close"} /\ pc' \in {"close", "add"} /\ (pc = "write" => pc' = "close")
    BY <1>5 DEF OpenCache, CloseCache, Goto
  <2>2. PICK c \in Counts : cache' = With(cache, Key, CacheFile(c))
    BY <1>5, NoneIs DEF OpenCache, CloseCache, TypeInv, LogCacheTypeOK
  <2>3. CacheFile(c) \in CacheFiles
    BY DEF CacheFile, CacheFiles
  <2>4. UNCHANGED dbs \/ \E as : Put(as)
    BY <1>5 DEF OpenCache, CloseCache
  <2>5. CacheOK'
    BY <2>1, <2>2, <2>3, <2>4, WriteTyped DEF TypeInv
  <2>6. FileInv'
    BY <2>1 DEF TypeInv, FileInv, runVars, Offenses, Lines
  <2>7. QED
    BY <2>1, <2>5, <2>6 DEF TypeInv, LogCacheTypeOK, CacheOK, worldVars, runVars
<1>6. CASE CleanUp \/ Removed \/ \E d \in cacheDirs : Rmdir(d)
  <2>1. /\ UNCHANGED <<worldVars, read, cache, dbs, runVars, calm, raced, cut>>
        /\ pc' \in {"clean", "aborted", "flush", "dir", "others", "done"}
        /\ cacheDirs' \subseteq cacheDirs
    BY <1>6 DEF CleanUp, Removed, Rmdir, UnwantedDirs, Goto, cacheVars
  <2>2. QED
    BY <2>1 DEF TypeInv, FileInv, LogCacheTypeOK, worldVars, runVars
<1>7. CASE \E k \in Files : UnlinkCache(k) \/ UnlinkDb(k)
  <2>1. CacheOK'
    BY <1>7, UnlinkTyped DEF TypeInv
  <2>2. UNCHANGED <<worldVars, read, cacheDirs, pc, runVars, calm, raced>>
    BY <1>7 DEF UnlinkCache, UnlinkDb
  <2>3. FileInv'
    BY <2>2 DEF TypeInv, FileInv, runVars, Offenses, Lines
  <2>4. QED
    BY <2>1, <2>2, <2>3 DEF TypeInv, LogCacheTypeOK, CacheOK, worldVars, runVars
<1>8. QED
  BY <1>1, <1>2, <1>3, <1>4, <1>5, <1>6, <1>7, AddTyped DEF RunStep

LEMMA ForgottenTyped ==
  ASSUME TypeInv, Forgotten, UNCHANGED <<logs, config, read, cacheDirs, targets>>,
         events' \in 0 .. MaxEvents, CacheOK', raced' \subseteq Keys
  PROVE  TypeInv'
<1>1. <<>> \in Contents /\ <<>> \in Seq(LogNames)
  BY BoundsAssumption, EmptySeq DEF Contents, SeqOf
<1>2. file'.counts \in Counts /\ file'.content \in Contents
  BY <1>1, NoneIs DEF Forgotten, Nothing, Found
<1>3. DOMAIN file_map' = {} /\ file_map' \in Seq({})
  BY EmptySeq DEF Forgotten
<1>4. QED
  BY <1>1, <1>2, <1>3 DEF Forgotten, Goto, TypeInv, FileInv, LogCacheTypeOK, CacheOK

LEMMA KillTyped ==
  ASSUME TypeInv, Killed
  PROVE  TypeInv'
<1>1. events' \in 0 .. MaxEvents
  BY BoundsAssumption DEF Killed, Event, TypeInv, LogCacheTypeOK
<1>2. UNCHANGED <<logs, config, read, cacheDirs, targets, cut>> /\ Forgotten
  BY DEF Killed
<1>3. CASE pc = "close"
  <2>1. PICK part \in Remnants(file.counts) : cache' = With(cache, Key, part)
    BY <1>3 DEF Killed
  <2>2. file.counts = Offenses(targets, file.content) /\ file.content \in Contents /\ targets \in Patterns
    BY <1>3 DEF TypeInv, FileInv, LogCacheTypeOK
  <2>3. part \in CacheFiles
    BY <2>1, <2>2, RemnantsAre
  <2>4. (UNCHANGED dbs \/ \E as : Put(as)) /\ raced' = raced \cup {Key}
    BY <1>3 DEF Killed
  <2>5. CacheOK' /\ raced' \subseteq Keys
    BY <1>2, <2>1, <2>3, <2>4, WriteTyped, KeyIs DEF TypeInv, LogCacheTypeOK
  <2>6. QED
    BY <1>1, <1>2, <2>5, ForgottenTyped
<1>4. CASE pc # "close"
  <2>1. UNCHANGED <<cache, dbs, raced>>
    BY <1>4 DEF Killed
  <2>2. CacheOK' /\ raced' \subseteq Keys
    BY <1>2, <2>1 DEF TypeInv, LogCacheTypeOK, CacheOK
  <2>3. QED
    BY <1>1, <1>2, <2>2, ForgottenTyped
<1>5. QED
  BY <1>3, <1>4

\* What happens to the logs and the configuration.
LEMMA LogsTyped ==
  ASSUME TypeInv,
         \/ \E a \in Addrs, n \in LogNames : Written(n, a)
         \/ Moved \/ Created \/ \E p \in Patterns : Configured(p)
  PROVE  TypeInv'
<1>1. /\ UNCHANGED <<read, cacheVars, pc, runVars, raced, cut>> /\ config' \in Patterns
      /\ events' \in 0 .. MaxEvents /\ calm' \in BOOLEAN
  <2>1. config \in Patterns /\ events \in 0 .. MaxEvents /\ calm \in BOOLEAN
    BY DEF TypeInv, LogCacheTypeOK
  <2>2. events' = events \/ Event
    BY DEF Written, Moved, Created, Configured
  <2>3. events' \in 0 .. MaxEvents
    BY <2>1, <2>2, BoundsAssumption DEF Event
  <2>4. config' \in Patterns \cup {config}
    BY DEF Written, Moved, Created, Configured
  <2>5. calm' = calm \/ calm' = FALSE
    BY DEF Written, Moved, Created, Configured, Disturb
  <2>6. UNCHANGED <<read, cacheVars, pc, runVars, raced, cut>>
    BY DEF Written, Moved, Created, Configured
  <2>7. QED
    BY <2>1, <2>3, <2>4, <2>5, <2>6
<1>2. logs' \in [LogNames -> Contents \cup {Gone}]
  <2>1. logs \in [LogNames -> Contents \cup {Gone}]
    BY DEF TypeInv, LogCacheTypeOK
  <2>2. CASE \E a \in Addrs, n \in LogNames : Written(n, a)
    <3> PICK a \in Addrs, n \in LogNames : Written(n, a)
      BY <2>2
    <3>1. logs[n] \in Contents /\ Len(logs[n]) < MaxLen
      BY <2>1 DEF Written
    <3>2. logs[n] \in Seq(Addrs) /\ Len(logs[n]) \in Nat
      BY <3>1, ContentIs, BoundsAssumption
    <3> DEFINE longer == Append(logs[n], a)
    <3>3. longer \in Seq(Addrs) /\ Len(longer) = Len(logs[n]) + 1
      BY <3>2, AppendProperties
    <3>4. Len(longer) \in 0 .. MaxLen
      BY <3>1, <3>2, <3>3, BoundsAssumption
    <3>5. longer \in [1 .. Len(longer) -> Addrs]
      BY <3>3, LenProperties
    <3> HIDE DEF longer
    <3>6. longer \in Contents
      BY <3>4, <3>5 DEF Contents, SeqOf
    <3>7. logs' = [logs EXCEPT ![n] = longer]
      BY DEF Written, longer
    <3>8. QED
      BY <2>1, <3>6, <3>7
  <2>3. CASE Moved
    BY <2>1, <2>3 DEF Moved, LogNames
  <2>4. CASE Created
    <3>1. <<>> \in Contents
      BY BoundsAssumption, EmptySeq DEF Contents, SeqOf
    <3>2. QED
      BY <2>1, <2>4, <3>1 DEF Created
  <2>5. CASE \E p \in Patterns : Configured(p)
    BY <2>1, <2>5 DEF Configured
  <2>6. QED
    BY <2>2, <2>3, <2>4, <2>5
<1>3. LogCacheTypeOK'
  BY <1>1, <1>2 DEF TypeInv, LogCacheTypeOK, cacheVars, runVars
<1>4. FileInv'
  BY <1>1 DEF TypeInv, FileInv, cacheVars, runVars, Offenses, Lines
<1>5. QED
  BY <1>3, <1>4 DEF TypeInv

LEMMA TypeHolds == Spec => []TypeInv
<1>1. Init => TypeInv
  <2> SUFFICES ASSUME Init PROVE TypeInv
    OBVIOUS
  <2>1. <<>> \in Contents /\ <<>> \in Seq(LogNames) /\ <<>> \in Seq({})
    BY BoundsAssumption, EmptySeq DEF Contents, SeqOf
  <2>2. Nothing.counts \in Counts /\ Nothing.content \in Contents
    BY <2>1, NoneIs DEF Nothing, Found
  <2>3. Backlog \subseteq Contents
    BY BacklogAssumption DEF Contents
  <2>4. DOMAIN <<>> = {} /\ 0 \in 0 .. MaxEvents
    BY BoundsAssumption
  <2>5. LogCacheTypeOK /\ FileInv
    BY <2>1, <2>2, <2>3, <2>4 DEF Init, LogCacheInit, LogCacheTypeOK, FileInv
  <2>6. QED
    BY <2>5 DEF TypeInv
<1>2. TypeInv /\ [Next]_vars => TypeInv'
  <2> SUFFICES ASSUME TypeInv, [Next]_vars PROVE TypeInv'
    OBVIOUS
  <2>1. CASE FirstRun \/ NextRun \/ WorldAsks
    <3>1. PICK c \in Callers : ReadConfig(c)
      BY <2>1 DEF FirstRun, NextRun, Begins, WorldAsks, Callers
    <3>2. events' \in 0 .. MaxEvents
      BY <2>1, BoundsAssumption
      DEF FirstRun, NextRun, Begins, WorldAsks, Event, TypeInv, LogCacheTypeOK
    <3>3. QED
      BY <3>1, <3>2, StartTyped
  <2>2. CASE WorldLocks \/ Lock("service", Gone)
    <3>1. PICK c \in Callers, a \in Asked \cup {Gone} : Lock(c, a)
      BY <2>2 DEF WorldLocks, Callers
    <3>2. events' \in 0 .. MaxEvents
      BY <3>1 DEF Lock, worldVars, TypeInv, LogCacheTypeOK
    <3>3. QED
      BY <3>1, <3>2, StartTyped
  <2>3. CASE Works
    BY <2>2, <2>3, RunTyped DEF Works
  <2>4. CASE RunEnds
    <3>1. /\ UNCHANGED <<logs, config, read, cacheDirs, targets, events, cache, dbs, cut, raced>>
          /\ Forgotten
      BY <2>4 DEF RunEnds, Exit, worldVars, cacheVars
    <3>2. CacheOK'
      BY <3>1 DEF TypeInv, LogCacheTypeOK, CacheOK
    <3>3. QED
      BY <3>1, <3>2, ForgottenTyped DEF TypeInv, LogCacheTypeOK
  <2>5. CASE WorldKills
    BY <2>5, KillTyped DEF WorldKills
  <2>6. CASE Launch \/ ReadEvent \/ Again \/ UNCHANGED vars
    <3>1. UNCHANGED logCacheVars
      BY <2>6 DEF Launch, ReadEvent, Again, vars
    <3>2. QED
      BY <3>1
      DEF logCacheVars, worldVars, cacheVars, runVars, TypeInv, LogCacheTypeOK, FileInv,
          Offenses, Lines
  <2>7. CASE \/ \E a \in Addrs, n \in LogNames : WorldWrites(n, a)
             \/ WorldMoves \/ WorldCreates
             \/ \E p \in Patterns : WorldConfigures(p)
    <3>1. CASE \E a \in Addrs, n \in LogNames : WorldWrites(n, a)
      BY <3>1, LogsTyped DEF WorldWrites
    <3>2. CASE WorldMoves \/ WorldCreates
      BY <3>2, LogsTyped DEF WorldMoves, WorldCreates
    <3>3. CASE \E p \in Patterns : WorldConfigures(p)
      BY <3>3, LogsTyped DEF WorldConfigures
    <3>4. QED
      BY <2>7, <3>1, <3>2, <3>3
  <2>9. CASE \E c \in Callers : WorldKillsWaiting(c)
    <3>1. PICK c \in Callers : KilledWaiting(c)
      BY <2>9 DEF WorldKillsWaiting
    <3>2. events' \in 0 .. MaxEvents /\ read' \in [Callers -> Patterns \cup {Gone}]
      BY <3>1, BoundsAssumption DEF KilledWaiting, Event, TypeInv, LogCacheTypeOK
    <3>3. UNCHANGED <<logs, config, cacheVars, pc, runVars, calm, raced, cut>>
      BY <3>1 DEF KilledWaiting
    <3>4. QED
      BY <3>2, <3>3 DEF TypeInv, FileInv, LogCacheTypeOK, cacheVars, runVars, Offenses, Lines
  <2>8. QED
    BY <2>1, <2>2, <2>3, <2>4, <2>5, <2>6, <2>7, <2>9 DEF Next, Service, World
<1>3. QED
  BY <1>1, <1>2, PTL DEF Spec

\* In every reachable state every variable has its type: no count exceeds what the
\* lines of a log can make, torn and merged lines of a crash included.
THEOREM TypeCorrect == Spec => []TypeOK
<1> DEFINE ShellTypes == /\ sh \in {"first", "wait_first", "launch", "read", "sleep", "wait", "pause"}
                         /\ watched \in LogNames \cup {Gone}
                         /\ missed \in {"no", "yes", "run"} /\ blind \in BOOLEAN
<1>1. Init => ShellTypes
  BY DEF Init
<1>2. ShellTypes /\ [Next]_vars => ShellTypes'
  <2> SUFFICES ASSUME ShellTypes, [Next]_vars PROVE ShellTypes'
    OBVIOUS
  <2>1. CASE FirstRun \/ Works \/ Launch \/ ReadEvent \/ NextRun \/ Again
    BY <2>1 DEF FirstRun, Works, Launch, ReadEvent, NextRun, Begins, Again, shellVars, LogNames
  <2>2. CASE RunEnds \/ WorldKills \/ \E c \in Callers : WorldKillsWaiting(c)
    <3>1. watched' = watched
      BY <2>2 DEF RunEnds, WorldKills, WorldKillsWaiting
    <3>2. UNCHANGED <<sh, missed, blind>> \/ \E ok \in BOOLEAN : AfterRun(ok)
      BY <2>2 DEF RunEnds, WorldKills, WorldKillsWaiting, After
    <3>3. QED
      BY <3>1, <3>2 DEF AfterRun
  <2>3. CASE \/ \E a \in Addrs, n \in LogNames : WorldWrites(n, a)
             \/ WorldMoves \/ WorldCreates \/ WorldAsks \/ WorldLocks
             \/ \E p \in Patterns : WorldConfigures(p)
    BY <2>3
    DEF WorldWrites, WorldMoves, WorldCreates, WorldAsks, WorldLocks, WorldConfigures, Misses,
        shellVars, LogNames
  <2>4. CASE UNCHANGED vars
    BY <2>4 DEF vars, shellVars
  <2>5. QED
    BY <2>1, <2>2, <2>3, <2>4 DEF Next, Service, World
<1>3. TypeInv /\ ShellTypes /\ WatchInv => TypeOK
  BY DEF TypeInv, WatchInv, TypeOK
<1> QED
  BY <1>1, <1>2, <1>3, TypeHolds, WatchHolds, PTL DEF Spec

---------------------------------------------------------------------------
(* Sums over at most two logs.                                             *)

\* What Total() is the result of.
IsSum(g, f) ==
  g = [s \in SUBSET DOMAIN f |->
         IF s = {} THEN 0
         ELSE f[CHOOSE x \in s : TRUE] + g[s \ {CHOOSE x \in s : TRUE}]]

LEMMA TotalIsSum ==
  ASSUME NEW f, NEW g, IsSum(g, f)
  PROVE  \E h : IsSum(h, f) /\ Total(f) = h[DOMAIN f]
<1>1. Total(f) = (CHOOSE h : IsSum(h, f))[DOMAIN f]
  BY Zenon DEF IsSum, Total, FoldFunction, FoldFunctionOnSet, MapThenFoldSet
<1>2. IsSum(CHOOSE h : IsSum(h, f), f)
  BY Zenon
<1>3. QED
  BY <1>1, <1>2

\* Of two there is a sum.
LEMMA SumOfTwo ==
  ASSUME NEW f, NEW x, NEW y, DOMAIN f \subseteq {x, y}
  PROVE  \E h : IsSum(h, f) /\ Total(f) = h[DOMAIN f]
<1> DEFINE One(s) == CHOOSE z \in s : TRUE
           Last1(s) == IF s = {} THEN 0 ELSE f[One(s)] + 0
           g == [s \in SUBSET DOMAIN f |-> IF s = {} THEN 0 ELSE f[One(s)] + Last1(s \ {One(s)})]
<1>1. \A s : s # {} => One(s) \in s
  OBVIOUS
<1> HIDE DEF One
<1>2. ASSUME NEW s \in SUBSET DOMAIN f, s # {}
      PROVE  g[s] = f[One(s)] + g[s \ {One(s)}]
  <2> DEFINE r == s \ {One(s)}
  <2>1. r \in SUBSET DOMAIN f /\ One(s) \in s /\ s \subseteq {x, y}
    BY <1>1, <1>2
  <2>2. g[s] = f[One(s)] + Last1(r)
    BY <1>2
  <2>3. r # {} => r \ {One(r)} = {}
    BY <1>1, <2>1
  <2>4. g[r] = IF r = {} THEN 0 ELSE f[One(r)] + Last1(r \ {One(r)})
    BY <2>1
  <2>5. g[r] = Last1(r)
    BY <2>3, <2>4
  <2>6. QED
    BY <2>2, <2>5
<1>3. g[{}] = 0
  OBVIOUS
<1>4. g = [s \in SUBSET DOMAIN f |-> g[s]]
  OBVIOUS
<1> HIDE DEF g
<1>5. g = [s \in SUBSET DOMAIN f |-> IF s = {} THEN 0 ELSE f[One(s)] + g[s \ {One(s)}]]
  BY <1>2, <1>3, <1>4
<1>6. IsSum(g, f)
  BY <1>5 DEF IsSum, One
<1>7. QED
  BY <1>6, TotalIsSum

LEMMA TotalIs ==
  ASSUME NEW D, NEW f \in [D -> Nat], NEW x, NEW y
  PROVE  /\ D = {} => Total(f) = 0
         /\ D = {x} => Total(f) = f[x]
         /\ D = {x, y} /\ x # y => Total(f) = f[x] + f[y]
<1>1. SUFFICES ASSUME D \subseteq {x, y}
               PROVE  /\ D = {} => Total(f) = 0
                      /\ D = {x} => Total(f) = f[x]
                      /\ D = {x, y} /\ x # y => Total(f) = f[x] + f[y]
  OBVIOUS
<1>2. PICK h : IsSum(h, f) /\ Total(f) = h[D]
  BY <1>1, SumOfTwo
<1>3. h = [s \in SUBSET D |-> IF s = {} THEN 0
                             ELSE f[CHOOSE z \in s : TRUE] + h[s \ {CHOOSE z \in s : TRUE}]]
  BY <1>2 DEF IsSum
<1>4. h[{}] = 0
  BY <1>3
<1>5. ASSUME NEW z \in D PROVE h[{z}] = f[z]
  <2>1. (CHOOSE v \in {z} : TRUE) = z
    OBVIOUS
  <2>2. {z} \ {z} = {} /\ {z} # {} /\ {z} \in SUBSET D
    OBVIOUS
  <2>3. h[{z}] = f[z] + h[{}]
    BY <1>3, <2>1, <2>2
  <2>4. f[z] \in Nat
    OBVIOUS
  <2>5. QED
    BY <1>4, <2>3, <2>4
<1>6. ASSUME D = {x, y}, x # y PROVE h[{x, y}] = f[x] + f[y]
  <2>1. PICK v \in {x, y} : v = CHOOSE z \in {x, y} : TRUE
    OBVIOUS
  <2>2. h[{x, y}] = f[v] + h[{x, y} \ {v}]
    BY <1>3, <1>6, <2>1
  <2>3. f[x] \in Nat /\ f[y] \in Nat
    BY <1>6
  <2>4. CASE v = x
    <3>1. {x, y} \ {v} = {y}
      BY <1>6, <2>4
    <3>2. QED
      BY <1>5, <1>6, <2>2, <2>4, <3>1
  <2>5. CASE v = y
    <3>1. {x, y} \ {v} = {x}
      BY <1>6, <2>5
    <3>2. h[{x}] = f[x]
      BY <1>5, <1>6
    <3>3. h[{x, y}] = f[y] + f[x]
      BY <2>2, <2>5, <3>1, <3>2
    <3>4. QED
      BY <2>3, <3>3
  <2>6. QED
    BY <2>1, <2>4, <2>5
<1>7. QED
  BY <1>2, <1>4, <1>5, <1>6

---------------------------------------------------------------------------
(* Lines that are all the same.                                            *)

Same(a, n) == [i \in 1 .. n |-> a]

LEMMA SameIs ==
  ASSUME NEW a, NEW n \in Nat
  PROVE  Same(a, n) \in Seq({a}) /\ Len(Same(a, n)) = n
<1>1. Same(a, n) \in [1 .. n -> {a}]
  BY DEF Same
<1>2. Same(a, n) \in Seq({a})
  BY <1>1, SeqDef
<1>3. QED
  BY <1>1, <1>2, LenProperties

LEMMA SameConcat ==
  ASSUME NEW a, NEW m \in Nat, NEW n \in Nat
  PROVE  Same(a, m) \o Same(a, n) = Same(a, m + n)
<1> DEFINE s == Same(a, m)
           t == Same(a, n)
           u == Same(a, m + n)
<1>1. s \in Seq({a}) /\ t \in Seq({a}) /\ u \in Seq({a}) /\ Len(s) = m /\ Len(t) = n /\ Len(u) = m + n
  BY SameIs
<1> HIDE DEF s, t, u
<1>2. s \o t \in Seq({a}) /\ Len(s \o t) = m + n
  BY <1>1, ConcatProperties
<1>3. \A i \in 1 .. m + n : (s \o t)[i] = a /\ u[i] = a
  <2> TAKE i \in 1 .. m + n
  <2>1. i \in 1 .. Len(s \o t) /\ i \in 1 .. Len(u)
    BY <1>1, <1>2
  <2>2. (s \o t)[i] \in {a} /\ u[i] \in {a}
    BY <1>1, <1>2, <2>1, ElementOfSeq
  <2>3. QED
    BY <2>2
<1>4. s \o t = u
  BY <1>1, <1>2, <1>3, SeqEqual
<1>5. QED
  BY <1>4 DEF s, t, u

\* Every set of numbers that is not empty has a least one.
Less == {p \in Nat \X Nat : p[1] < p[2]}

LEMMA Least ==
  ASSUME NEW S \in SUBSET Nat, S # {}
  PROVE  \E m \in S : \A k \in S : m <= k
<1>1. IsWellFoundedOn(Less, Nat)
  BY NatLessThanWellFounded DEF OpToRel, Less
<1>2. PICK m \in S : \A k \in S : <<k, m>> \notin Less
  BY <1>1, WFMin, Zenon
<1>3. \A k \in S : ~(k < m)
  BY <1>2 DEF Less
<1>4. QED
  BY <1>3

\* What FlattenSeq() is the result of.
IsFlat(g, n, seqs) == g = [i \in 1 .. n |-> IF i = 1 THEN seqs[i] ELSE g[i - 1] \o seqs[i]]

\* Sequences of one element, so many that t[i] elements are in the first i of them.
LEMMA FlattenIs ==
  \A a, seqs : \A n \in Nat : \A t \in [0 .. n -> Nat] :
    /\ Len(seqs) = n /\ (n = 0 => seqs = <<>>) /\ t[0] = 0
    /\ \A i \in 1 .. n : t[i - 1] <= t[i] /\ seqs[i] = Same(a, t[i] - t[i - 1])
    => FlattenSeq(seqs) = Same(a, t[n])
<1> SUFFICES ASSUME NEW a, NEW seqs, NEW n \in Nat, NEW t \in [0 .. n -> Nat],
                    Len(seqs) = n, n = 0 => seqs = <<>>, t[0] = 0,
                    \A i \in 1 .. n : t[i - 1] <= t[i] /\ seqs[i] = Same(a, t[i] - t[i - 1])
             PROVE  FlattenSeq(seqs) = Same(a, t[n])
  BY Zenon
<1>1. CASE n = 0
  <2>1. FlattenSeq(seqs) = <<>>
    BY <1>1 DEF FlattenSeq
  <2>2. Same(a, 0) = <<>>
    <3>1. Same(a, 0) \in Seq({a}) /\ Len(Same(a, 0)) = 0
      BY SameIs
    <3>2. QED
      BY <3>1, EmptySeq
  <2>3. QED
    BY <1>1, <2>1, <2>2
<1>2. CASE n # 0
  <2>1. FlattenSeq(seqs) = (CHOOSE h : IsFlat(h, n, seqs))[n]
    BY <1>2, Zenon DEF FlattenSeq, IsFlat
  <2> DEFINE g == [i \in 1 .. n |-> Same(a, t[i])]
  <2>2. ASSUME NEW i \in 1 .. n, i # 1
        PROVE  Same(a, t[i]) = Same(a, t[i - 1]) \o seqs[i]
    <3>1. i - 1 \in 0 .. n /\ t[i - 1] \in Nat /\ t[i] \in Nat /\ t[i] - t[i - 1] \in Nat
      BY <2>2
    <3>2. Same(a, t[i - 1]) \o Same(a, t[i] - t[i - 1]) = Same(a, t[i - 1] + (t[i] - t[i - 1]))
      <4> DEFINE before == t[i - 1]
                 more == t[i] - t[i - 1]
      <4>1. before \in Nat /\ more \in Nat
        BY <3>1
      <4> HIDE DEF before, more
      <4>2. Same(a, before) \o Same(a, more) = Same(a, before + more)
        BY <4>1, SameConcat
      <4>3. QED
        BY <4>2 DEF before, more
    <3>3. t[i - 1] + (t[i] - t[i - 1]) = t[i]
      BY <3>1
    <3>4. QED
      BY <3>2, <3>3
  <2>3. Same(a, t[1]) = seqs[1]
    <3>1. 1 \in 1 .. n /\ 1 - 1 = 0 /\ t[1] \in Nat
      BY <1>2
    <3>2. seqs[1] = Same(a, t[1] - t[0]) /\ t[1] - t[0] = t[1]
      BY <3>1
    <3>3. QED
      BY <3>2
  <2>4. IsFlat(g, n, seqs)
    <3>1. \A i \in 1 .. n : g[i] = IF i = 1 THEN seqs[i] ELSE g[i - 1] \o seqs[i]
      <4> TAKE i \in 1 .. n
      <4>1. CASE i = 1
        BY <2>3, <4>1
      <4>2. CASE i # 1
        <5>1. i - 1 \in 1 .. n
          BY <4>2
        <5>2. QED
          BY <2>2, <4>2, <5>1
      <4>3. QED
        BY <4>1, <4>2
    <3>2. g = [i \in 1 .. n |-> g[i]]
      OBVIOUS
    <3> HIDE DEF g
    <3>3. QED
      BY <3>1, <3>2 DEF IsFlat
  <2>5. PICK h : h = (CHOOSE f : IsFlat(f, n, seqs)) /\ IsFlat(h, n, seqs)
    BY <2>4, Zenon
  <2> HIDE DEF g
  <2>6. \A i \in 1 .. n : h[i] = Same(a, t[i])
    <3> DEFINE bad == {i \in 1 .. n : h[i] # Same(a, t[i])}
    <3>1. SUFFICES ASSUME bad # {} PROVE FALSE
      OBVIOUS
    <3>2. PICK m \in bad : \A k \in bad : m <= k
      <4>1. bad \in SUBSET Nat
        OBVIOUS
      <4> HIDE DEF bad
      <4>2. QED
        BY <3>1, <4>1, Least
    <3>3. m \in 1 .. n /\ h[m] = IF m = 1 THEN seqs[m] ELSE h[m - 1] \o seqs[m]
      BY <2>5, <3>2 DEF IsFlat
    <3>4. m # 1
      BY <2>3, <3>2, <3>3
    <3>5. m - 1 \in 1 .. n /\ m - 1 \notin bad
      BY <3>2, <3>3, <3>4
    <3>6. h[m - 1] = Same(a, t[m - 1])
      BY <3>5
    <3>7. QED
      BY <2>2, <3>2, <3>3, <3>4, <3>6
  <2>7. QED
    BY <1>2, <2>1, <2>5, <2>6
<1>3. QED
  BY <1>1, <1>2

\* The lines of an address, read where the data base says they are in the same
\* content, are as many as its offenses.
LEMMA ReportedIs ==
  ASSUME NEW p \in Patterns, NEW content \in Contents, NEW a \in Addrs
  PROVE  Reported(p, a, content, content) = Same(a, Offenses(p, content)[a])
<1> DEFINE n == Len(content)
           K(i) == {k \in 1 .. i : content[k] = a}
           t == [i \in 0 .. n |-> p[a] * Cardinality(K(i))]
           seqs == [i \in DOMAIN content |->
                      IF content[i] = a
                      THEN [k \in 1 .. p[a] |-> IF i \in DOMAIN content THEN content[i] ELSE Gone]
                      ELSE <<>>]
<1>1. n \in Nat /\ DOMAIN content = 1 .. n
  <2>1. n \in 0 .. MaxLen /\ content \in [1 .. n -> Addrs]
    BY ContentIs
  <2>2. QED
    BY <2>1, BoundsAssumption
<1>2. p[a] \in Nat
  BY PatternsAssumption, BoundsAssumption
<1> HIDE DEF n
<1>3. ASSUME NEW i \in 0 .. n
      PROVE  IsFiniteSet(K(i)) /\ Cardinality(K(i)) \in Nat
  <2>1. IsFiniteSet(1 .. i)
    BY <1>1, FS_Interval
  <2>2. K(i) \subseteq 1 .. i
    OBVIOUS
  <2> HIDE DEF K
  <2>3. QED
    BY <2>1, <2>2, FS_Subset, FS_CardinalityType
<1>4. t \in [0 .. n -> Nat]
  <2>1. ASSUME NEW i \in 0 .. n PROVE p[a] * Cardinality(K(i)) \in Nat
    <3> DEFINE c == Cardinality(K(i))
    <3>1. c \in Nat
      BY <1>3
    <3> HIDE DEF c
    <3>2. p[a] * c \in Nat
      BY <1>2, <3>1
    <3>3. QED
      BY <3>2 DEF c
  <2>2. QED
    BY <2>1
<1>5. t[0] = 0
  <2>1. K(0) = {} /\ 0 \in 0 .. n
    BY <1>1
  <2> HIDE DEF K
  <2>2. Cardinality(K(0)) = 0
    BY <2>1, FS_EmptySet
  <2>3. QED
    BY <1>2, <2>1, <2>2
<1>6. ASSUME NEW i \in 1 .. n
      PROVE  t[i - 1] <= t[i] /\ seqs[i] = Same(a, t[i] - t[i - 1])
  <2>1. i - 1 \in 0 .. n /\ i \in 0 .. n /\ i \in DOMAIN content
    BY <1>1
  <2>2. Cardinality(K(i - 1)) \in Nat /\ Cardinality(K(i)) \in Nat /\ IsFiniteSet(K(i - 1))
    BY <1>3, <2>1
  <2> DEFINE c == Cardinality(K(i - 1))
             d == Cardinality(K(i))
  <2>3. t[i - 1] = p[a] * c /\ t[i] = p[a] * d
    BY <2>1
  <2>4. CASE content[i] = a
    <3>1. K(i) = K(i - 1) \cup {i} /\ i \notin K(i - 1)
      BY <2>4
    <3>2. d = c + 1
      <4> HIDE DEF K
      <4>1. QED
        BY <2>2, <3>1, FS_AddElement
    <3>3. p[a] * d = p[a] * c + p[a] /\ p[a] * c \in Nat
      <4> HIDE DEF c, d
      <4>1. c \in Nat
        BY <2>2 DEF c
      <4>2. QED
        BY <1>2, <3>2, <4>1
    <3>4. t[i] - t[i - 1] = p[a] /\ t[i - 1] <= t[i]
      <4> HIDE DEF t, c, d
      <4>1. QED
        BY <1>2, <2>3, <3>3
    <3>5. seqs[i] = Same(a, p[a])
      BY <2>1, <2>4 DEF Same
    <3>6. QED
      BY <3>4, <3>5
  <2>5. CASE content[i] # a
    <3>1. K(i) = K(i - 1)
      <4>1. \A k \in 1 .. i : k \in 1 .. i - 1 \/ k = i
        BY <1>1
      <4>2. \A k \in 1 .. i - 1 : k \in 1 .. i
        BY <1>1
      <4>3. QED
        BY <2>5, <4>1, <4>2
    <3>2. t[i] = t[i - 1] /\ t[i] \in Nat
      BY <1>4, <2>1, <2>3, <3>1
    <3>3. seqs[i] = <<>>
      BY <2>1, <2>5
    <3>4. Same(a, 0) = <<>>
      <4>1. Same(a, 0) \in Seq({a}) /\ Len(Same(a, 0)) = 0
        BY SameIs
      <4>2. QED
        BY <4>1, EmptySeq
    <3>5. t[i] - t[i - 1] = 0 /\ t[i - 1] <= t[i]
      <4> HIDE DEF t
      <4>1. QED
        BY <3>2
    <3> HIDE DEF t, seqs
    <3>6. QED
      BY <3>3, <3>4, <3>5
  <2>6. QED
    BY <2>4, <2>5
<1>7. Len(seqs) = n /\ (n = 0 => seqs = <<>>)
  <2> DEFINE S == {seqs[i] : i \in DOMAIN content}
  <2>1. seqs \in [1 .. n -> S]
    BY <1>1
  <2> HIDE DEF S, seqs
  <2>2. seqs \in Seq(S)
    BY <1>1, <2>1, SeqDef
  <2>3. Len(seqs) = n
    BY <1>1, <2>1, <2>2, LenProperties
  <2>4. QED
    BY <2>2, <2>3, EmptySeq
<1>8. Reported(p, a, content, content) = FlattenSeq(seqs)
  BY DEF Reported
<1>9. t[n] = Offenses(p, content)[a]
  <2>1. K(n) = Lines(content, a)
    BY <1>1 DEF Lines
  <2>2. n \in 0 .. n
    BY <1>1
  <2>3. QED
    BY <2>1, <2>2 DEF Offenses
<1> HIDE DEF t, seqs
<1>10. FlattenSeq(seqs) = Same(a, t[n])
  <2>1. \A i \in 1 .. n : t[i - 1] <= t[i] /\ seqs[i] = Same(a, t[i] - t[i - 1])
    BY <1>6
  <2>2. n \in Nat /\ t \in [0 .. n -> Nat] /\ t[0] = 0 /\ Len(seqs) = n /\ (n = 0 => seqs = <<>>)
    BY <1>1, <1>4, <1>5, <1>7
  <2>3. QED
    BY <2>1, <2>2, FlattenIs, Zenon
<1>11. QED
  BY <1>8, <1>9, <1>10

---------------------------------------------------------------------------
(* The offenses of all logs are counted.                                   *)

Reading == {"look", "write", "close", "add"}

\* The lines of an address that a run asked about it has of some content: as many
\* as the offenses, or less if the cache file is among those that lost their data base.
Gives(p, a, lines, content, lost) ==
  a # Gone => \E n \in 0 .. Offenses(p, content)[a] :
                /\ lines = Same(a, n)
                /\ <<p, content>> \notin lost => n = Offenses(p, content)[a]

\* What is found of a log is right, if no cache file is involved that is not.
Right(p, a, item, marks, lost) ==
  <<p, item[1]>> \notin marks =>
    item[2] = Offenses(p, item[1]) /\ Gives(p, a, item[3], item[1], lost)

InHand == <<sumStr, file.counts, file.lines>>

\* On logs that stay as they are, what a run has done with and what it has yet to look
\* at make up what is listed, in this order; and what is in hand, and what was found of
\* each log, is right.
CountInv ==
  /\ pc \in {"idle", "flush", "dir"} => ~calm /\ file_map = <<>>
  /\ calm =>
       /\ Len(Names) = Len(file_map) + Len(fname_vec)
       /\ \A j \in 1 .. Len(fname_vec) : fname_vec[j] = Names[Len(file_map) + j]
       /\ \A i \in 1 .. Len(file_map) :
            /\ file_map[i][1] = logs[Names[i]]
            /\ Right(targets, asked, file_map[i], raced, cut)
       /\ pc \in Reading => sumStr = logs[Head(fname_vec)] /\ sumStr # Gone
       /\ pc \in {"write", "close", "add"} => Right(targets, asked, InHand, raced, cut)
       /\ pc \in {"clean", "others", "done"} => fname_vec = <<>>

\* It stays right as long as the marks it relies on stay.
LEMMA RightKept ==
  ASSUME NEW p, NEW a, NEW item, NEW marks, NEW lost, NEW marks2, NEW lost2,
         Right(p, a, item, marks, lost),
         <<p, item[1]>> \in marks => <<p, item[1]>> \in marks2,
         <<p, item[1]>> \in lost => <<p, item[1]>> \in lost2
  PROVE  Right(p, a, item, marks2, lost2)
<1>1. ASSUME Gives(p, a, item[3], item[1], lost)
      PROVE  Gives(p, a, item[3], item[1], lost2)
  BY <1>1 DEF Gives
<1>2. QED
  BY <1>1 DEF Right

LEMMA SameNames ==
  ASSUME UNCHANGED logs
  PROVE  Names' = Names
BY DEF Names, Listed

LEMMA CountStops ==
  ASSUME ~calm', pc' \notin {"idle", "flush", "dir"} \/ file_map' = <<>>
  PROVE  CountInv'
BY DEF CountInv

\* No mark goes that concerns what a run is done with.
MarksStay ==
  \A i \in 1 .. Len(file_map) :
    /\ <<targets, file_map[i][1]>> \in raced => <<targets, file_map[i][1]>> \in raced'
    /\ <<targets, file_map[i][1]>> \in cut => <<targets, file_map[i][1]>> \in cut'

\* A step of a run that leaves what it is done with as it was.
LEMMA CountGoesOn ==
  ASSUME CountInv, UNCHANGED <<logs, calm, targets, asked, fname_vec, file_map>>,
         MarksStay, pc' \notin {"idle", "flush", "dir"},
         calm /\ pc' \in Reading => sumStr' = logs[Head(fname_vec)] /\ sumStr' # Gone,
         calm /\ pc' \in {"write", "close", "add"} => Right(targets, asked, InHand', raced', cut'),
         calm /\ pc' \in {"clean", "others", "done"} => fname_vec = <<>>
  PROVE  CountInv'
<1>1. CASE ~calm
  BY <1>1, CountStops
<1>2. CASE calm
  <2>1. Names' = Names
    BY SameNames
  <2>2. /\ Len(Names) = Len(file_map) + Len(fname_vec)
        /\ \A j \in 1 .. Len(fname_vec) : fname_vec[j] = Names[Len(file_map) + j]
    BY <1>2 DEF CountInv
  <2>3. \A i \in 1 .. Len(file_map) :
          /\ file_map[i][1] = logs[Names[i]]
          /\ Right(targets, asked, file_map[i], raced, cut)
    BY <1>2 DEF CountInv
  <2>4. \A i \in 1 .. Len(file_map) : Right(targets, asked, file_map[i], raced', cut')
    BY <2>3, RightKept DEF MarksStay
  <2>5. (pc \in Reading => sumStr = logs[Head(fname_vec)] /\ sumStr # Gone)'
    BY <1>2 DEF Reading
  <2>6. /\ Right(targets', asked', InHand', raced', cut') \/ pc' \notin {"write", "close", "add"}
        /\ \A i \in 1 .. Len(file_map') : Right(targets', asked', file_map'[i], raced', cut')
    BY <1>2, <2>4
  <2>7. QED
    BY <1>2, <2>1, <2>2, <2>3, <2>5, <2>6 DEF CountInv
<1>3. QED
  BY <1>1, <1>2

\* Whom it does not concern.
LEMMA CountUntouched ==
  ASSUME CountInv, UNCHANGED <<pc, runVars, raced, cut>>,
         ~calm' \/ UNCHANGED <<logs, calm>>
  PROVE  CountInv'
<1>1. UNCHANGED <<targets, asked, fname_vec, sumStr, file, file_map>>
  BY DEF runVars
<1>2. CASE pc \in {"idle", "flush", "dir"}
  BY <1>1, <1>2, CountStops DEF CountInv
<1>3. CASE pc \notin {"idle", "flush", "dir"} /\ ~calm'
  BY <1>1, <1>3, CountStops
<1>4. CASE pc \notin {"idle", "flush", "dir"} /\ UNCHANGED <<logs, calm>>
  <2>1. InHand' = InHand /\ MarksStay
    BY <1>1 DEF InHand, MarksStay
  <2>2. calm => /\ pc \in Reading => sumStr = logs[Head(fname_vec)] /\ sumStr # Gone
                /\ pc \in {"write", "close", "add"} => Right(targets, asked, InHand, raced, cut)
                /\ pc \in {"clean", "others", "done"} => fname_vec = <<>>
    BY DEF CountInv
  <2>3. QED
    BY <1>1, <1>4, <2>1, <2>2, CountGoesOn
<1>5. QED
  BY <1>2, <1>3, <1>4

\* All the lines there are, or none.
LEMMA AllGiven ==
  ASSUME NEW p \in Patterns, NEW content \in Contents, NEW a \in Addrs \cup {Gone}, NEW lost
  PROVE  Gives(p, a, IF a = Gone THEN <<>> ELSE Reported(p, a, content, content), content, lost)
<1>1. CASE a = Gone
  BY <1>1 DEF Gives
<1>2. CASE a # Gone
  <2>1. Reported(p, a, content, content) = Same(a, Offenses(p, content)[a])
    BY <1>2, ReportedIs
  <2>2. Offenses(p, content)[a] \in Nat
    BY <1>2, OffensesAre, BoundsAssumption DEF Counts
  <2>3. Offenses(p, content)[a] \in 0 .. Offenses(p, content)[a]
    BY <2>2
  <2>4. QED
    BY <1>2, <2>1, <2>3 DEF Gives
<1>3. QED
  BY <1>1, <1>2

LEMMA NoneGiven ==
  ASSUME NEW p \in Patterns, NEW content \in Contents, NEW a \in Addrs \cup {Gone}, NEW lost,
         a # Gone => Offenses(p, content)[a] = 0 \/ <<p, content>> \in lost
  PROVE  Gives(p, a, <<>>, content, lost)
<1>1. CASE a = Gone
  BY <1>1 DEF Gives
<1>2. CASE a # Gone
  <2>1. Same(a, 0) = <<>>
    <3>1. Same(a, 0) \in Seq({a}) /\ Len(Same(a, 0)) = 0
      BY SameIs
    <3>2. QED
      BY <3>1, EmptySeq
  <2>2. Offenses(p, content)[a] \in Nat
    BY <1>2, OffensesAre, BoundsAssumption DEF Counts
  <2>3. 0 \in 0 .. Offenses(p, content)[a]
    BY <2>2
  <2>4. QED
    BY <1>2, <2>1, <2>3 DEF Gives
<1>3. QED
  BY <1>1, <1>2

\* From a cache file that is right, and has its data base, all lines come.
LEMMA LoadCounts ==
  ASSUME TypeInv, CacheInv, CountInv, Load
  PROVE  CountInv'
<1>1. /\ pc = "look" /\ Key \in DOMAIN cache /\ pc' \in {"aborted", "add"}
      /\ UNCHANGED <<logs, targets, asked, fname_vec, sumStr, file_map, calm, raced, cut>>
  BY DEF Load, Goto, worldVars
<1>2. ASSUME calm, pc' = "add"
      PROVE  Right(targets, asked, InHand', raced', cut')
  <2>1. CASE Key \in raced
    BY <1>1, <2>1 DEF Right, InHand, Key
  <2>2. CASE Key \notin raced
    <3>1. FileTrue(Key)
      BY <1>1, <2>2 DEF CacheInv, CacheTrue
    <3>2. sumStr = logs[Head(fname_vec)] /\ sumStr # Gone
      BY <1>1, <1>2 DEF CountInv, Reading
    <3>3. targets \in Patterns /\ sumStr \in Contents /\ asked \in Addrs \cup {Gone}
      BY AskedAssumption DEF TypeInv, LogCacheTypeOK
    <3> DEFINE known == asked # Gone /\ HasLines(asked)
    <3>4. file' = Found(cache[Key].counts, <<>>,
                        IF known THEN Reported(targets, asked, dbs[Key][asked], sumStr) ELSE <<>>)
      BY <1>2, <3>2 DEF Load, Goto
    <3>5. cache[Key].counts = Offenses(targets, sumStr)
      BY <3>1 DEF FileTrue, CacheFile, Key
    <3>6. file'.counts = Offenses(targets, sumStr)
      BY <3>4, <3>5 DEF Found
    <3>7. Gives(targets, asked, file'.lines, sumStr, cut)
      <4>1. CASE known
        <5>1. Key \in DOMAIN dbs /\ cache[Key].counts[asked] > 0 /\ asked \in Addrs
          BY <3>3, <4>1 DEF HasLines
        <5>2. dbs[Key][asked] = sumStr
          BY <3>1, <5>1 DEF FileTrue, DbTrue, Key
        <5>3. file'.lines = IF asked = Gone THEN <<>> ELSE Reported(targets, asked, sumStr, sumStr)
          BY <3>4, <4>1, <5>2 DEF Found
        <5>4. QED
          BY <3>3, <5>3, AllGiven
      <4>2. CASE ~known
        <5>1. file'.lines = <<>>
          BY <3>4, <4>2 DEF Found
        <5>2. ASSUME asked # Gone
              PROVE  Offenses(targets, sumStr)[asked] = 0 \/ <<targets, sumStr>> \in cut
          <6>1. asked \in Addrs /\ ~HasLines(asked)
            BY <3>3, <4>2, <5>2
          <6>2. Offenses(targets, sumStr)[asked] \in Nat
            BY <3>3, <6>1, OffensesAre, BoundsAssumption DEF Counts
          <6>3. Key \in cut \/ ~(cache[Key].counts[asked] > 0)
            BY <3>1, <3>2, <6>1 DEF HasLines, FileTrue, DbTrue, Key
          <6>4. QED
            BY <3>5, <6>2, <6>3 DEF Key
        <5>3. QED
          BY <3>3, <5>1, <5>2, NoneGiven
      <4>3. QED
        BY <4>1, <4>2
    <3>8. QED
      BY <1>1, <3>6, <3>7 DEF Right, InHand
  <2>3. QED
    BY <2>1, <2>2
<1>3. calm => sumStr = logs[Head(fname_vec)] /\ sumStr # Gone
  BY <1>1 DEF CountInv, Reading
<1>4. MarksStay
  BY <1>1 DEF MarksStay
<1>5. QED
  BY <1>1, <1>2, <1>3, <1>4, CountGoesOn

\* Only the mark of the cache file that is not there yet goes.
LEMMA ScanCounts ==
  ASSUME TypeInv, BoundInv, CountInv, Scan
  PROVE  CountInv'
<1>1. /\ pc = "look" /\ pc' \in {"aborted", "write"} /\ Key \notin DOMAIN cache
      /\ UNCHANGED <<logs, targets, asked, fname_vec, sumStr, file_map, calm, cut>>
      /\ raced \ {Key} \subseteq raced'
  BY DEF Scan, Goto, worldVars
<1>2. calm => sumStr = logs[Head(fname_vec)] /\ sumStr # Gone
  BY <1>1 DEF CountInv, Reading
<1>3. ASSUME calm, pc' = "write"
      PROVE  Right(targets, asked, InHand', raced', cut')
  <2>1. targets \in Patterns /\ sumStr \in Contents /\ asked \in Addrs \cup {Gone}
    BY AskedAssumption DEF TypeInv, LogCacheTypeOK
  <2>2. file' = Found(Offenses(targets, sumStr), sumStr,
                      IF asked = Gone THEN <<>> ELSE Reported(targets, asked, sumStr, sumStr))
    BY <1>2, <1>3 DEF Scan, Goto
  <2>3. file'.counts = Offenses(targets, sumStr)
    BY <2>2 DEF Found
  <2>4. file'.lines = IF asked = Gone THEN <<>> ELSE Reported(targets, asked, sumStr, sumStr)
    BY <2>2 DEF Found
  <2>5. Gives(targets, asked, file'.lines, sumStr, cut)
    BY <2>1, <2>4, AllGiven
  <2>6. QED
    BY <1>1, <2>3, <2>5 DEF Right, InHand
<1>4. MarksStay
  <2>1. PICK S : file_map \in Seq(S)
    BY DEF TypeInv, FileInv
  <2>2. \A i \in 1 .. Len(file_map) : <<targets, file_map[i][1]>> \in DOMAIN cache
    BY <2>1, LenProperties DEF BoundInv
  <2>3. QED
    BY <1>1, <2>2 DEF MarksStay
<1>5. QED
  BY <1>1, <1>2, <1>3, <1>4, CountGoesOn

LEMMA AddCounts ==
  ASSUME TypeInv, CountInv, AddFile
  PROVE  CountInv'
<1> DEFINE item == InHand
           m == Len(file_map)
           n == Len(fname_vec)
<1>1. /\ pc = "add" /\ pc' = "sum" /\ fname_vec' = Tail(fname_vec)
      /\ file_map' = Append(file_map, item)
      /\ UNCHANGED <<logs, targets, asked, sumStr, file, calm, raced, cut>>
  BY DEF AddFile, Goto, worldVars, InHand
<1>2. CASE ~calm
  BY <1>1, <1>2, CountStops
<1>3. CASE calm
  <2>1. PICK S : file_map \in Seq(S)
    BY DEF TypeInv, FileInv
  <2>2. item[1] = sumStr
    BY DEF InHand
  <2> HIDE DEF item
  <2>3. file_map \in Seq(S \cup {item})
    BY <2>1, SeqMonotonic
  <2>4. /\ m \in Nat /\ Len(file_map') = m + 1 /\ file_map'[m + 1] = item
        /\ \A i \in 1 .. m : file_map'[i] = file_map[i]
    BY <1>1, <2>3, AppendProperties, LenProperties
  <2>5. fname_vec \in Seq(LogNames) /\ fname_vec # <<>>
    BY <1>1 DEF TypeInv, FileInv, LogCacheTypeOK
  <2>6. /\ n \in Nat \ {0} /\ Len(Tail(fname_vec)) = n - 1 /\ Head(fname_vec) = fname_vec[1]
        /\ \A j \in 1 .. n - 1 : Tail(fname_vec)[j] = fname_vec[j + 1]
    BY <2>5, HeadTailProperties, LenProperties, EmptySeq
  <2>7. /\ Len(Names) = m + n
        /\ \A j \in 1 .. n : fname_vec[j] = Names[m + j]
        /\ \A i \in 1 .. m :
            /\ file_map[i][1] = logs[Names[i]]
            /\ Right(targets, asked, file_map[i], raced, cut)
        /\ sumStr = logs[Head(fname_vec)]
        /\ Right(targets, asked, item, raced, cut)
    BY <1>1, <1>3 DEF CountInv, Reading, item
  <2>8. item[1] = logs[Names[m + 1]]
    <3>1. fname_vec[1] = Names[m + 1]
      BY <2>6, <2>7
    <3>2. QED
      BY <2>2, <2>6, <2>7, <3>1
  <2>10. Names' = Names
    BY <1>1, SameNames
  <2> HIDE DEF m, n
  <2>11. \A i \in 1 .. m + 1 :
            /\ file_map'[i][1] = logs[Names[i]]
            /\ Right(targets, asked, file_map'[i], raced, cut)
    <3> TAKE i \in 1 .. m + 1
    <3>1. CASE i = m + 1
      BY <2>4, <2>7, <2>8, <3>1
    <3>2. CASE i # m + 1
      <4>1. i \in 1 .. m
        BY <2>4, <3>2
      <4>2. QED
        BY <2>4, <2>7, <4>1
    <3>3. QED
      BY <3>1, <3>2
  <2>12. Len(Names) = (m + 1) + (n - 1)
    BY <2>4, <2>6, <2>7
  <2>13. \A j \in 1 .. n - 1 : Tail(fname_vec)[j] = Names[(m + 1) + j]
    <3> TAKE j \in 1 .. n - 1
    <3>1. j + 1 \in 1 .. n /\ m + (j + 1) = (m + 1) + j
      BY <2>4, <2>6
    <3>2. QED
      BY <2>6, <2>7, <3>1
  <2>14. /\ Len(fname_vec') = n - 1 /\ Len(file_map') = m + 1
    BY <1>1, <2>4, <2>6
  <2>16. QED
    BY <1>1, <2>10, <2>11, <2>12, <2>13, <2>14 DEF CountInv, Reading
<1>4. QED
  BY <1>2, <1>3

LEMMA ReadDirCounts ==
  ASSUME CountInv, ReadDir
  PROVE  CountInv'
<1>1. /\ pc = "dir" /\ pc' = "sum" /\ fname_vec' = Names /\ calm'
      /\ UNCHANGED <<logs, targets, asked, file_map, raced, cut>>
  BY DEF ReadDir, Goto, worldVars
<1>2. file_map = <<>> /\ Len(file_map) = 0
  <2>1. file_map = <<>>
    BY <1>1 DEF CountInv
  <2>2. QED
    BY <2>1
<1>3. Names' = Names
  BY <1>1, SameNames
<1>4. Names \in Seq(LogNames) /\ Len(Names) \in Nat
  BY NamesAre, LenProperties
<1>5. /\ Len(Names') = Len(file_map') + Len(fname_vec')
      /\ \A j \in 1 .. Len(fname_vec') : fname_vec'[j] = Names'[Len(file_map') + j]
  BY <1>1, <1>2, <1>3, <1>4
<1>6. \A i \in 1 .. Len(file_map') : FALSE
  BY <1>1, <1>2
<1>7. QED
  BY <1>1, <1>5, <1>6 DEF CountInv, Reading

LEMMA ChecksumCounts ==
  ASSUME CountInv, Checksum
  PROVE  CountInv'
<1>1. /\ UNCHANGED <<logs, targets, asked, fname_vec, file_map, calm, raced, cut>>
      /\ \/ pc' = "aborted"
         \/ pc' = "look" /\ sumStr' = logs[Head(fname_vec)] /\ sumStr' # Gone
  BY DEF Checksum, Goto, worldVars
<1>2. MarksStay
  BY <1>1 DEF MarksStay
<1>3. QED
  BY <1>1, <1>2, CountGoesOn DEF Reading

LEMMA WriteCounts ==
  ASSUME CountInv, OpenCache \/ CloseCache
  PROVE  CountInv'
<1>1. /\ UNCHANGED <<logs, targets, asked, fname_vec, sumStr, file, file_map, calm, raced, cut>>
      /\ pc \in {"write", "close"} /\ pc' \in {"close", "add"}
  BY DEF OpenCache, CloseCache, Goto, worldVars, runVars
<1>2. InHand' = InHand /\ MarksStay
  BY <1>1 DEF InHand, MarksStay
<1>3. calm => /\ sumStr = logs[Head(fname_vec)] /\ sumStr # Gone
              /\ Right(targets, asked, InHand, raced, cut)
  BY <1>1 DEF CountInv, Reading
<1>4. QED
  BY <1>1, <1>2, <1>3, CountGoesOn

\* What is removed is none of what the run is done with.
LEMMA RemovalCounts ==
  ASSUME TypeInv, BoundInv, CountInv,
         \/ CleanUp \/ Removed
         \/ \E k \in Files : UnlinkCache(k) \/ UnlinkDb(k)
         \/ \E d \in cacheDirs : Rmdir(d)
  PROVE  CountInv'
<1>1. /\ UNCHANGED <<logs, targets, asked, fname_vec, sumStr, file, file_map, calm, raced>>
      /\ pc' \in {"flush", "dir", "clean", "others", "aborted", "done"}
      /\ fname_vec = <<>> \/ pc \in {"flush", "clean", "others"}
      /\ pc' \in {"flush", "dir"} => pc = "flush"
      /\ pc' \in {"clean", "others", "done"} => pc # "flush"
  BY DEF CleanUp, Removed, UnlinkCache, UnlinkDb, Rmdir, Unwanted, UnwantedDirs, Goto, worldVars,
         runVars
<1>2. CASE pc = "flush"
  BY <1>1, <1>2, CountStops DEF CountInv
<1>3. CASE pc # "flush"
  <2>1. calm /\ pc \in {"clean", "others"} => fname_vec = <<>>
    BY DEF CountInv
  <2>2. MarksStay
    <3>1. cut' = cut \/ \E k \in Files : UnlinkCache(k) \/ UnlinkDb(k)
      BY DEF CleanUp, Removed, Rmdir
    <3>2. ASSUME NEW k \in Files, UnlinkCache(k)
          PROVE  \A i \in 1 .. Len(file_map) : <<targets, file_map[i][1]>> # k
      <4>1. PICK S : file_map \in Seq(S)
        BY DEF TypeInv, FileInv
      <4>2. \A i \in 1 .. Len(file_map) : file_map[i][1] \in Sums
        BY <4>1, LenProperties DEF Sums
      <4>3. k \in Unwanted /\ pc \in {"clean", "others"}
        BY <1>3, <3>2 DEF UnlinkCache, Unwanted
      <4>4. CASE pc = "clean"
        BY <4>2, <4>3, <4>4 DEF Unwanted, InUse
      <4>5. CASE pc = "others"
        BY <4>3, <4>5 DEF Unwanted
      <4>6. QED
        BY <4>3, <4>4, <4>5
    <3>3. QED
      BY <1>1, <3>1, <3>2 DEF MarksStay, UnlinkCache, UnlinkDb
  <2>3. QED
    BY <1>1, <1>3, <2>1, <2>2, CountGoesOn DEF Reading
<1>4. QED
  BY <1>2, <1>3

LEMMA CountHolds == Spec => []CountInv
<1>1. Init => CountInv
  BY DEF Init, LogCacheInit, CountInv
<1>2. TypeInv /\ CacheInv /\ BoundInv /\ CountInv /\ [Next]_vars => CountInv'
  <2> SUFFICES ASSUME TypeInv, CacheInv, BoundInv, CountInv, [Next]_vars PROVE CountInv'
    OBVIOUS
  <2>1. CASE WorldLocks \/ Lock("service", Gone)
    <3>1. PICK c, a : Lock(c, a)
      BY <2>1 DEF WorldLocks
    <3>2. ~calm' /\ file_map' = <<>>
      BY <3>1 DEF Lock, CountInv
    <3>3. QED
      BY <3>2, CountStops
  <2>2. CASE Works /\ RunStep
    BY <2>2, ReadDirCounts, ChecksumCounts, LoadCounts, ScanCounts, WriteCounts, AddCounts,
       RemovalCounts
    DEF RunStep
  <2>3. CASE RunEnds \/ WorldKills
    <3>1. ~calm' /\ file_map' = <<>>
      BY <2>3 DEF RunEnds, WorldKills, Exit, Killed, Forgotten
    <3>2. QED
      BY <3>1, CountStops
  <2>4. CASE Launch \/ ReadEvent \/ Again \/ UNCHANGED vars
    <3>1. UNCHANGED <<logs, pc, runVars, calm, raced, cut>>
      BY <2>4 DEF Launch, ReadEvent, Again, vars, logCacheVars, worldVars
    <3>2. QED
      BY <3>1, CountUntouched
  <2>5. CASE \/ \E a \in Addrs, n \in LogNames : WorldWrites(n, a)
             \/ WorldMoves \/ WorldCreates
    <3>1. UNCHANGED <<pc, runVars, raced, cut>> /\ ~calm'
      BY <2>5 DEF WorldWrites, WorldMoves, WorldCreates, Written, Moved, Created, Disturb
    <3>2. QED
      BY <3>1, CountUntouched
  <2>6. CASE \E p \in Patterns : WorldConfigures(p)
    <3>1. UNCHANGED <<logs, pc, runVars, calm, raced, cut>>
      BY <2>6 DEF WorldConfigures, Configured
    <3>2. QED
      BY <3>1, CountUntouched
  <2>7. CASE FirstRun \/ NextRun \/ WorldAsks \/ \E c \in Callers : WorldKillsWaiting(c)
    <3>1. UNCHANGED <<logs, pc, runVars, calm, raced, cut>>
      BY <2>7 DEF FirstRun, NextRun, WorldAsks, WorldKillsWaiting, Begins, ReadConfig, KilledWaiting
    <3>2. QED
      BY <3>1, CountUntouched
  <2>8. QED
    BY <2>1, <2>2, <2>3, <2>4, <2>5, <2>6, <2>7 DEF Next, Service, World, Works
<1>3. QED
  BY <1>1, <1>2, CacheHolds, TypeHolds, BoundHolds, PTL DEF Spec

---------------------------------------------------------------------------
(* What is reported.                                                       *)

\* There are at most two logs, the names of which differ.
LEMMA NamesList ==
  /\ Len(Names) \in {0, 1, 2}
  /\ \A i, j \in 1 .. Len(Names) : i # j => Names[i] # Names[j]
  /\ {l \in LogNames : logs[l] # Gone} = {Names[i] : i \in 1 .. Len(Names)}
<1>1. CASE logs["log"] = Gone /\ logs["log.1"] = Gone
  <2>1. Names = <<>>
    BY <1>1 DEF Names, Listed
  <2>2. QED
    BY <1>1, <2>1 DEF LogNames
<1>2. CASE logs["log"] # Gone /\ logs["log.1"] = Gone
  <2>1. Names = <<"log">>
    BY <1>2 DEF Names, Listed
  <2>2. QED
    BY <1>2, <2>1 DEF LogNames
<1>3. CASE logs["log"] = Gone /\ logs["log.1"] # Gone
  <2>1. Names = <<"log.1">>
    BY <1>3 DEF Names, Listed
  <2>2. QED
    BY <1>3, <2>1 DEF LogNames
<1>4. CASE logs["log"] # Gone /\ logs["log.1"] # Gone
  <2> DEFINE first == <<"log">>
             second == <<"log.1">>
  <2>1. /\ Names = first \o second
        /\ first \in Seq(LogNames) /\ Len(first) = 1 /\ first[1] = "log"
        /\ second \in Seq(LogNames) /\ Len(second) = 1 /\ second[1] = "log.1"
    BY <1>4 DEF Names, Listed, LogNames
  <2> HIDE DEF first, second
  <2>2. Len(Names) = 2 /\ Names[1] = "log" /\ Names[2] = "log.1"
    BY <2>1, ConcatProperties
  <2>3. 1 .. Len(Names) = {1, 2}
    BY <2>2
  <2> HIDE DEF Names
  <2>4. QED
    BY <1>4, <2>2, <2>3 DEF LogNames
<1>5. QED
  BY <1>1, <1>2, <1>3, <1>4

\* A run that ends well, on logs that stayed as they were, has counted every offense
\* of every log, whether it scanned the log or read a cache file that no crash and no
\* race had touched.  Asked about an address it reports lines of that address, no more
\* than it counted, and all of them if no cache file it used had lost its data base to a
\* run that died between the two removals.
THEOREM CountsCorrect == Spec => []CountsTrue
<1>1. TypeInv /\ CountInv => CountsTrue
  <2> SUFFICES ASSUME TypeInv, CountInv, pc = "done", calm,
                      \A s \in Sums : <<targets, s>> \notin raced
               PROVE  /\ \A a \in Addrs :
                           Composite(a) = Total([n \in {l \in LogNames : logs[l] # Gone} |->
                                                   Offenses(targets, logs[n])[a]])
                      /\ asked # Gone =>
                           \E m \in 0 .. Composite(asked) :
                             /\ Report = [i \in 1 .. m |-> asked]
                             /\ (\A s \in Sums : <<targets, s>> \notin cut) => m = Composite(asked)
    BY DEF CountsTrue
  <2> DEFINE n == Len(Names)
             Present == {l \in LogNames : logs[l] # Gone}
             Off(i, a) == Offenses(targets, logs[Names[i]])[a]
  <2>1. /\ n \in {0, 1, 2}
        /\ \A i, j \in 1 .. n : i # j => Names[i] # Names[j]
        /\ Present = {Names[i] : i \in 1 .. n}
    BY NamesList
  <2>2. Len(file_map) = n /\ DOMAIN file_map = 1 .. n
    <3>1. fname_vec = <<>> /\ Len(fname_vec) = 0
      <4>1. fname_vec = <<>>
        BY DEF CountInv
      <4>2. QED
        BY <4>1
    <3>2. PICK S : file_map \in Seq(S)
      BY DEF TypeInv, FileInv
    <3>3. Len(file_map) \in Nat /\ DOMAIN file_map = 1 .. Len(file_map)
      BY <3>2, LenProperties
    <3>4. n = Len(file_map) + Len(fname_vec)
      BY DEF CountInv
    <3> HIDE DEF n
    <3>5. QED
      BY <3>1, <3>3, <3>4
  <2>3. ASSUME NEW i \in 1 .. n
        PROVE  /\ file_map[i][2] = Offenses(targets, logs[Names[i]])
               /\ Gives(targets, asked, file_map[i][3], logs[Names[i]], cut)
               /\ logs[Names[i]] \in Sums
    <3>1. file_map[i][1] \in Sums
      BY <2>2 DEF Sums
    <3>2. file_map[i][1] = logs[Names[i]] /\ Right(targets, asked, file_map[i], raced, cut)
      BY <2>2 DEF CountInv
    <3>3. QED
      BY <3>1, <3>2 DEF Right
  <2>4. ASSUME NEW i \in 1 .. n, NEW a \in Addrs
        PROVE  Off(i, a) \in Nat
    <3>1. logs[Names[i]] \in Contents /\ targets \in Patterns
      <4>1. Names[i] \in Present
        BY <2>1
      <4>2. QED
        BY <4>1 DEF TypeInv, LogCacheTypeOK
    <3>2. QED
      BY <3>1, OffensesAre, BoundsAssumption DEF Counts
  <2> HIDE DEF n
  <2>5. ASSUME NEW a \in Addrs
        PROVE  /\ Composite(a) = Total([l \in Present |-> Offenses(targets, logs[l])[a]])
               /\ n = 0 => Composite(a) = 0
               /\ n = 1 => Composite(a) = Off(1, a)
               /\ n = 2 => Composite(a) = Off(1, a) + Off(2, a)
    <3> DEFINE f == [i \in 1 .. n |-> file_map[i][2][a]]
               g == [l \in Present |-> Offenses(targets, logs[l])[a]]
    <3>1. Composite(a) = Total(f)
      BY <2>2 DEF Composite
    <3>2. \A i \in 1 .. n : f[i] = Off(i, a) /\ f[i] \in Nat
      BY <2>3, <2>4
    <3>3. \A i \in 1 .. n : g[Names[i]] = Off(i, a) /\ Names[i] \in Present
      BY <2>1
    <3>4. f \in [1 .. n -> Nat]
      BY <3>2
    <3>5. g \in [Present -> Nat]
      <4>1. \A l \in Present : g[l] \in Nat
        BY <2>1, <2>4, <3>3
      <4>2. QED
        BY <4>1
    <3> HIDE DEF f, g, Off, Present
    <3>6. CASE n = 0
      <4>1. 1 .. n = {} /\ Present = {}
        BY <2>1, <3>6
      <4>2. Total(f) = 0 /\ Total(g) = 0
        BY <3>4, <3>5, <4>1, TotalIs
      <4>3. QED
        BY <3>1, <3>6, <4>2 DEF g
    <3>7. CASE n = 1
      <4>1. 1 .. n = {1} /\ 1 \in 1 .. n /\ Present = {Names[1]}
        BY <2>1, <3>7
      <4>2. f \in [{1} -> Nat] /\ g \in [{Names[1]} -> Nat]
        BY <3>4, <3>5, <4>1
      <4>3. Total(f) = f[1] /\ Total(g) = g[Names[1]]
        BY <4>2, TotalIs
      <4>4. QED
        BY <3>1, <3>2, <3>3, <3>7, <4>1, <4>3 DEF g
    <3>8. CASE n = 2
      <4>1. 1 .. n = {1, 2} /\ 1 \in 1 .. n /\ 2 \in 1 .. n
        BY <3>8
      <4>2. Present = {Names[1], Names[2]} /\ Names[1] # Names[2]
        BY <2>1, <4>1
      <4>3. Total(f) = f[1] + f[2]
        <5>1. f \in [{1, 2} -> Nat] /\ 1 # 2
          BY <3>4, <4>1
        <5>2. QED
          BY <5>1, TotalIs
      <4>4. Total(g) = g[Names[1]] + g[Names[2]]
        BY <3>5, <4>2, TotalIs
      <4>5. QED
        BY <3>1, <3>2, <3>3, <3>8, <4>1, <4>3, <4>4 DEF g
    <3>9. QED
      BY <2>1, <3>6, <3>7, <3>8
  <2>6. ASSUME asked # Gone
        PROVE  \E m \in 0 .. Composite(asked) :
                 /\ Report = [i \in 1 .. m |-> asked]
                 /\ (\A s \in Sums : <<targets, s>> \notin cut) => m = Composite(asked)
    <3> DEFINE seqs == [i \in DOMAIN file_map |-> file_map[i][3]]
               Fits(i, k) == /\ k \in 0 .. Off(i, asked) /\ seqs[i] = Same(asked, k)
                             /\ <<targets, logs[Names[i]]>> \notin cut => k = Off(i, asked)
               ms == [i \in 1 .. n |-> CHOOSE k \in Nat : Fits(i, k)]
               t == [i \in 0 .. n |-> IF i = 0 THEN 0
                                      ELSE IF i = 1 THEN ms[1]
                                      ELSE ms[1] + ms[2]]
    <3>1. asked \in Addrs
      BY <2>6, AskedAssumption DEF TypeInv, LogCacheTypeOK
    <3>2. \A i \in 1 .. n : Fits(i, ms[i]) /\ ms[i] \in Nat
      <4> TAKE i \in 1 .. n
      <4>1. Off(i, asked) \in Nat
        BY <2>4, <3>1
      <4>2. \E k \in 0 .. Off(i, asked) : Fits(i, k)
        BY <2>2, <2>3, <2>6 DEF Gives
      <4>3. \E k \in Nat : Fits(i, k)
        BY <4>1, <4>2
      <4> HIDE DEF Fits
      <4>4. QED
        BY <4>3
    <3>3. n \in Nat /\ (1 .. n = {} \/ 1 .. n = {1} \/ (1 .. n = {1, 2} /\ n = 2))
      BY <2>1
    <3>4. seqs \in [1 .. n -> {seqs[i] : i \in 1 .. n}]
      BY <2>2
    <3>5. Len(seqs) = n /\ (n = 0 => seqs = <<>>)
      <4> HIDE DEF seqs
      <4>1. seqs \in Seq({seqs[i] : i \in 1 .. n}) /\ Len(seqs) = n
        BY <3>3, <3>4, SeqDef, LenProperties
      <4>2. QED
        BY <4>1, EmptySeq
    <3>6. Report = FlattenSeq(seqs)
      BY DEF Report
    <3>7. \A i \in 1 .. n : /\ ms[i] \in Nat /\ Off(i, asked) \in Nat /\ ms[i] <= Off(i, asked)
                            /\ seqs[i] = Same(asked, ms[i])
                            /\ (\A s \in Sums : <<targets, s>> \notin cut) => ms[i] = Off(i, asked)
      <4> TAKE i \in 1 .. n
      <4>1. Fits(i, ms[i]) /\ ms[i] \in Nat /\ Off(i, asked) \in Nat
        BY <2>4, <3>1, <3>2
      <4>2. logs[Names[i]] \in Sums
        BY <2>3
      <4> HIDE DEF seqs, ms, Off
      <4>3. /\ ms[i] \in 0 .. Off(i, asked) /\ seqs[i] = Same(asked, ms[i])
            /\ <<targets, logs[Names[i]]>> \notin cut => ms[i] = Off(i, asked)
        BY <4>1
      <4>4. QED
        BY <4>1, <4>2, <4>3
    <3> HIDE DEF Off, ms, seqs, Fits
    <3>8. t \in [0 .. n -> Nat] /\ t[0] = 0
      <4>1. ASSUME NEW i \in 0 .. n
            PROVE  (IF i = 0 THEN 0 ELSE IF i = 1 THEN ms[1] ELSE ms[1] + ms[2]) \in Nat
        <5>1. i = 0 \/ (i = 1 /\ 1 \in 1 .. n) \/ (i = 2 /\ 1 \in 1 .. n /\ 2 \in 1 .. n)
          BY <2>1
        <5>2. QED
          BY <3>7, <5>1
      <4>2. 0 \in 0 .. n
        BY <3>3
      <4>3. QED
        BY <4>1, <4>2
    <3>9. \A i \in 1 .. n : t[i - 1] <= t[i] /\ t[i] - t[i - 1] = ms[i]
      <4> TAKE i \in 1 .. n
      <4>1. CASE i = 1
        <5>1. 0 \in 0 .. n /\ 1 \in 0 .. n /\ i - 1 = 0
          BY <3>3, <4>1
        <5>2. t[i - 1] = 0 /\ t[i] = ms[1]
          BY <4>1, <5>1
        <5>3. QED
          BY <3>7, <4>1, <5>2
      <4>2. CASE i # 1
        <5>1. i = 2 /\ n = 2 /\ 1 \in 1 .. n /\ 2 \in 1 .. n
          BY <2>1, <4>2
        <5>2. t[1] = ms[1] /\ t[2] = ms[1] + ms[2]
          BY <5>1
        <5>3. QED
          BY <3>7, <5>1, <5>2
      <4>3. QED
        BY <4>1, <4>2
    <3>10. /\ t[n] \in 0 .. Composite(asked)
           /\ (\A s \in Sums : <<targets, s>> \notin cut) => t[n] = Composite(asked)
      <4> DEFINE c == Composite(asked)
      <4>0. /\ n = 0 => c = 0
            /\ n = 1 => c = Off(1, asked)
            /\ n = 2 => c = Off(1, asked) + Off(2, asked)
        BY <2>5, <3>1
      <4> HIDE DEF c
      <4>9. \A i \in 0 .. n : t[i] = IF i = 0 THEN 0 ELSE IF i = 1 THEN ms[1] ELSE ms[1] + ms[2]
        OBVIOUS
      <4> HIDE DEF t
      <4>1. CASE n = 0
        <5>1. t[n] = 0 /\ c = 0
          BY <3>8, <4>0, <4>1
        <5>2. QED
          BY <5>1 DEF c
      <4>2. CASE n = 1
        <5>1. 1 \in 1 .. n /\ t[1] = ms[1] /\ c = Off(1, asked)
          BY <4>0, <4>2, <4>9
        <5>2. QED
          BY <3>7, <4>2, <5>1 DEF c
      <4>3. CASE n = 2
        <5>1. /\ 1 \in 1 .. n /\ 2 \in 1 .. n /\ t[2] = ms[1] + ms[2]
              /\ c = Off(1, asked) + Off(2, asked)
          BY <4>0, <4>3, <4>9
        <5>2. QED
          BY <3>7, <4>3, <5>1 DEF c
      <4>4. QED
        BY <2>1, <4>1, <4>2, <4>3
    <3> HIDE DEF t
    <3>11. \A i \in 1 .. n : t[i - 1] <= t[i] /\ seqs[i] = Same(asked, t[i] - t[i - 1])
      BY <3>7, <3>9
    <3>12. FlattenSeq(seqs) = Same(asked, t[n])
      <4>1. n \in Nat /\ Len(seqs) = n /\ (n = 0 => seqs = <<>>) /\ t \in [0 .. n -> Nat] /\ t[0] = 0
        BY <3>3, <3>5, <3>8
      <4>2. \A m \in Nat : \A u \in [0 .. m -> Nat] :
              /\ Len(seqs) = m /\ (m = 0 => seqs = <<>>) /\ u[0] = 0
              /\ \A i \in 1 .. m : u[i - 1] <= u[i] /\ seqs[i] = Same(asked, u[i] - u[i - 1])
              => FlattenSeq(seqs) = Same(asked, u[m])
        BY FlattenIs, Zenon
      <4>3. QED
        BY <3>11, <4>1, <4>2, Zenon
    <3>13. Report = [i \in 1 .. t[n] |-> asked]
      BY <3>6, <3>12 DEF Same
    <3>14. QED
      BY <3>10, <3>13
  <2>7. QED
    BY <2>5, <2>6
<1>2. QED
  BY <1>1, TypeHolds, CountHolds, PTL
=============================================================================
