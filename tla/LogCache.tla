------------------------------ MODULE LogCache ------------------------------
(***************************************************************************)
(* How a run of ban2fail counts offenses: LOGTYPE's constructor            *)
(* (logType.c) goes through the log and its rotated predecessor, newest    *)
(* first, and takes the offenses of each from the cache file named by the  *)
(* log's checksum, or scans the log and writes that file (logFile.c,       *)
(* offEntry.c); main() then removes what the cache has no more use for.    *)
(* A run that is asked about an address reports its lines, too: a scan     *)
(* keeps their positions (obsvTpl.c) and writes them to a data base beside *)
(* the cache file, from which a later run finds the lines in the log.      *)
(* Log and cache are files: the log is written and rotated at any time,    *)
(* files are removed one by one, and a run may be killed with a cache file *)
(* half written, or with one of a pair removed and the other not.          *)
(*                                                                         *)
(* A log is the sequence of its lines, a line the address it names, a      *)
(* checksum the content it is computed from: two contents never share one. *)
(* A run reads the configuration before it waits for the lock of the       *)
(* cache, and one run has the lock at a time; BlockRun models the lock.    *)
(* A data base that a killed run leaves can be opened, with some of its    *)
(* records old and some new.                                               *)
(***************************************************************************)
EXTENDS Integers, Sequences, FiniteSets, SequencesExt, Functions, FiniteSetsExt

CONSTANTS Addrs,       \* addresses that occur in log lines
          Patterns,    \* configurations: how many targets the lines of an address match
          Asked,       \* what a run may be asked about: addresses, or Gone
          Backlog,     \* what the logs may hold to begin with
          MaxLen,      \* bounds the lines of a log
          MaxTargets,  \* bounds how many targets a line matches
          MaxEvents,   \* bounds what happens to logs, configuration and runs
          Gone         \* a file that is not there, or no address

ASSUME PatternsAssumption == Patterns \subseteq [Addrs -> 0 .. MaxTargets]
ASSUME AskedAssumption == Asked \subseteq Addrs \cup {Gone} /\ Gone \notin Addrs
ASSUME BacklogAssumption == Backlog \subseteq SeqOf(Addrs, MaxLen)
ASSUME BoundsAssumption == MaxLen \in Nat /\ MaxTargets \in Nat /\ MaxEvents \in Nat

\* The log itself and the one it was rotated to.
LogNames == {"log", "log.1"}

VARIABLES
  logs,        \* the content of each log
  config,      \* which lines count as offenses
  read,        \* the configuration each caller's run has read that waits for the lock
  events,      \* how often the world has meddled
  cacheDirs,   \* the configurations that have a directory of cache files
  cache,       \* the cache files: configuration and checksum to counts
  dbs,         \* the data bases beside them: where the lines of an address are
  pc,          \* where the run is
  targets,     \* the configuration it has read
  asked,       \* the address it is to report on
  fname_vec,   \* the logs it has yet to look at
  sumStr,      \* the checksum of the one it is looking at
  file,        \* the offenses it found there, in what content, and their lines
  file_map     \* the checksum, offenses and lines of those it is done with
VARIABLES      \* history, for the properties only:
  calm,        \* TRUE while the logs are as the run found them
  raced,       \* cache files whose log changed, or whose run died, meanwhile
  cut          \* cache files whose data base was removed, and they were not

worldVars == <<logs, config, events>>
runVars == <<targets, asked, fname_vec, sumStr, file, file_map>>
cacheVars == <<cacheDirs, cache, dbs>>
logCacheVars == <<worldVars, read, cacheVars, pc, runVars, calm, raced, cut>>

\* Who makes runs: the service, that asks nothing, and somebody who asks.
Callers == {"service", "somebody"}

Contents == SeqOf(Addrs, MaxLen)
None == [a \in Addrs |-> 0]

Lines(content, a) == {i \in DOMAIN content : content[i] = a}

\* Mutant: every line is registered twice.
Offenses_twice(p, content) == [a \in Addrs |-> 2 * p[a] * Cardinality(Lines(content, a))]
\* OFFENTRY_register() counts a line once for each target it matches.
Offenses(p, content) == [a \in Addrs |-> p[a] * Cardinality(Lines(content, a))]

\* A cache file has a line for each address with offenses, the last of which may be
\* torn after a crash.
CacheFile(counts) == [counts |-> counts, torn |-> FALSE]

\* obsv_load_AddrRPT(): what the log has where the lines of the address were, for
\* each target; behind the end of the log, what the buffer had before.
Reported(p, a, obs, content) ==
  FlattenSeq([i \in DOMAIN obs |->
                IF obs[i] = a
                THEN [n \in 1 .. p[a] |-> IF i \in DOMAIN content THEN content[i] ELSE Gone]
                ELSE <<>>])

\* What is found of a log: its offenses, the content that their positions are in,
\* and the lines of the address that is asked about.
Found(counts, content, lines) == [counts |-> counts, content |-> content, lines |-> lines]
Nothing == Found(None, <<>>, <<>>)

LogCacheInit ==
  /\ logs \in [LogNames -> Backlog \cup {Gone}] /\ logs["log"] # Gone
  /\ config \in Patterns /\ events = 0
  /\ read = [c \in Callers |-> Gone]
  /\ cacheDirs = {} /\ cache = <<>> /\ dbs = <<>>
  /\ pc = "idle" /\ targets = config /\ asked = Gone
  /\ fname_vec = <<>> /\ sumStr = <<>> /\ file = Nothing /\ file_map = <<>>
  /\ calm = FALSE /\ raced = {} /\ cut = {}

Goto(s) == pc' = s

\* A function with one more value, or another.
With(f, k, v) == [j \in DOMAIN f \cup {k} |-> IF j = k THEN v ELSE f[j]]

\* Mutant: the name of the cache directory leaves the patterns out.
Key_without_patterns == <<CHOOSE p \in Patterns : TRUE, sumStr>>
Key == <<targets, sumStr>>

---------------------------------------------------------------------------
(* A run.                                                                  *)

\* The configuration is read,
ReadConfig(c) ==
  /\ read[c] = Gone
  /\ read' = [read EXCEPT ![c] = config]
  /\ UNCHANGED <<logs, config, cacheVars, pc, runVars, calm, raced, cut>>

\* and then the lock is waited for; with -F, which the service never says, the cache
\* is flushed first.
Lock(c, address) ==
  /\ pc = "idle" /\ read[c] # Gone
  /\ Goto("dir") \/ (c = "somebody" /\ Goto("flush"))
  /\ targets' = read[c] /\ asked' = address
  /\ read' = [read EXCEPT ![c] = Gone]
  /\ UNCHANGED <<worldVars, cacheVars, fname_vec, sumStr, file, file_map, calm, raced, cut>>

\* The names in the log directory, in the order cmp_pvsort() puts them.
Listed(n) == IF logs[n] = Gone THEN <<>> ELSE <<n>>
Names == Listed("log") \o Listed("log.1")

ReadDir ==
  /\ pc = "dir" /\ Goto("sum")
  /\ fname_vec' = Names
  /\ calm' = TRUE
  /\ UNCHANGED <<worldVars, read, cacheVars, targets, asked, sumStr, file, file_map, raced, cut>>

\* The next log is read for its checksum; if it has been moved away ez_fopen() aborts.
Checksum ==
  /\ pc = "sum" /\ fname_vec # <<>>
  /\ LET content == logs[Head(fname_vec)]
     IN  IF content = Gone
         THEN Goto("aborted") /\ UNCHANGED sumStr
         ELSE Goto("look") /\ sumStr' = content
  /\ UNCHANGED <<worldVars, read, cacheVars, targets, asked, fname_vec, file, file_map, calm,
                 raced, cut>>

\* ObsvTpl_db_get(): the data base, if it is there, may know where the lines of an
\* address are, that has any.
HasLines(a) == cache[Key].counts[a] > 0 /\ Key \in DOMAIN dbs /\ dbs[Key][a] # Gone

\* LOGFILE_cache_constructor(): a line with less than four fields is refused, and
\* an assertion or, compiled out, the null pointer ends the run.  The log is only
\* opened, by name, for lines that are asked for and that the data base has.
Load ==
  /\ pc = "look" /\ Key \in DOMAIN cache
  /\ LET content == logs[Head(fname_vec)]
         known == asked # Gone /\ HasLines(asked)
     IN  IF cache[Key].torn \/ (known /\ content = Gone)
         THEN Goto("aborted") /\ UNCHANGED file
         ELSE /\ Goto("add")
              /\ file' = Found(cache[Key].counts, <<>>,
                               IF known THEN Reported(targets, asked, dbs[Key][asked], content)
                               ELSE <<>>)
  /\ UNCHANGED <<worldVars, read, cacheVars, targets, asked, fname_vec, sumStr, file_map, calm,
                 raced, cut>>

\* LOGFILE_log_constructor() reads the log once more, whatever it is by now.
Scan ==
  /\ pc = "look" /\ Key \notin DOMAIN cache
  /\ cacheDirs' = cacheDirs \cup {targets}
  /\ LET content == logs[Head(fname_vec)]
     IN  IF content = Gone
         THEN Goto("aborted") /\ UNCHANGED <<file, raced>>
         ELSE /\ Goto("write")
              /\ file' = Found(Offenses(targets, content), content,
                               IF asked = Gone THEN <<>>
                               ELSE Reported(targets, asked, content, content))
              /\ raced' = IF content = sumStr THEN raced \ {Key} ELSE raced \cup {Key}
  /\ UNCHANGED <<worldVars, read, cache, dbs, targets, asked, fname_vec, sumStr, file_map, calm,
                 cut>>

\* LOGFILE_writeCache(): the file is there, and empty, before the data base and,
\* last, its lines are.
OpenCache ==
  /\ pc = "write" /\ Goto("close")
  /\ cache' = With(cache, Key, CacheFile(None))
  /\ UNCHANGED <<worldVars, read, cacheDirs, dbs, runVars, calm, raced, cut>>

\* ObsvTpl_db_put() of some addresses, into a data base that may be there already.
Put(as) ==
  LET old == IF Key \in DOMAIN dbs THEN dbs[Key] ELSE [a \in Addrs |-> Gone]
  IN  dbs' = With(dbs, Key, [a \in Addrs |-> IF a \in as THEN file.content ELSE old[a]])

\* The addresses that were found.
Offenders == {a \in Addrs : file.counts[a] > 0}

CloseCache ==
  /\ pc = "close" /\ Goto("add")
  /\ cache' = With(cache, Key, CacheFile(file.counts))
  /\ IF Offenders = {} THEN UNCHANGED dbs ELSE Put(Offenders)
  /\ UNCHANGED <<worldVars, read, cacheDirs, runVars, calm, raced, cut>>

\* MAP_addStrKey() to file_map: logs of equal content have an entry each.
AddFile ==
  /\ pc = "add" /\ Goto("sum")
  /\ file_map' = Append(file_map, <<sumStr, file.counts, file.lines>>)
  /\ fname_vec' = Tail(fname_vec)
  /\ UNCHANGED <<worldVars, read, cacheVars, targets, asked, sumStr, file, calm, raced, cut>>

Sums == {file_map[i][1] : i \in DOMAIN file_map}

\* Mutant below: cache files that are not in use are left where they are.
InUse_all(k) == TRUE
InUse(k) == k[1] = targets => k[2] \in Sums

\* The end of the constructor removes cache files not in use; without one log
\* ever scanned there is no directory to look in, and ez_opendir() aborts.
CleanUp ==
  /\ pc = "sum" /\ fname_vec = <<>>
  /\ Goto(IF targets \in cacheDirs THEN "clean" ELSE "aborted")
  /\ UNCHANGED <<worldVars, read, cacheVars, runVars, calm, raced, cut>>

\* What is to be removed: with -F all there is, by the constructor what is not in
\* use, and then by main() the directories of other log types and patterns.
Files == DOMAIN cache \cup DOMAIN dbs
Unwanted ==
  CASE pc = "flush"  -> Files
    [] pc = "clean"  -> {k \in Files : ~InUse(k)}
    [] pc = "others" -> {k \in Files : k[1] # targets}
    [] OTHER         -> {}
UnwantedDirs ==
  CASE pc = "flush"  -> cacheDirs
    [] pc = "others" -> cacheDirs \ {targets}
    [] OTHER         -> {}

\* Entry by entry, in the order the directory has them: a cache file,
UnlinkCache(k) ==
  /\ k \in DOMAIN cache \cap Unwanted
  /\ cache' = Restrict(cache, DOMAIN cache \ {k})
  /\ cut' = cut \ {k}
  /\ UNCHANGED <<worldVars, read, cacheDirs, dbs, pc, runVars, calm, raced>>

\* a data base,
UnlinkDb(k) ==
  /\ k \in DOMAIN dbs \cap Unwanted
  /\ dbs' = Restrict(dbs, DOMAIN dbs \ {k})
  /\ cut' = cut \cup ({k} \cap DOMAIN cache)
  /\ UNCHANGED <<worldVars, read, cacheDirs, cache, pc, runVars, calm, raced>>

\* and a directory, when it is empty.
Rmdir(d) ==
  /\ d \in UnwantedDirs /\ \A k \in Files : k[1] # d
  /\ cacheDirs' = cacheDirs \ {d}
  /\ UNCHANGED <<worldVars, read, cache, dbs, pc, runVars, calm, raced, cut>>

Removed ==
  /\ Unwanted = {} /\ UnwantedDirs = {}
  /\ \/ pc = "flush" /\ Goto("dir")
     \/ pc = "clean" /\ Goto("others")
     \/ pc = "others" /\ Goto("done")
  /\ UNCHANGED <<worldVars, read, cacheVars, runVars, calm, raced, cut>>

\* OFFENTRY_map_addr() adds the counts of all logs up.  Mutant: the last one counts.
Total(f) == FoldFunction(+, 0, f)
Composite_last(a) == file_map[Len(file_map)][2][a]
Composite(a) == Total([i \in DOMAIN file_map |-> file_map[i][2][a]])

\* AddrRPT_print(): the lines, log by log.
Report == FlattenSeq([i \in DOMAIN file_map |-> file_map[i][3]])

Forgotten ==
  /\ fname_vec' = <<>> /\ sumStr' = <<>> /\ file' = Nothing /\ file_map' = <<>>
  /\ asked' = Gone
  /\ calm' = FALSE
  /\ Goto("idle")

\* The rest of the run changes neither logs nor cache.
Exit ==
  /\ pc \in {"done", "aborted"}
  /\ Forgotten
  /\ UNCHANGED <<worldVars, read, cacheVars, targets, raced, cut>>

RunStep ==
  \/ ReadDir \/ Checksum \/ Load \/ Scan \/ OpenCache \/ CloseCache \/ AddFile
  \/ CleanUp \/ Removed
  \/ \E k \in Files : UnlinkCache(k) \/ UnlinkDb(k)
  \/ \E d \in cacheDirs : Rmdir(d)

---------------------------------------------------------------------------
(* What happens meanwhile, at most MaxEvents times.                        *)

Event == events < MaxEvents /\ events' = events + 1
Disturb == calm' = FALSE

\* A program logs a line: to the log, or to the file it still has open while
\* logrotate has not yet created a new one.
Written(n, a) ==
  /\ Event /\ logs[n] # Gone /\ (n = "log.1" => logs["log"] = Gone)
  /\ Len(logs[n]) < MaxLen
  /\ logs' = [logs EXCEPT ![n] = Append(@, a)]
  /\ Disturb
  /\ UNCHANGED <<config, read, cacheVars, pc, runVars, raced, cut>>

\* logrotate renames the log, deletes the one before it, and creates a new log.
Moved ==
  /\ Event /\ logs["log"] # Gone
  /\ logs' = [n \in LogNames |-> IF n = "log" THEN Gone ELSE logs["log"]]
  /\ Disturb
  /\ UNCHANGED <<config, read, cacheVars, pc, runVars, raced, cut>>

Created ==
  /\ logs["log"] = Gone
  /\ logs' = [logs EXCEPT !["log"] = <<>>]
  /\ Disturb
  /\ UNCHANGED <<config, events, read, cacheVars, pc, runVars, raced, cut>>

Configured(p) ==
  /\ Event /\ p # config /\ config' = p
  /\ UNCHANGED <<logs, read, cacheVars, pc, runVars, calm, raced, cut>>

\* The run is killed, or the machine goes down: of a cache file being written some
\* lines have reached the disk, the last of them perhaps in part, perhaps cut
\* within the address so that it reads as another,
Torn(counts) ==
  {[a \in Addrs |-> IF a \in kept THEN counts[a] ELSE 0] : kept \in SUBSET Addrs}

Remnants(counts) ==
  LET Part(c, torn) == [counts |-> c, torn |-> torn]
  IN  {Part(c, FALSE) : c \in Torn(counts)} \cup {Part(c, TRUE) : c \in Torn(counts) \ {counts}}
        \cup UNION {{Part([c EXCEPT ![ab[2]] = @ + counts[ab[1]]], FALSE) :
                       c \in {d \in Torn(counts) : d[ab[1]] = 0}} :
                      ab \in {xy \in Addrs \X Addrs : xy[1] # xy[2] /\ counts[xy[1]] > 0}}

\* and of the data base some records, or not even the file.
Killed ==
  /\ Event /\ pc # "idle"
  /\ IF pc = "close"
     THEN /\ \E part \in Remnants(file.counts) : cache' = With(cache, Key, part)
          /\ UNCHANGED dbs \/ \E as \in SUBSET Offenders : Put(as)
          /\ raced' = raced \cup {Key}
     ELSE UNCHANGED <<cache, dbs, raced>>
  /\ Forgotten
  /\ UNCHANGED <<logs, config, read, cacheDirs, targets, cut>>

\* It may be killed while it waits for the lock, too.
KilledWaiting(c) ==
  /\ Event /\ read[c] # Gone
  /\ read' = [read EXCEPT ![c] = Gone]
  /\ UNCHANGED <<logs, config, cacheVars, pc, runVars, calm, raced, cut>>

---------------------------------------------------------------------------
(* Properties.                                                             *)

Counts == [Addrs -> 0 .. MaxLen * MaxTargets]
CacheFiles == [counts : Counts, torn : BOOLEAN]
Keys == Patterns \X Contents

LogCacheTypeOK ==
  /\ logs \in [LogNames -> Contents \cup {Gone}] /\ config \in Patterns
  /\ events \in 0 .. MaxEvents /\ read \in [Callers -> Patterns \cup {Gone}]
  /\ cacheDirs \subseteq Patterns
  /\ DOMAIN cache \subseteq Keys /\ \A k \in DOMAIN cache : cache[k] \in CacheFiles
  /\ DOMAIN dbs \subseteq Keys /\ \A k \in DOMAIN dbs : dbs[k] \in [Addrs -> Contents \cup {Gone}]
  /\ pc \in {"idle", "flush", "dir", "sum", "look", "write", "close", "add", "clean", "others",
             "done", "aborted"}
  /\ targets \in Patterns /\ asked \in Asked \cup {Gone}
  /\ fname_vec \in Seq(LogNames) /\ sumStr \in Contents
  /\ file.counts \in Counts /\ file.content \in Contents
  /\ \A i \in DOMAIN file_map : file_map[i][1] \in Contents /\ file_map[i][2] \in Counts
  /\ calm \in BOOLEAN /\ raced \subseteq Keys /\ cut \subseteq DOMAIN cache

\* The data base says where the lines are of every address that has some.
DbTrue(k) ==
  \A a \in Addrs : cache[k].counts[a] > 0 => k \in DOMAIN dbs /\ dbs[k][a] = k[2]

\* A cache file holds the offenses of the content it is named after, under the
\* patterns of its directory, and has a data base that says where they are: unless its
\* log changed between checksum and scan, its run died over it, or, which only leaves
\* it without data base, a run died that removed it.
FileTrue(k) == cache[k] = CacheFile(Offenses(k[1], k[2])) /\ (k \in cut \ DOMAIN dbs \/ DbTrue(k))
CacheTrue == \A k \in DOMAIN cache \ raced : FileTrue(k) \/ (k = Key /\ pc = "close")

\* A run that ends well, on logs that stayed as they were and no such cache file,
\* has counted every offense of every log, cached or not.  Asked about an address
\* it reports lines of that address, no more than it counted, and no less if no cache
\* file it used has lost its data base.
CountsTrue ==
  pc = "done" /\ calm /\ (\A s \in Sums : <<targets, s>> \notin raced) =>
    /\ \A a \in Addrs :
         Composite(a) = Total([n \in {l \in LogNames : logs[l] # Gone} |->
                                 Offenses(targets, logs[n])[a]])
    /\ asked # Gone =>
         \E n \in 0 .. Composite(asked) :
           /\ Report = [i \in 1 .. n |-> asked]
           /\ (\A s \in Sums : <<targets, s>> \notin cut) => n = Composite(asked)

\* What no log calls for any more does not outlive a run: the cache is bounded,
\* and what is wrong in it goes with the content it is wrong about.
CacheBounded ==
  pc = "done" => /\ DOMAIN cache = {<<targets, s>> : s \in Sums}
                 /\ DOMAIN dbs \subseteq DOMAIN cache /\ cacheDirs = {targets}
=============================================================================
