# A specification of ban2fail

ban2fail scans log files for failed logins, keeps the offenses in a cache, looks
the offending addresses up in the DNS, decides which to block and makes iptables
agree. This directory holds TLA+ modules of its parts, TLC configurations that
check them on small instances, and proofs that TLAPS checks for every instance.
`src/` below means the repository.

## 1. Inventory

| Component (source) | State | Operations | Talks to |
|---|---|---|---|
| Message queue (`msgqueue.c`) | slots, `head`, `tail`, `numItems`, `mtx` | submit, extract, check | every thread that holds a pointer to it |
| Event engine (`es.c`) | per thread: callbacks by type, `sigsRaised`, virtual signal queue; process-wide: thread map, key counter, spawn handshake | register, unregister, `ES_run`, `ES_VSignal`, spawn, release parent, clean up | signals between threads, callbacks |
| Parallel DNS (`pdns.c`) | `flags`, `processedNdx`, inboxes, `is_joined`, two timers, `dns.flags` of each entry | `PDNS_lookup` and its callbacks, `worker_main` and its callbacks | event engine, message queues, resolver |
| Pointer vector (`ptrvec.c`) | ring of pointers that grows and shrinks | add, remove, find, sort | event engine, every list of the program |
| Hash map (`map.c`) | buckets, duplicate keys allowed | add, find, remove | event engine, caches, iptables snapshot |
| Main program (`ban2fail.c`) | cache lock, list of entries, counters | scan, decide, block, report | all of the below |
| iptables control (`iptables.c`) | snapshot of the DROP rules | query, block, unblock in batches | the `iptables` commands, other runs |
| Offense cache (`logType.c`, `logFile.c`, `offEntry.c`) | log files by checksum, cache files, offenses by address | checksum, load, scan, write, unlink | the file system, log rotation |
| Maximum offenses (`maxoff.c`, `cntry.c`) | limits by address and by country | expand CIDR blocks, look a limit up | configuration, decision |
| Configuration (`cfgmap.c`) | tree of blocks and values, include depth | parse, include, substitute, query | `maxoff`, `logType`, `target` |
| Service loop (`ban2fail.sh`) | watcher process, time of the last run | run, watch, rate-limit, restart | `ban2fail`, `inotifywait` |
| Targets, timestamps (`target.c`, `timestamp.c`) | patterns, guessed year | match, scan a date | log scan |
| Tools (`b2f-grep.c`, `fsckdns.c`, scripts) | - | one-shot programs | - |

What is hard: in the event engine and the DNS lookups, everything (two hundred
threads, signals noted asynchronously, tasks and prompts in different queues,
two timers, a resolver that may never answer, joins); in the other parts, what
the world does between two steps of a run: logs grow and rotate, another run
changes the rules, an iptables command fails half way, the process dies while it
writes a cache file. `PROJECT.json` lists each hazard at its line.

What makes each component correct:

- message queue: it is a bounded FIFO queue whatever the interleaving;
- event engine: a callback runs once for each queued virtual signal, in order,
  and not after it was unregistered; a thread does not sleep on work;
- DNS: each entry is looked up by one thread at a time and its flags are final;
  no queue overflows; the call returns, and unless time ran out, complete;
- pointer vector, map: the sequence, or the bag of pairs, they stand for;
- main program and iptables: after a run without failure exactly the addresses
  over their limit are blocked, and a failed or concurrent run harms no more
  than the next run repairs;
- cache: what it says of a log is what scanning that log would say;
- maximum offenses: what an address is allowed comes from a block that lists it
  or its country (where this is not what the comments promise is in section 3);
- service loop: a write to a log that is watched is eventually followed by a run
  that counts it.

## 2. Modules

| Module | Role |
|---|---|
| `FifoQueue` | abstract: what a message queue promises |
| `MsgQueue` | `msgqueue.c`, one action per step of a call under the mutex |
| `EventEngine` | `es.c` as other threads see it: signals, virtual signals, the poll loop |
| `LookupProgress` | abstract: what `PDNS_lookup()` promises of its entries |
| `Pdns` | `pdns.c` on top of `EventEngine` |
| `EventServer` | `es.c` as its user sees it: registration, rounds of `ES_run()`, spawning |
| `PtrVec` | `ptrvec.c` as operators on a record, the ring with its indices |
| `MultiMap` | abstract: what a map promises |
| `HashMap` | `map.c` on top of `PtrVec` |
| `BlockRun` | runs of `main()` from the locks to the rules: `ban2fail.c`, `iptables.c` |
| `LogCache` | a run's way through logs and cache: `logType.c`, `logFile.c`, `offEntry.c`, `obsvTpl.c` |
| `ServiceLoop` | `ban2fail.sh` around the runs of `LogCache` |
| `CfgMap` | the configuration map, `cfgmap.c` |
| `MaxOff` | allowances by address and country, `maxoff.c`, as operators |
| `Startup` | `main()` from options to log types, on top of `CfgMap` and `MaxOff` |
| `MC...` | TLC instances |
| `MsgQueueProofs`, `PdnsProofs`, `PdnsResultProofs`, `HashMapProofs`, `BlockRunProofs`, `ServiceLoopProofs`, `EventServerProofs`, `StartupProofs` | theorems |

`MsgQueue` justifies the plain sequences that stand for queues in `EventEngine`,
the theorems on vectors in `HashMapProofs` those that stand for lists everywhere
but in `HashMap`, and `HashMap` the functions that stand for maps. `Startup`, `LogCache` and
`BlockRun` are three parts of one run, cut where the code keeps nothing but the
log types (`Startup` to `LogCache`) and the counts of each address (`LogCache`
to `BlockRun`).

### MsgQueue

`buff`, `head`, `tail`, `numItems` and `mtx` are the fields of `MSGQUEUE`; `pc`
and `result` say where each thread is and what its last call returned. The slots
start as `Garbage` since they come from `malloc()`. A submit is `Lock`,
`SubmitAdvance` (move `tail` unless empty), `SubmitCopy` (store and count),
`Unlock`; an extract is `Lock`, `ExtractCount`, `ExtractCopy`, `Unlock`: the
order of the source, so that between its steps the indices disagree as they do
in the code. `CheckQueue` is one step (it only reads, under the mutex); its
callback is abstracted to the set of messages it accepts. The destructor is not
modelled: no caller may use the queue by then.

`ImplementsFifo` maps the ring to `Contents`, the messages from `head` on. A
message is in once it is counted and out once it is copied out, hence `Count`
includes the message an extract has counted out but not yet copied.

### EventEngine and Pdns

A thread is a program counter. In `ES_run()` it goes

    run -> poll -> usr2 -> (drain -> callbacks)* -> term or timers -> run

`Raise` is the signal handler: it notes the signal in `sigs`, and only a thread
in `poll` is woken (EINTR). `EnterPoll` tests nothing, as in the code; this is
where wake-ups get lost. Signals are served in numeric order, SIGUSR2 (12)
before SIGTERM (15), each cleared before its handler runs. `Drain` extracts one
virtual signal; its callback then runs to its end and control comes back to
`drain`. `ES_VSignal()` is two steps under `S.vsig.mtx`, submit and kill, after
which the caller goes on at `call[t].ret`. A submit to a full queue leads to
`Aborted`, where no thread takes another step, as after `abort()`. A queue is a
plain sequence here: that is what `FifoQueue` justifies.

| Code | Actions |
|---|---|
| `PDNS_lookup()` | `Spawn`, `SpawnDone`, `Dispatch`, `DispatchDone` |
| `mgr_check_inbox_f()` | `MgrCheckInbox`, `MgrPrune`, `MgrNext`, `MgrForward`, `MgrInboxEmpty` |
| `join_f()` | `MgrJoin`, `MgrJoined` |
| `timeout_f()`, `stop_remaining_workers()` | `TimeoutF`, `StopWorker`, `StopDone` |
| `shutdown_f()` | `ShutdownF` |
| `worker_main()` | `WorkerStart`, `WorkerExit`, `Cleanup` |
| `worker_check_inbox_f()` | `WorkerCheckInbox`, `WorkerTest`, `WorkerTake`, `Reverse`, `Forward`, `LookupFails`, `WorkerInboxEmpty`, `WorkerFollowUp`, `WorkerReport`, `WorkerLeave` |
| `worker_exit_f()` | `WorkerTerm` |
| `ES_run()`, `sigusr2_h()`, `ES_VSignal()`, `ES_cleanup()` | `Engine` (`EnterPoll`, `ServeUsr2`, `DrainEmpty`, `VSignalNotFound`, `VSignalSubmit`, `VSignalKill`, `Cleanup`), `PassUsr2`, `PollTimesOut`, `NoTimerDue` |

Entries are numbers, and all that is kept of one is its `dns.flags`. The
resolver answers with any member of `Outcomes`, or never. A timer is off or
armed; the code reads the clock when it enters `poll()` and again when it has
served signals, and at either time an armed timer may be due or not. `Spawn` and
`WorkerStart` are the handshake of `ES_spawn_thread()`: the parent waits until
the child has registered its callbacks. Whatever `PDNS_lookup()` does after
`ES_run()` is unregistration and the return of `processedNdx`, so `returned` is
its end; the workers it may leave behind go on. A joined thread is gone with its
unserved signals, so that a signal sent to it afterwards shows.

A worker tests `EXIT_FLG` (`WorkerTest`) before it looks in its inbox
(`WorkerTake`), and again (`WorkerFollowUp`) before it reports: the manager may
publish the flag in between, so that a lookup may begin after the time limit.

`ImplementsProgress` maps this to `LookupProgress`: an entry has as many lookers
as there are workers in `lookup` that have it in hand; a worker is `admitted` to
the entry in its inbox when it has tested the flag and not yet looked there; the
time limit has passed once `EXIT` is among `flags`; and the process is `aborted`
when its threads are. After the time limit nobody is admitted, and who was may
begin one lookup more.

### EventServer

A callback is a number, the place of its object in `cb`; `key_map` and `vec` are
the map and the vectors of `TS` that point to it: `fd_vec`, `timer_vec`, one of
`sig_vec_arr` for each signal, and what `vsig.cb_map` has for each virtual
signal. `VecOf` says in which of them a callback belongs. `Register` and `Store` are the
two halves of a registration, because `S.keySrc` is read and written without a
lock. `Unregister` marks a callback while `TS_PROCESSING_FLG` is set, which it
stays after a callback has ended `ES_run()`, and else removes it (`Destroy`). A
round of `ES_run()` goes

    round -> poll -> signals -> (signal | drain -> vsig)* -> timers -> fds -> purge -> round

and every call of a callback passes through `callback` and `return`. A callback
registers one of `Specs`, unregisters any key, or passes time; its return value
is arbitrary. `ndx` is the index of the loop that calls it, `arr` the array of
pointers made before `poll()`. `Spawn`, `TestReleased`, `Awake` and `Release`
are the condition variable of `ES_spawn_thread_sched()` and
`ES_release_parent()`, spurious wake-ups included. A handler is installed for
the process, but the last callback of a thread takes it away; `SignalsApart`
keeps to what `pdns.c` does, where main thread and workers share no signal but
SIGUSR2. `EventEngine` has the steps
by which a virtual signal travels; here it arrives.

### PtrVec and HashMap

A vector is the record of the fields of `PTRVEC`, an operation an operator that
returns the new record: `PutTail`, `PutHead`, `CutHead`, `CutTail`, `Resize`,
`Remove` with its two ways to close a gap. A slot without an item holds
`Garbage`, so that an index that is off by one shows. `HashMap` keeps a vector
of node addresses in each bucket and the heap (`node`); `malloc()` may fail, and
its result is any free address of the insert. `answer` is the last call with
what it returned, which is how the refinement of `MultiMap` compares results and
not only contents.

### BlockRun

One variable per field of a run, indexed by the process: `found` the counts it
read, `seen` the addresses listed as blocked, `todo` the vectors `toBlock_vec`
and `toUnblock_vec`, `cmdFlag`, `addr_sb`, `naddr`, `addr` the locals of
`_control_addresses()`. `pc` follows `main()`:

    idle -> cache -> scan -> unlock -> list4 -> list6 -> decide -> lock
         -> (v4 | v4cmd | v6 | v6cmd)* -> release -> end -> idle

`V4Take` and `V6Take` are the bodies of the two loops; the address that ends the
first is carried over into the second (`Carried`). `Command` is `run_command()`,
`CommandFails` what becomes of it when an address has no rule to delete. `rules`
counts the DROP rules of an address, since adding twice makes two. The world
edits and flushes the rules, changes the counts, and makes listings, commands
and processes fail, `MaxEvents` times altogether. What a run remembers of its
own work (`decided`, `sent`) and whether its listing is still true (`calm`) is
there for the properties.

### LogCache and ServiceLoop

A log is the sequence of the addresses its lines name; a checksum is the content
it is computed from. A cache file (`cache`) is named by configuration and
checksum, and holds counts and whether its last line is torn; the data base of
places beside it (`dbs`) is a file of its own. The steps of a run are the points
at which it looks at files: `ReadConfig` before it waits for the lock, `Lock`,
`ReadDir`, `Checksum`, `Load` or `Scan`, `OpenCache`, `CloseCache`, `AddFile`,
`CleanUp`. It removes files in three places, with `-F` (`flush`), at the end of
the constructor (`clean`) and of the directories nobody needs (`others`), each
time one after the other in any order: `UnlinkCache`, `UnlinkDb`, `Rmdir`, until
nothing is left that is `Unwanted` (`Removed`). Between any two steps a log may
be written, moved, created, the configuration changed or the run killed, while
it waits for the lock, too; killed in `CloseCache`, it leaves one of `Remnants`:
some of the lines, a torn last line, a line cut so that it names another
address. `raced` marks cache files made of a log that changed, or by a run that
died, between two steps, and `cut` those whose data base was removed and they
were not, which is where a run killed between the two removals leaves them: the
code notices neither, and the properties say what holds of the others and that
the marked ones do not stay.

`ServiceLoop` adds the script: where it is (`sh`), what inotifywait watches, by
whatever name the file has now (`watched`), the lines in the pipe. A run of
somebody else uses the same cache (`WorldAsks`, `WorldLocks`). `missed` says that
something was written while it was watched and that no run for it has begun
(`yes`) or ended well (`run`): only a run that began after the write and ended
well clears it. `blind` says that the first run since the main loop began again
has failed, which the script does not look at (ban2fail.sh:36).

### CfgMap, MaxOff, Startup

A line is a record of what the character loop leaves of it; the modes of the
lexer (quotes, escapes, comments, `$CWD`) are abstracted. `Pair`, `Replace`,
`Close`, `Include`, `Broken` and `EndOfFile` are the branches of
`_CFGMAP_fh_read()`, with the condition under which each fails. `Startup` takes
the options one by one (`-t:` is a `-t` without the file it wants, for which
getopt returns a `:` that no case answers), reads the file, in which any line may be missing or any
line of `Deviant` be there as well, walks the blocks as `configure()` does,
recursion unfolded into the list `todo`, and calls `InitMaxOff` and
`InitLogType` for each; a directory that cannot be opened ends the run
(`LogTypeUnopened`). `Paths` and `Meaning` say what a text means without
going through it line by line. Addresses have three bits instead of 32 in the
instance.

What the model keeps of the parser, since configurations may depend on it: a `}`
at the end of a line closes the block before the line is looked at, so that the
value of a pair or the file of an `.include` goes outside, and of a pair it stays
part of the value; a `{` without a name opens a block named by the empty string;
paths are made of values only, so that a `TARGET` and a `TIMESTAMP` of one name
share their symbols; a `LOGTYPE` named twice is scanned twice; a replacement
without an index puts a string where a `VALUE` belongs, and to read it may end
the run (`Wild`).

## 3. Runs

| Run | Module | Shows |
|---|---|---|
| `msgqueue` | `MsgQueue` | `TypeOK`, `RingInv`, `ImplementsFifo` |
| `hashmap` | `HashMap` | `TypeOK`, `BucketsValid`, `NodesInPlace`, `ImplementsMultiMap` |
| `es_callbacks` | `EventServer` | `TypeOK`, `FiledOnce`, `CalledWhileRegistered`, `KeysUnique`, `EveryoneServed` |
| `pdns_safety` | `Pdns` | `TypeOK`, `OneTaskEach`, `NoUninitialisedReport`, `CompleteUnlessTimedOut`, `QueuesSuffice`, `NoSignalAfterJoin`, `ImplementsProgress` |
| `pdns_live` | `Pdns` | `Termination` |
| `block_batches` | `BlockRun` | `TypeOK`, `LocksHeld`, `EveryAddressOnce`, `CommandsWellFormed`, `SoloRunSettles` |
| `block_concurrent` | `BlockRun` | `RunsEnd`, `Converges` |
| `service` | `ServiceLoop` | `TypeOK`, `CacheTrue`, `CountsTrue`, `CacheBounded`, `WatchesTheLog`, `Noticed` |
| `startup` | `Startup` | `TypeOK`, `MapIsTheText`, `AllowanceFromBlocks`, `LogTypesAsWritten`, `UnrecognisedReported`, `OnlyProductionActs` |
| `pdns_wakeup` | `Pdns` | violates `NoLostWakeup` |
| `pdns_return` | `Pdns` | violates `ReturnCountsCompleted` |
| `startup_trumps` | `Startup` | violates `AddressTrumps` |

### Bounds

- `msgqueue`: 3 threads, 2 messages, 3 slots. Three slots are the fewest with an
  empty ring, a full one and a middle at every offset, and three threads the
  fewest with one in a call and two that compete.
- `hashmap`: 2 buckets of 4 slots, 5 nodes, all in one bucket: the fifth makes
  it grow, wrapped around or not. Two keys share the bucket; one has the same
  item twice, one is in the other bucket and only asked for; callers have room
  for two items.
- `es_callbacks`: the main thread and 2 workers, 2 callbacks besides that of
  SIGUSR2, of all four types with both kinds of timer, 1 signal or virtual
  signal, the clock up to 2 ms. Two callbacks are the fewest of which one
  unregisters the other while it is being served; two workers the fewest that
  could race for a key. In this instance a worker registers only SIGUSR2, which
  is enough to race.
- `pdns_safety`: 3 entries on 2 workers, no failing answers: the fewest where a
  worker goes through all it may go through (first entry, forward lookup, next
  entry, pruned while the other still works). `pdns_live`: 2 entries, 2 workers,
  and the answers that end an entry or the process early. The two violations:
  1 entry, 1 worker. `VsigMax` is 1000, as in the code, which no queue here
  comes near, and `QueuesSuffice` says how much of it is used: no more than two
  prompts per entry and one notice per worker, whatever `VsigMax` is.
- `block_batches`: 1 run, 3 addresses of each family, 2 addresses to a command,
  1 event: a full batch and one that is not, of both families, in both vectors.
  One address is whitelisted, the others are allowed one offense.
- `block_concurrent`: 2 runs, 2 addresses of one family, 1 event. One family is
  enough, for families only matter within a batch. `Modes` includes the run that
  ends with the names of the logs.
- `service`: 2 addresses, logs of up to 2 lines, one line in each log to begin
  with (so that one more fits, and a log created by logrotate is the empty one),
  lines that match up to 2 targets (`MaxTargets`), 2 configurations, 3 events. An
  event is a line logged, a rotation, a changed configuration, a foreign run or a
  kill; three of them make a rotation during a run of a log that was written
  during the run before, or a flush by somebody else, killed between two
  removals, and a run that asks for the lines after it.
- `startup`, `startup_trumps`: a file and an included one after the repository's
  `ban2fail.cfg`, at most 2 deviations among options, missing lines and the 18
  lines of `MCDeviant`, and 2 files open at once, so that a file that includes
  itself ends.

`CHECK_DEADLOCK` is off where the system may stop: in `service` when no log is
written any more, in `startup` when the run is through, in `es_callbacks` after
`ES_cleanup()`, or in `poll()` when there is nothing left to wait for. Elsewhere
it is on; in `Pdns`, `Over` allows stuttering only when the call has returned or
the process has aborted.

### Fairness

- `Pdns`: each thread that can run does (the kernel's scheduler: `WF` of its
  steps), and a timer tested again and again is found due at last (time passes:
  `SF` of `TimeoutF` and `ShutdownF`). Nothing is assumed of `Resolve`, which
  may block for ever, nor is any signal assumed to find its target in `poll()`.
- `BlockRun`: `SF` of each run's steps: a process goes on when it can, and
  `flock()` serves its waiters in turn, so that a lock which is free again and
  again is got. `SF` of `Start(p, "apply")`: as long as logs are written the
  service goes on starting runs, among those of others. Of the world nothing is
  assumed; `MaxEvents` makes it leave the runs alone in the end, which is the
  condition of `Converges`.
- `ServiceLoop`: `WF` of the script and its runs, which nothing suspends, and of
  `WorldCreates`: logrotate, having moved the log, creates the new one.

### What the violations say

`pdns_wakeup`: es.c:1030 tells the target thread to check its queue, but a
signal noted between the service of signals and `poll()` wakes nobody; a worker
may sleep on its prompt until the time limit. `pdns_return`: pdns.h:78 promises
the number of lookups completed, the code returns the number handed out.
`startup_trumps`: maxoff.c:64 says that an allowance by address trumps one by
country, but 0 is also how the code says that it found none, so that an address
listed with 0 is allowed what its country is.

### What the passing runs say where one might doubt

- `CalledWhileRegistered` excepts virtual signals: `sigusr2_h()` alone of the
  four loops does not look at the mark (es.c:330).
- `EveryoneServed` is about timers that were registered before the round. One that
  a signal's or timer's callback registers in the round goes behind the sorted
  ones, and if it is due at once while one before it is not, the loop ends before
  it comes to it (es.c:825), although the comment there says that the time
  remaining increases from there on; it is called in the next round. The instance
  has two callbacks; that the order holds for more is proved (`ServedCorrect`).
- `ImplementsProgress` allows a lookup to begin after the time limit, once for
  each worker that had tested `EXIT_FLG` before it. Hence, and because
  `shutdown_f()` (pdns.c:322, "Terminate any remaining threads") only stops
  waiting for them, a worker may still be inside the resolver when
  `PDNS_lookup()` has returned.
- `CompleteUnlessTimedOut` and `Termination` count the abort of the process on an
  answer of the resolver that is not expected (pdns.c:445) as an end.
- `Converges` holds although two runs may both block an address: each of the two
  rules is deleted by a later run once the address is to be unblocked, and a run
  whose command fails leaves the rest to the next.
- `CacheTrue` and `CountsTrue` are conditional on `raced`; `CacheBounded` says
  that a file that is wrong does not outlive the content it is named after. A
  torn line, though, ends every later run that loads it until the log's checksum
  changes.
- A run killed between the removal of a data base and that of its cache file
  leaves a file (`cut`) whose counts are right, and from which a later run
  reports no lines. `CacheTrue` and `CountsTrue` say just this of such files: the
  counts hold, and of the lines no more are reported than there are.
- `Noticed` covers what is written while the log is watched: a run that begins
  after it ends well. What is written between a run's scan and the watch waits
  for the next write. So does what was missed before a first run that fails,
  although ban2fail.sh:33 says "Always do initial check": the script does not
  look at how that run ended (`blind`).
- `AllowanceFromBlocks` says that no allowance is made up: it is a number of a
  block that lists the address, or else, or if such a number is 0, of one that
  lists its country, or 0. What a block lists is what the code makes of it. The
  last address of a CIDR block is not in it, since the loop ends one short
  (maxoff.c:149 and 154, where maxoff.c:139 promises to expand the notation to
  addresses). A prefix of the full width or longer, which nothing refuses, shifts
  by the whole width or more, so that it stands for no address or, where the
  processor counts shifts modulo the width, for nearly all; a configuration with
  one is excepted (`NoHostPrefix`).
- `OnlyProductionActs` holds a run with `-t` and its file to test mode. For `-t`
  without a file getopt returns a `:` for which the switch has no case
  (ban2fail.c:199-255): no flag is set and no error counted, so that the run goes
  on in production mode and may block, where the usage text (ban2fail.c:268) says
  "Test confFile, do not apply iptables rules". The model does the same, and the
  property does not count such an option as a test.

## 4. Proofs

`MsgQueueProofs` proves, for any `Threads`, `Msgs` and positive `MaxItems`,

- `TypeCorrect`: `Spec => []TypeOK`;
- `RingCorrect`: `Spec => []RingInv`;
- `RingIsFifo`: `Spec => ImplementsFifo`.

The inductive invariant is `TypeOK /\ RingInv`: `TypeOK` alone is not inductive,
because that an extract returns a message and not garbage needs every slot
between `head` and `tail` to be filled, which needs `TailShape`, which holds
only while one thread is in a call (`MutualExclusion`). `TypeStep`, `MutexStep`
and `ShapeStep` prove the three parts of the step, one case per action. The
lemmas `SlotDistinct`, `SlotShift`, `SlotNext` and `SlotZero` are the arithmetic
of indices modulo `MaxItems`; `CountInCall` and `CountIdle` say what `Count` is
with and without a thread in a call; `ContentsUnchanged` and `StepRefines` map
each step to a FIFO operation or a stutter. The assumptions are the three of
`MsgQueue`.

`PdnsProofs` proves, for any positive `NItems` and `MaxThreads`, any `VsigMax`
and any set `Outcomes` of the resolver's answers,

- `TypeCorrect`: `Spec => []TypeOK`;
- `OneTaskCorrect`: `Spec => []OneTaskEach`;
- `ReportsInitialised`: `Spec => []NoUninitialisedReport`.

None of the three is inductive, and none can be had without the others. That the
manager's inbox holds entries (`TypeOK`) needs that a worker reports only a task
it holds (`NoUninitialisedReport`); that needs that its prompt found a task in
its inbox (`PromptInv`); that a prompt finds one needs that a worker has one
prompt at a time, submitted for one task at a time (`OneTaskEach`); and that the
manager hands out a task only to a worker without one needs, for the first
entries, that worker number `processed` has none yet (`EarlyInv`), and for later
ones that entries from `processed` on are with nobody (`FreshInv`). `CallInv`
says whom a thread in `ES_VSignal()` may be calling and what for, `SpawnInv`
which workers are born, `HoldInv` that a task is in hand only inside
`worker_check_inbox_f()`. `Inv` is the conjunction.

The steps are split by conjunct: `TypeStep`, `CallStep`, `SpawnStep`,
`HoldStep`, `PromptStep` and `ReportStep` have one case per action. For the
tasks, `QuietStep` shows that all but six actions hand nothing over (`Quiet`),
and those six have a lemma each (`DispatchTasks`, `PruneTasks`, `NextTasks`,
`ForwardTasks`, `TakeTasks`, `ReportTasks`), which rest on `Settle`: when one
worker gains at most the next fresh entry and no other gains any, entries stay
apart. The assumptions are those of `Pdns` on `NItems`, `MaxThreads`, `VsigMax`,
`Outcomes` and the names.

`PdnsResultProofs` goes on from there and proves, for the same constants,

- `JoinedNotSignalled`: `Spec => []NoSignalAfterJoin`;
- `AllLookedUp`: `Spec => []CompleteUnlessTimedOut`;
- `LookupsImplementProgress`: `Spec => ImplementsProgress`;
- `QueuesBounded`: `Spec => []QueuesSuffice`, whatever `VsigMax` is.

The first rests on the order of a queue. The manager signals whom it answers, so
no report of a worker may be left when the worker is joined (`ReportInv`); the
request to be joined is behind the prompt for the last report in the manager's
queue of virtual signals (`PromptFirst`), and a worker makes one such request,
when it has left `ES_run()` (`NoticeInv`). `AliveInv` says that the process lives
or all its threads have ended, `PromptedInv` whom the manager may be prompting;
`TalkInv` is the conjunction. Most steps move nothing between threads (`Calm`,
`TalkStep`, `CalmJoin`); each of the others has a lemma (`ReportJoin`,
`LeaveJoin`, `SubmitJoin`, `DispatchJoin`, `CheckJoin`, `AnswerJoin`,
`NoticeJoin`, `JoinedJoin`).

`AllLookedUp` follows an entry: before it is handed out it has no flags and while
it is looked up it is unresolved (`DnsInv`); once handed out it is with a worker
or done (`PlacedInv`); unless time runs out a worker is sent away only when no
entry is left for it (`RetireInv`), and the call returns when all are joined
(`ExitInv`). `HandoverStep` shows that a step keeps the entries where they are
(`Kept`), gives a worker whose entry is done the next one (`Given`), or prunes
such a worker (`Pruned`). The refinement then counts the workers at an entry,
which `OneTaskEach` bounds by one (`LookersCount`), and maps a lookup's begin and
end, the time limit and the abort each to its action, all else to a stutter
(`ProgressStep`). A worker is admitted by the test of `EXIT_FLG`
(`TestSeen`), which is spent when it takes its task (`TakeSeen`). That
nobody else is admitted to the entry, and that it is still unresolved, follows
from the invariants on tasks; `HandedElsewhere` says that no step in between
admits anybody without a test, since a task is handed only to a worker that has
none, hence to none that is about to look in its inbox.

`QueuesBounded` is an accounting: the virtual signals queued for the manager,
with those that a worker is about to queue, are at most the lookups made and the
workers that have gone (`CountInv`). `LookupPays`, `ExitPays` and `SubmitPays`
treat the steps that raise either side; the inboxes are bounded by what is left
to hand out (`InboxBound`). Nothing is assumed of `VsigMax`: a submit to a full
queue aborts, and adds nothing. With the sizes of the code, a queue of 1000
virtual signals (`VSIG_QUEUE_MAX`, es.c:30) and up to 200 threads
(`PDNS_MAX_THREADS`, pdns.h:33), the bound leaves room for 400 entries, so up to
there no submit finds a queue full. The number of entries is not limited in the
code; beyond 400 the theorem says nothing of the abort, and whether it comes
depends on how fast the manager empties its queue.

The first half of `HashMapProofs` proves, for any type of item and any size of
the ring, what each operator of `PtrVec` does to `Items(v)`, the sequence the vector stands for:
`PutTailAppends`, `PutHeadPrepends`, `CutHeadIsTail`, `CutTailIsFront`,
`ResizeKeepsItems` and `RemoveLosesOne`. Each starts from `IsRing` (the fields
fit together, and the slots between head and tail hold items) and gives it back.
The arithmetic of indices is in `SlotInRing` and `SlotsDiffer`: two places of
the ring are two slots. Removal closes the gap from one end or the other;
`CloseFromTailLoses` and `CloseFromHeadLoses` show for both that what is left is
the sequence without one item, by following each item to the slot it moves to
(`PlacesBehind`, `PlacesBefore`).

The second half proves, for any keys, values, hash, number of buckets and of
slots from 4 on, and any set of inserts,

- `TypeCorrect`: `Spec => []TypeOK`;
- `RingsCorrect`: `Spec => []BucketsValid`;
- `NodesCorrect`: `Spec => []NodesInPlace`;
- `MultiMapImplemented`: `Spec => ImplementsMultiMap`.

The inductive invariant `TableInv` joins `NodesInPlace` to `RingsInv`: a bucket
satisfies `IsRing` and has four slots or more, so that any of
the sizes it may grow by makes it larger (`RoomIs`). `AddedIs`, `RemovedIs` and
`DrainedIs` put the theorems on vectors in terms of the set of addresses a bucket
holds (`Held`) and of each being in it once (`Once`); removal needs that the
address found first is the only one. `AddHolds`, `RemoveHolds` and `ClearHolds`
are then about one bucket and the node that is made or freed. The assumptions
are those of `HashMap`; the one on `Garbage` says that the mark for memory
without a value is itself no address and no node.

`MultiMapImplemented` maps the list that `MultiMap` has for a key to
`StoredUnder(k)`, the items the loop of `MAP_findItems()` meets. What the
recursion comes to is said without it: some function goes through the positions
of the key in its bucket from the least to the greatest (`InOrder`), there is one
only (`OrderIsOne`), and the list is the items at these positions
(`ListingExists`, `ListingIs`). Then each operation is a change of positions. A
node at the tail adds the greatest (`ListingGrows`), if the key is that of the
list; a node taken out moves the positions behind it by one (`OrderSkips`,
`OrderMoves`) and its item out of its key's list, at the place the order gives it
(`ListingCloses`), and leaves the lists of all other keys, of the same bucket
(`ListingKept`) or another, as they are. `FirstStored` and `FirstItemStored`
say that the first node found is the first of the list, or the first with the
item: `MatchesItem` and `places` are matched by the order. For a visit,
`AllNodesList` shows that bucket after bucket is every node once, and `SpotsMatch`
that the places of all lists are the nodes, one to one, so that any item is as
often among what is handed out as in the lists (`MatchedCount`). The steps of the
table are mapped one by one (`AddMaps` to `VisitMaps`), joined by `NextMaps`.
`RtnArrAssumption` says that a caller's room is a number, as the unsigned
`rtnArrSize` is (map.c:211).

`BlockRunProofs` proves, for any number of runs and addresses, any `MaxAddr`,
allowances, counts and events,

- `TypeCorrect`: `Spec => []TypeOK`;
- `LocksCorrect`: `Spec => [](LocksHeld /\ ModeInv)`;
- `BatchesCorrect`: `Spec => []EveryAddressOnce`, with the invariant below;
- `CommandsCorrect`: `Spec => []CommandsWellFormed`;
- `SoloRunCorrect`: `Spec => []SoloRunSettles`.

A run is disturbed by others only through locks and rules: `OthersStep` says
that a step of another leaves all its variables as they were, and the rules,
too, unless it also makes `calm` false. So each invariant is one of a single
run. `EveryAddressOnce` is not inductive: that the buffer and the address
carried over belong to the vector being sent needs the order of the families
(`FamilyInv`), that the size of a batch is what `naddr` counts (`CountInv`), and
that the other vector is untouched or done (`SentInv`); `BatchInv` is the
conjunction. `SoloRunSettles` then needs what the rules are in the middle of a
batch: those listed, with those already added, without those already deleted
(`RulesInv`), and that the decision is still the one for what was read
(`DecidedInv`).

`ServiceLoopProofs` proves, for any addresses, configurations, backlog, length
of the logs, number of targets and of events,

- `TypeCorrect`: `Spec => []TypeOK`;
- `CountsCorrect`: `Spec => []CountsTrue`;
- `CacheCorrect`: `Spec => []CacheTrue`;
- `BoundCorrect`: `Spec => []CacheBounded`;
- `WatchCorrect`: `Spec => []WatchesTheLog`.

`CacheTrue` needs that what a run is about to write belongs to the file it is
about to write, or that the file is marked (`HandInv`). A file stays true as long
as nobody changes it or its data base (`TrueKept`); of the two removals, that of
the data base leaves a file that is `cut`, that of the file none
(`UnlinkKeepsCache`), and nothing marks a file `cut` but that. `CacheBounded`
needs that whatever a run is done with has its cache file, which only its own
removals could take away, one at a time (`BoundInv`, `UnlinkKeepsBound`). `WatchesTheLog` needs that once the
watched log has been moved the pipe says so until the script gives up the watch,
and that runs which are not the script's do not move the script (`WatchInv`).

`TypeOK` bounds every count by `MaxLen * MaxTargets`. That is no restatement of
an assignment: a crash may cut a line of a cache file within its address, so that
two addresses share a count, and the bound survives because their lines are
lines of one log (`OffensesAre`, `RemnantsAre`); hence a run that writes has to
be known to hold what some content has (`FileInv`).

`CountsTrue` needs, at every step of a run, that what it is done with and what
is still to do make up the names in the directory, in order; that what it has in
hand belongs to the log at the head; and that each log done with was counted in
full, unless its cache file is marked (`CountInv`). `LoadCounts` takes what a
cache file holds from `CacheInv` and its type from `TypeInv`, and treats files
with and without their data base: with it, an address has its lines there if and
only if it has offenses, and `ReportedIs` says that reading the log at these
places gives as many lines as there are offenses; without, there is none to
report. The two
folds are unfolded by hand: `TotalIs` for sums over at most two logs, which is
how many `LogNames` has, and `FlattenIs` for any number of sequences, whose
first wrong prefix is the least of a set (`Least`). The theorem thus holds for
one predecessor of the log; for more the sum is beyond the prover (below). The
assumptions are those of `LogCache`.

`EventServerProofs` proves, for any main thread, workers, specifications of what
they register, signals, bounds of the clock and of events,

- `TypeCorrect`: `Spec => []TypeOK`;
- `FiledCorrect`: `Spec => []FiledOnce`;
- `CalledCorrect`: `Spec => []CalledWhileRegistered`;
- `ServedCorrect`: `Spec => []EveryoneServed`;
- `KeysCorrect`: `Spec => []KeysUnique`.

The key counter is read and written in two steps without a lock, so the invariant
is about whose turn it is: a worker registers only while the main thread waits in
`ES_spawn_thread_sched()` for a release that was not given, and no second worker
does (`TurnInv`); then what a thread has read of the counter is still what it
holds, and every callback has a key the counter has passed (`CounterInv`). All
other steps change callbacks in place, and a callback keeps its key even when it
is freed (`KeysKept`).

The other four hold together or not at all. The key map is what the vectors hold,
each callback once and in the vector of its type (`FiledInv`), with a handler
installed for each signal waited for (`CaughtInv`). `FiledOnce` thus needs to
know what the purge removes: the list of what is
to be removed is exactly what is marked, once each (`MarkedInv`); and that purge
is safe only because what `ES_run()` holds across a call - the index, the array
for `poll()`, the callbacks of a virtual signal - is filed as long as the round
lasts (`RunInv`), which is what the marking is for. `EveryoneServed` needs the
order of the timers: those registered before the round and still owed a call come
at or behind the index of the loop, by time, and those registered meanwhile behind
them (`TimersInOrder`,
`OwedInv`). `Inv` is the conjunction with the types.

Each part has lemmas of its own: `InPlace` is what a step does to callbacks that
it neither makes nor frees (`ObjectSteps`), `DestroyFiled`, `StoreFiled` and
`CleanupFiled` the steps that do; `Quiet` and `MainStays` are the steps that
touch no list; the loops have one lemma for each action (`StartRest`,
`PollRest`, `CallSignalRest`, `DrainRest`, `CallTimerRest`, `CallFdRest`,
`CallbackRest`, `ReturnRest`, `PurgeRest`). `SortedSeq` says that sorting a vector
keeps what is in it, once each, in order; `TakenOut` what taking one callback out
leaves. The first index that is not served yet is the least of a set, which
exists because `<` on `Nat` is well-founded (`Least`). The assumptions are those
of `EventServer`: the main thread is no worker, specifications are well-formed,
and `SignalsApart`.

`StartupProofs` proves, for any files, deviating lines, options, address space
and any number of open files and of deviations,

- `TypeCorrect`: `Spec => []TypeOK`;
- `OnlyProductionCorrect`: `Spec => []OnlyProductionActs`;
- `UnrecognisedCorrect`: `Spec => []UnrecognisedReported`;
- `AllowanceCorrect`: `Spec => []AllowanceFromBlocks`;
- `LogTypesCorrect`: `Spec => []LogTypesAsWritten`;
- `MapCorrect`: `Spec => []MapIsTheText`.

`StartInv`, of the first, adds to the types that a file is open while options
are taken and the file is read, that there are finitely many symbols (a sum over
infinitely many would be no number) and that the options are a sequence. That
what `CFGMAP_numTuples()` returns is a number is not obvious, since it sums up by
a fold over a set of symbols taken in no particular order; `CountsExist` and
`CountBounds` show, for a set of any size, that the fold has a result and that
it is a number: of all the sets of symbols for which that were wrong one would
be the smallest, which exists because `<` on `Nat` is well-founded (`Least`). In the same way `FlattenTyped` shows that the
steps `configure()` unfolds into are a sequence of steps. The lemmas named
`...Typed` treat each kind of line, those named `...Inv` each action. The
assumptions are those of `CfgMap`, `MaxOff` and `Startup`: lines and values are
of the shape that lexer and `sscanf()` give them.

`OnlyProductionActs` needs that each option looked at has had its effect, by the
flag it sets or because the run fails over it (`OptionsInv`), and that a cache
directory is removed only after the last option was looked at, and nothing a log
type needs before all log types are known (`CacheInv`); `ActInv` is the
conjunction. A `-t` without its file sets nothing (`-t:` is no member of the
options the property is about), as the code has it.

`UnrecognisedReported` compares what a walk has left with what is written, and so
needs both halves of the walk at every step. Nothing is done for a block that
the values do not name, and nothing looked up that is of no use (`SoundInv`);
and of each section looked up every block has been initialised and its own two
sections have been looked up, or a step for it is on the list of what is to be
done (`CompleteInv`). When the list is empty every block has been come to: of
those that have not, one would be the least deep (`AllWalked`), and the block
around it has. `Visits` is a product along a path; `ProductExists`,
`ProductUnique` and `ProductNat` give it its recursion (`VisitsBlock`).
`SectionStep` and `InitStep` are the two kinds of step, `FlattenHolds` and
`SectionList` say that the list loses none of the steps put on it, and
`NeededRecognised` and `RecognisedLooked` that what `LOGTYPE_init()` and
`MAXOFF_init()` look up is what a symbol is recognised by. `LastValueIs` ties
`CFGMAP_find_last_value()` to the value written last; it needs that NULL is no
string (`GarbageAssumption`).

`AllowanceFromBlocks` adds to the walk what `MAXOFF_init()` does for each block:
what is registered is the number of a block that lists the address or country
(`AllowSound`), and of each block that was initialised all that it lists is
registered (`AllowComplete`); `AllowInv` is the conjunction with `ReportInv`.
That the addresses `MAXOFF_init()` generates for a CIDR value, `net | i` for each
`i` below a shifted mask, are those of the block but its last (`ListedIsCovers`)
is arithmetic of bits for a width of any size: numbers with the same bits are the
same (`SameBits`), and to add a number below a bit sets the bits of both
(`BitsOfSum`), from the quotient and the rest of a division (`Division`,
`DivisionIs`). It needs that a subnet has a bit at least and at most the width
(`WidthAssumption`), and, as the property says, a prefix shorter than an address.

`LogTypesAsWritten` says how many log types there are, so that to know which
blocks were come to is not enough: `TallyInv` counts. There is a function `d` of
how often the two sections of each block have been walked, such that with the
times they are on the list of what is to be done this is once at the top, and
elsewhere as often as the walked sections around the block name it (`Walks`); and
a sequence `o` of the blocks there is a log type of, in which, with the list
again, each block is as often as the walked `LOGTYPE` sections around name it
(`Made`). A step takes one item from the list and the lemmas named `...Tally` say
for each kind that the books balance, from how often something is in the list
that `FlattenSeq` makes of a section's values (`CountFlat`,
`CountWalked`). When the list is empty, `d` is `SectionVisits`
(`WalkedAsVisited`): of the blocks for which it is not, one would be the least
deep. What is left is that the sum of a count over all blocks is the length of
`o`. The sum is a fold over a set taken in no particular order, and
`SumIsLength` shows it for a set of any size by taking from `o` all places of one
block at a time; the smallest set for which it failed cannot be. `LogTypeIs` says
that a log type which `LOGTYPE_init()` does not refuse is the one its block
describes.

`MapIsTheText` defines what a configuration means on the whole text at once: the
blocks around a line are the lines that open one and are not closed before it,
from how many are open at each line, where a `}` at the end of any line, of an
`.include` too, closes one before the line itself counts; and a value is the one
of its line unless a later line beginning with `@` names its symbol and index. The parser goes line by line
and keeps a list of open blocks. `MeaningOf(d)` is that meaning of any lines
`d`, and `FiledInv` says of the lines read so far that the map is their meaning,
that the serial number counts their values, and that the list holds the blocks
of the lines still open, oldest first (`Means`). It holds until the run fails or
has done with the map, so beyond the moment `MapIsTheText` is about. The lemmas
say what one more line (`Adds`) changes: not the symbols of the lines before it
(`PathsStay`), and its own is that of the open blocks, of which its `}` first
takes off the innermost (`StackStep`, `PathNew`, `BlocksStep`); it adds one value
at the end of one symbol (`ValuesMore`, `MeaningFiled`), replaces values of one
symbol, over any replacement before (`ValuesReplaced`, `MeaningReplaced`), or
leaves them (`MeaningStays`). `PairReads`, `ReplaceReads` and `CloseReads`, which
is also for `Include`, are the actions. A set of lines is put in order by `InOrder`, and the increasing sequence
through a finite set of numbers is the only one (the lemmas named `Lists...`),
so that a last line more is a last element more.

Only model-checked:

- every liveness property (`Termination`, `RunsEnd`, `Converges`, `Noticed`),
  since liveness under fairness is beyond the prover, and what a recursive
  definition computes for every input.

## 5. Not modelled, and the plan

Done: everything of the plan.

Not modelled of components that are:

- `es.c`: scheduling attributes of spawned threads, the time-out of `poll()` cut
  down to `int`, the default action of a signal, which the last thread to
  unregister restores for the whole process, `ES_cleanup()`'s leak of the list
  of callbacks to be removed. The noting of a signal is one step, as the x86-64
  library compiles it. The mutex of virtual signals is in `EventEngine` only. A
  virtual signal without a callback ends `sigusr2_h()`; `Drain` does that, but
  with the callers there are a callback is registered first.
- `ptrvec.c`: `PTRVEC_sort()` (`qsort()` on a copy of the items),
  `PTRVEC_reset()`, vectors of less than four slots, for which growth by a
  quarter is none.
- `ban2fail.c`: the lists that are printed, the time stamp file, the start of
  the DNS lookups, which change nothing of what is modelled.
- `logFile.c`, `offEntry.c`: decompression, severity and latest time, which are
  only printed. Checksums stand for contents; that of the patterns joins them
  without separators, so that two configurations which cut the same text
  differently would share a directory.
- `addrRpt.c`: reports by country.
- `cfgmap.c`: the lexer, below the line, and queries without a caller; tabs,
  which the lexer drops as not printable.
- `ban2fail.sh`: the events of a log that is deleted or unmounted, which fall to
  `*) continue` (ban2fail.sh:47-53); the rate limit as a time.
- `target.c`, `timestamp.c`: matching, which is regular expressions, and the
  year that is guessed, which is only printed.
- `cntry.c`: a data base decides; `CountryOf` stands for it.

Not modelled at all: `b2f-grep.c` (a filter that keeps the closest address of a
stream), `str.c` and `dynstack.c` (growing arrays, sequential, in reach of unit
tests), `ez_*.c` and `util.c` (wrappers that abort on error; what they do to
control is modelled where they are called), `fsckdns.c` and the installation and
report scripts. Regular expressions, compression and GeoIP are libraries.
