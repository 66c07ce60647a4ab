---------------------------- MODULE ServiceLoop -----------------------------
(***************************************************************************)
(* The service, ban2fail.sh, around the runs of LogCache: it asks for the  *)
(* name of the log, makes a first run, watches log and configuration       *)
(* through inotifywait, makes a run whenever the log is written, and       *)
(* begins again when the log is moved, the configuration written, or a run *)
(* fails, except the first.  inotifywait watches the file, wherever it is  *)
(* moved.  Now and then somebody else asks about an address, with a run    *)
(* that shares the cache; whether it changes rules is in BlockRun.         *)
(***************************************************************************)
EXTENDS LogCache

VARIABLES
  sh,        \* where the script is
  watched,   \* the name of the log that is watched, or Gone
  pipe,      \* lines of inotifywait that have not been read
  missed,    \* history: something written while watched waits for a run, or for its end
  blind      \* history: the first run of this round of the main loop has failed

shellVars == <<sh, watched, pipe, missed, blind>>
vars == <<logCacheVars, shellVars>>

Init ==
  /\ LogCacheInit
  /\ sh = "first" /\ watched = Gone /\ pipe = <<>>
  /\ missed = "no" /\ blind = FALSE

\* A run that has begun will see what has been written.
Begins ==
  /\ ReadConfig("service") /\ UNCHANGED events
  /\ missed' = IF missed = "yes" THEN "run" ELSE missed

\* $BAN2FAIL --print-lfn, which touches nothing, and the first run.
FirstRun ==
  /\ sh = "first" /\ Begins /\ sh' = "wait_first"
  /\ UNCHANGED <<watched, pipe, blind>>

Works == (Lock("service", Gone) \/ RunStep) /\ UNCHANGED shellVars

\* How the script goes on after its run, which may fail if it is the first.
AfterRun(ok) ==
  /\ sh' = IF sh = "wait_first" THEN "launch" ELSE IF ok THEN "read" ELSE "pause"
  /\ missed' = IF missed # "run" THEN missed ELSE IF ok THEN "no" ELSE "yes"
  /\ blind' = (blind \/ (sh = "wait_first" /\ ~ok))

\* Whose run has ended.
After(ok) == IF asked = Gone THEN AfterRun(ok) ELSE UNCHANGED <<sh, missed, blind>>

\* Mutant: one run is thought to do for all writes that came in during it.
RunEnds_drains ==
  /\ Exit /\ After(pc = "done")
  /\ pipe' = SelectSeq(pipe, LAMBDA op : op # "MODIFY")
  /\ UNCHANGED watched
RunEnds ==
  /\ Exit /\ After(pc = "done")
  /\ UNCHANGED <<watched, pipe>>

\* inotifywait watches what has the name now, or ends at once if nothing has.
Launch ==
  /\ sh = "launch"
  /\ IF logs["log"] = Gone
     THEN sh' = "pause" /\ UNCHANGED watched
     ELSE sh' = "read" /\ watched' = "log"
  /\ UNCHANGED <<logCacheVars, pipe, missed, blind>>

\* Mutant below: the script goes on reading after the log has been moved.
Breaks_not(op) == op = "CFG_MODIFY"
Breaks(op) == op \in {"MOVE_SELF", "CFG_MODIFY"}

ReadEvent ==
  /\ sh = "read" /\ pipe # <<>>
  /\ pipe' = Tail(pipe)
  /\ sh' = IF Breaks(Head(pipe)) THEN "pause" ELSE "sleep"
  /\ UNCHANGED <<logCacheVars, watched, missed, blind>>

\* Not more often than every MIN_PERIOD_DS: sleep, then run.
NextRun ==
  /\ sh = "sleep" /\ Begins /\ sh' = "wait"
  /\ UNCHANGED <<watched, pipe, blind>>

\* kill inotifywait, sleep a second, begin again.
Again ==
  /\ sh = "pause" /\ sh' = "first"
  /\ watched' = Gone /\ pipe' = <<>> /\ blind' = FALSE
  /\ UNCHANGED <<logCacheVars, missed>>

Misses(seen) == missed' = IF seen THEN "yes" ELSE missed
Notify(n, op) == pipe' = IF watched = n THEN Append(pipe, op) ELSE pipe

WorldWrites(n, a) ==
  /\ Written(n, a) /\ Notify(n, "MODIFY")
  /\ Misses(watched = n)
  /\ UNCHANGED <<sh, watched, blind>>

WorldMoves ==
  /\ Moved /\ Notify("log", "MOVE_SELF")
  /\ watched' = IF watched = "log" THEN "log.1" ELSE Gone
  /\ Misses(watched = "log")
  /\ UNCHANGED <<sh, blind>>

WorldCreates == Created /\ UNCHANGED shellVars

WorldConfigures(p) ==
  /\ Configured(p)
  /\ pipe' = IF watched = Gone THEN pipe ELSE Append(pipe, "CFG_MODIFY")
  /\ Misses(watched # Gone)
  /\ UNCHANGED <<sh, watched, blind>>

\* Somebody else's run begins, and gets the lock.
WorldAsks == Event /\ ReadConfig("somebody") /\ UNCHANGED shellVars
WorldLocks ==
  /\ \E a \in Asked \ {Gone} : Lock("somebody", a)
  /\ UNCHANGED shellVars

WorldKills ==
  /\ Killed /\ After(FALSE)
  /\ UNCHANGED <<watched, pipe>>

WorldKillsWaiting(c) ==
  /\ KilledWaiting(c)
  /\ IF c = "service" THEN AfterRun(FALSE) ELSE UNCHANGED <<sh, missed, blind>>
  /\ UNCHANGED <<watched, pipe>>

World ==
  \/ \E a \in Addrs, n \in LogNames : WorldWrites(n, a)
  \/ WorldMoves \/ WorldCreates \/ WorldKills \/ WorldAsks \/ WorldLocks
  \/ \E c \in Callers : WorldKillsWaiting(c)
  \/ \E p \in Patterns : WorldConfigures(p)

Service ==
  FirstRun \/ Works \/ RunEnds \/ Launch \/ ReadEvent \/ NextRun \/ Again

Next == Service \/ World

Spec == Init /\ [][Next]_vars

\* The script and its runs are never suspended for good; logrotate finishes.
FairSpec == Spec /\ WF_vars(Service) /\ WF_vars(WorldCreates)

---------------------------------------------------------------------------
(* Properties.                                                             *)

\* LogCacheTypeOK, and the state of the script.
TypeOK ==
  /\ LogCacheTypeOK
  /\ sh \in {"first", "wait_first", "launch", "read", "sleep", "wait", "pause"}
  /\ watched \in LogNames \cup {Gone}
  /\ pipe \in Seq({"MODIFY", "MOVE_SELF", "CFG_MODIFY"})
  /\ missed \in {"no", "yes", "run"} /\ blind \in BOOLEAN

\* While the script sleeps on an empty pipe the file it watches is the log, and
\* not the one the log has been renamed to.
WatchesTheLog == sh = "read" /\ pipe = <<>> => watched = "log"

\* Whatever is written, moved or configured while the service watches is followed by
\* a run that begins after it and ends well, whatever the order of events, rotations
\* and failures: unless the first run after the main loop began again fails.
Noticed == missed # "no" ~> (missed = "no" \/ blind)
=============================================================================
