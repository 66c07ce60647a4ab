------------------------------ MODULE BlockRun ------------------------------
(***************************************************************************)
(* Runs of ban2fail (main() of ban2fail.c) that change the DROP rules of   *)
(* the firewall through iptables.c.  Several runs may be under way at      *)
(* once: the service's own, an administrator's, reports from cron.  They   *)
(* share two lock files and the rules.  A run counts the offenses in the   *)
(* logs, lists the rules, decides, and issues iptables commands for as     *)
(* many addresses at a time as one command takes.                          *)
(*                                                                         *)
(* How the logs are read is the matter of LogCache; here a run copies the  *)
(* counts in one step.  MAXOFF_allowed() is a constant.  Two addresses of  *)
(* one family have no order: addrCmp_pvsort() only sorts the families.     *)
(***************************************************************************)
EXTENDS Integers, FiniteSets

CONSTANTS Runs,        \* processes that run ban2fail, one run after another
          V4, V6,      \* addresses of each family
          Allowed,     \* MAXOFF_allowed() of each address
          Counts,      \* how many offenses of an address the logs may hold
          MaxAddr,     \* IPTABLES_MAX_ADDR
          Modes,       \* what a run may be asked for
          MaxEvents,   \* bounds what the world does to the runs
          NULL

Addrs == V4 \cup V6
Cmds == {"-A", "-D"}

ASSUME FamilyAssumption == V4 \cap V6 = {} /\ NULL \notin Addrs
ASSUME RunsAssumption == NULL \notin Runs
ASSUME AllowedAssumption == Allowed \in [Addrs -> Int]
ASSUME ModesAssumption == Modes \subseteq {"apply", "report", "names"}
ASSUME CountsAssumption == Counts \subseteq Nat
ASSUME MaxAddrAssumption == MaxAddr \in Nat \ {0}
ASSUME MaxEventsAssumption == MaxEvents \in Nat

VARIABLES
  rules,           \* how many DROP rules the firewall has for each address
  count,           \* the offenses of each address in the logs
  events,          \* how often the world has meddled
  cacheLock, iptablesLock,   \* who holds each lock file, or NULL
  pc, mode,        \* of each run: where it is, what it was asked for,
  found,           \*   the counts in its addr2logEntry_map,
  seen,            \*   addr_map of iptables.c, the addresses listed as blocked,
  todo,            \*   toBlock_vec and toUnblock_vec,
  cmdFlag,         \*   the command _control_addresses() is issuing,
  addr_sb, naddr,  \*   the addresses collected for it and their number,
  addr             \*   the address taken from the vector last
VARIABLES          \* history, for the properties only:
  decided,         \*   the two vectors as they were decided,
  sent,            \*   the addresses of the commands that succeeded,
  calm             \*   TRUE while what a run listed is what is there

worldVars == <<rules, count, events>>
lockVars == <<cacheLock, iptablesLock>>
listVars == <<found, seen>>
cmdVars == <<todo, cmdFlag, addr_sb, naddr, addr>>
pastVars == <<decided, sent>>
runVars == <<mode, listVars, cmdVars, pastVars>>
vars == <<worldVars, lockVars, pc, calm, runVars>>

NoWork == [c \in Cmds |-> {}]

Init ==
  /\ rules \in [Addrs -> {0, 1}] /\ count \in [Addrs -> Counts] /\ events = 0
  /\ cacheLock = NULL /\ iptablesLock = NULL
  /\ pc = [p \in Runs |-> "idle"] /\ mode = [p \in Runs |-> "apply"]
  /\ found = [p \in Runs |-> [a \in Addrs |-> 0]]
  /\ seen = [p \in Runs |-> {}]
  /\ todo = [p \in Runs |-> NoWork] /\ cmdFlag = [p \in Runs |-> "-A"]
  /\ addr_sb = [p \in Runs |-> {}] /\ naddr = [p \in Runs |-> 0]
  /\ addr = [p \in Runs |-> NULL]
  /\ decided = [p \in Runs |-> NoWork] /\ sent = [p \in Runs |-> NoWork]
  /\ calm = [p \in Runs |-> FALSE]

At(p, s) == pc[p] = s
Goto(p, s) == pc' = [pc EXCEPT ![p] = s]

---------------------------------------------------------------------------
(* Reading the logs, under the lock of the cache.                          *)

\* Every option but -F and -v makes a run that changes nothing ("report", or
\* "names" for --print-lfn).
Start(p, m) ==
  /\ At(p, "idle") /\ Goto(p, "cache")
  /\ mode' = [mode EXCEPT ![p] = m]
  /\ UNCHANGED <<worldVars, lockVars, calm, listVars, cmdVars, pastVars>>

LockCache(p) ==
  /\ At(p, "cache") /\ cacheLock = NULL
  /\ cacheLock' = p
  /\ Goto(p, "scan")
  /\ UNCHANGED <<worldVars, iptablesLock, calm, runVars>>

\* configure() constructs the log types, which read the logs or print their
\* names; --print-lfn ends here.
Configure(p) ==
  /\ At(p, "scan")
  /\ IF mode[p] = "names"
     THEN Goto(p, "abort") /\ UNCHANGED found
     ELSE Goto(p, "unlock") /\ found' = [found EXCEPT ![p] = count]
  /\ UNCHANGED <<worldVars, lockVars, calm, mode, seen, cmdVars, pastVars>>

UnlockCache(p) ==
  /\ At(p, "unlock") /\ cacheLock' = NULL
  /\ Goto(p, "list4")
  /\ UNCHANGED <<worldVars, iptablesLock, calm, runVars>>

---------------------------------------------------------------------------
(* Listing the rules and deciding, under no lock at all.                   *)

Listed(family) == {a \in family : rules[a] > 0}

\* initialize() lists first the rules of one family, then those of the other.
List(p) ==
  \/ /\ At(p, "list4") /\ Goto(p, "list6")
     /\ seen' = [seen EXCEPT ![p] = Listed(V4)]
     /\ calm' = [calm EXCEPT ![p] = \A a \in Addrs : rules[a] <= 1]
     /\ UNCHANGED <<worldVars, lockVars, mode, found, cmdVars, pastVars>>
  \/ /\ At(p, "list6") /\ Goto(p, "decide")
     /\ seen' = [seen EXCEPT ![p] = @ \cup Listed(V6)]
     /\ UNCHANGED <<worldVars, lockVars, calm, mode, found, cmdVars, pastVars>>

\* The count is unsigned, and so is what it is compared with: no count exceeds a
\* negative number, be it the -1 that marks the whitelist or another.
Exceeds(n, a) == Allowed[a] >= 0 /\ n > Allowed[a]

\* Mutant: an address with exactly as many offenses as allowed stays blocked.
Unjust_strict(n, a) == Allowed[a] < 0 \/ n < Allowed[a]
Unjust(n, a) == Allowed[a] < 0 \/ n <= Allowed[a]

\* The addresses in the logs, and those that are blocked, which
\* IPTABLES_fill_in_missing() adds with no offense.
Known(p) == {a \in Addrs : found[p][a] > 0} \cup seen[p]

ToBlock(p) == {a \in Known(p) \ seen[p] : Exceeds(found[p][a], a)}
ToUnblock(p) == {a \in Known(p) \cap seen[p] : Unjust(found[p][a], a)}
Work(p) == [c \in Cmds |-> IF c = "-A" THEN ToBlock(p) ELSE ToUnblock(p)]

\* The loop over all known addresses.
Decide(p) ==
  /\ At(p, "decide")
  /\ todo' = [todo EXCEPT ![p] = Work(p)]
  /\ decided' = [decided EXCEPT ![p] = Work(p)]
  /\ Goto(p, IF mode[p] = "report" \/ Work(p) = NoWork THEN "end" ELSE "lock")
  /\ UNCHANGED <<worldVars, lockVars, calm, mode, listVars,
                 cmdFlag, addr_sb, naddr, addr, sent>>

---------------------------------------------------------------------------
(* Changing the rules, under the lock of iptables.                         *)

\* _control_addresses() begins: with what is to be blocked, if anything is.
Enter(p, c) ==
  /\ cmdFlag' = [cmdFlag EXCEPT ![p] = c]
  /\ naddr' = [naddr EXCEPT ![p] = 0]
  /\ addr_sb' = [addr_sb EXCEPT ![p] = {}]
  /\ addr' = [addr EXCEPT ![p] = NULL]
  /\ Goto(p, "v4")

LockIptables(p) ==
  /\ At(p, "lock") /\ iptablesLock = NULL
  /\ iptablesLock' = p
  /\ Enter(p, IF todo[p]["-A"] # {} THEN "-A" ELSE "-D")
  /\ UNCHANGED <<worldVars, cacheLock, calm, mode, listVars, todo, pastVars>>

\* PTRVEC_remHead() of the sorted vector: any address of the first family
\* before those of the second, or NULL.
Heads(p) ==
  LET left == todo[p][cmdFlag[p]]
  IN  IF left = {} THEN {NULL}
      ELSE IF left \cap V4 # {} THEN left \cap V4 ELSE left

Take(p, a) ==
  /\ a \in Heads(p)
  /\ addr' = [addr EXCEPT ![p] = a]
  /\ todo' = [todo EXCEPT ![p][cmdFlag[p]] = @ \ {a}]

\* Mutant below: one more address is collected than a command takes.
More_one_too_many(n) == n <= MaxAddr
More(n) == n < MaxAddr

Collect(p, S) ==
  /\ addr_sb' = [addr_sb EXCEPT ![p] = @ \cup S]
  /\ naddr' = [naddr EXCEPT ![p] = @ + Cardinality(S)]

\* The do-while loop over ipv4 addresses: the one that ends it, of the other
\* family or NULL, stays in addr; what has been collected goes first.
V4Take(p) ==
  /\ At(p, "v4")
  /\ \E a \in Heads(p) :
       /\ Take(p, a)
       /\ Collect(p, {a} \cap V4)
       /\ Goto(p, IF a \in V4 THEN IF More(naddr[p] + 1) THEN "v4" ELSE "v4cmd"
                  ELSE IF naddr[p] = 0 THEN "v6" ELSE "v4cmd")
  /\ UNCHANGED <<worldVars, lockVars, calm, mode, listVars, cmdFlag, pastVars>>

\* Mutant below: the loop goes on while there was something to unblock.
Leave_repeats(p) ==
  IF decided[p]["-D"] # {}
  THEN Enter(p, "-D")
  ELSE Goto(p, "release") /\ UNCHANGED <<cmdFlag, naddr, addr_sb, addr>>

\* What follows a vector that is done: the other one, or the end.
Leave(p) ==
  IF cmdFlag[p] = "-A" /\ todo[p]["-D"] # {}
  THEN Enter(p, "-D")
  ELSE Goto(p, "release") /\ UNCHANGED <<cmdFlag, naddr, addr_sb, addr>>

\* The loop over ipv6 addresses, which begins with the one left over.
\* Mutants: it begins with the next one, or takes the NULL for one.
Carried_lost(p) == {}
Carried_null(p) == {addr[p]}
Carried(p) == {addr[p]} \ {NULL}

V6Take(p) ==
  /\ At(p, "v6")
  /\ LET n == naddr[p] + Cardinality(Carried(p))
     IN  \E a \in Heads(p) :
           IF a = NULL /\ n = 0
           THEN Leave(p) /\ UNCHANGED todo
           ELSE /\ Take(p, a)
                /\ Collect(p, Carried(p))
                /\ Goto(p, IF More(n) /\ a # NULL THEN "v6" ELSE "v6cmd")
                /\ UNCHANGED cmdFlag
  /\ UNCHANGED <<worldVars, lockVars, calm, mode, listVars, pastVars>>

\* iptables adds a rule for each address, or deletes one of each, all of them or
\* none: it fails where there is nothing to delete.
Changed(r, c, S) ==
  [a \in Addrs |-> IF a \notin S THEN r[a] ELSE IF c = "-A" THEN r[a] + 1 ELSE r[a] - 1]
CanChange(r, c, S) == c = "-A" \/ \A a \in S : r[a] > 0

\* Nobody else's listing is up to date any more.
Disturbs(p) == calm' = [q \in Runs |-> q = p /\ calm[q]]

Apply(p) ==
  /\ CanChange(rules, cmdFlag[p], addr_sb[p])
  /\ rules' = Changed(rules, cmdFlag[p], addr_sb[p])

\* run_command() succeeds.
Command(p) ==
  /\ pc[p] \in {"v4cmd", "v6cmd"}
  /\ Apply(p)
  /\ Disturbs(p)
  /\ sent' = [sent EXCEPT ![p][cmdFlag[p]] = @ \cup addr_sb[p]]
  /\ IF At(p, "v6cmd") /\ addr[p] = NULL
     THEN Leave(p)
     ELSE /\ Goto(p, IF At(p, "v4cmd") /\ addr[p] \in V4 THEN "v4" ELSE "v6")
          /\ naddr' = [naddr EXCEPT ![p] = 0]
          /\ addr_sb' = [addr_sb EXCEPT ![p] = {}]
          /\ UNCHANGED <<cmdFlag, addr>>
  /\ UNCHANGED <<count, events, lockVars, mode, listVars, todo, decided>>

Release(p) ==
  /\ At(p, "release") /\ iptablesLock' = NULL
  /\ Goto(p, "end")
  /\ UNCHANGED <<worldVars, cacheLock, calm, runVars>>

\* Nothing to delete, so the command fails, and main() gives up.
CommandFails(p) ==
  /\ pc[p] \in {"v4cmd", "v6cmd"}
  /\ ~CanChange(rules, cmdFlag[p], addr_sb[p])
  /\ Goto(p, "abort")
  /\ UNCHANGED <<worldVars, lockVars, calm, runVars>>

\* Mutant below: main() returns early and keeps its locks.
Without_early_return(lock, p) == lock
Without(lock, p) == IF lock = p THEN NULL ELSE lock

\* A process that has ended holds no lock and knows nothing.
Ended(p) ==
  /\ cacheLock' = Without(cacheLock, p)
  /\ iptablesLock' = Without(iptablesLock, p)
  /\ Goto(p, "idle")
  /\ mode' = [mode EXCEPT ![p] = "apply"]
  /\ found' = [found EXCEPT ![p] = [a \in Addrs |-> 0]]
  /\ seen' = [seen EXCEPT ![p] = {}]
  /\ todo' = [todo EXCEPT ![p] = NoWork]
  /\ cmdFlag' = [cmdFlag EXCEPT ![p] = "-A"]
  /\ addr_sb' = [addr_sb EXCEPT ![p] = {}]
  /\ naddr' = [naddr EXCEPT ![p] = 0]
  /\ addr' = [addr EXCEPT ![p] = NULL]
  /\ decided' = [decided EXCEPT ![p] = NoWork]
  /\ sent' = [sent EXCEPT ![p] = NoWork]

\* The label abort: of main(), where every run ends.
Exit(p) ==
  /\ pc[p] \in {"end", "abort"}
  /\ Ended(p)
  /\ calm' = [calm EXCEPT ![p] = FALSE]
  /\ UNCHANGED worldVars

---------------------------------------------------------------------------
(* What the world does, at most MaxEvents times.                           *)

Event == events < MaxEvents /\ events' = events + 1

\* The logs grow, or logrotate deletes one.
LogsChange(a, n) ==
  /\ Event /\ n # count[a]
  /\ count' = [count EXCEPT ![a] = n]
  /\ UNCHANGED <<rules, lockVars, pc, calm, runVars>>

\* The rules are flushed, or a reboot has lost them.
RulesFlushed ==
  /\ Event
  /\ rules' = [a \in Addrs |-> 0]
  /\ calm' = [p \in Runs |-> FALSE]
  /\ UNCHANGED <<count, lockVars, pc, runVars>>

\* An administrator deletes a rule, or adds one.
RuleEdited(a) ==
  /\ Event
  /\ rules' \in {[rules EXCEPT ![a] = @ + 1], [rules EXCEPT ![a] = IF @ > 0 THEN @ - 1 ELSE 0]}
  /\ calm' = [p \in Runs |-> FALSE]
  /\ UNCHANGED <<count, lockVars, pc, runVars>>

\* iptables -nL fails: its message goes to /dev/null, and ez_pclose() does not
\* look at its exit status.
ListFails(p) ==
  /\ Event
  /\ \/ At(p, "list4") /\ Goto(p, "list6")
     \/ At(p, "list6") /\ Goto(p, "decide")
  /\ calm' = [calm EXCEPT ![p] = FALSE]
  /\ UNCHANGED <<rules, count, lockVars, runVars>>

\* configure() fails, or a command does for reasons of its own.
StepFails(p) ==
  /\ Event
  /\ pc[p] \in {"scan", "v4cmd", "v6cmd"}
  /\ Goto(p, "abort")
  /\ UNCHANGED <<rules, count, lockVars, calm, runVars>>

\* The process is killed; the iptables command it waits for may still succeed.
Killed(p) ==
  /\ Event
  /\ pc[p] # "idle"
  /\ \/ rules' = rules /\ calm' = [calm EXCEPT ![p] = FALSE]
     \/ /\ pc[p] \in {"v4cmd", "v6cmd"}
        /\ Apply(p)
        /\ calm' = [q \in Runs |-> FALSE]
  /\ Ended(p)
  /\ UNCHANGED count

RunStep(p) ==
  \/ LockCache(p) \/ Configure(p) \/ UnlockCache(p) \/ List(p) \/ Decide(p)
  \/ LockIptables(p) \/ V4Take(p) \/ V6Take(p) \/ Command(p) \/ CommandFails(p)
  \/ Release(p) \/ Exit(p)

World ==
  \/ \E a \in Addrs : RuleEdited(a) \/ \E n \in Counts : LogsChange(a, n)
  \/ RulesFlushed
  \/ \E p \in Runs : ListFails(p) \/ StepFails(p) \/ Killed(p)

Next ==
  \/ \E p \in Runs :
       \/ \E m \in Modes : Start(p, m)
       \/ RunStep(p)
  \/ World

Spec == Init /\ [][Next]_vars

\* A process that can go on does, and whoever waits for a lock gets it in the
\* end: flock() serves its waiters in turn.
RunFairness(p) == SF_vars(RunStep(p))

\* Logs go on being written, so the service goes on starting runs (ban2fail.sh).
FairSpec ==
  /\ Spec
  /\ \A p \in Runs : RunFairness(p) /\ SF_vars(Start(p, "apply"))

---------------------------------------------------------------------------
(* Properties.                                                             *)

TypeOK ==
  /\ rules \in [Addrs -> Nat] /\ count \in [Addrs -> Counts]
  /\ events \in 0 .. MaxEvents
  /\ cacheLock \in Runs \cup {NULL} /\ iptablesLock \in Runs \cup {NULL}
  /\ pc \in [Runs -> {"idle", "cache", "scan", "unlock", "list4", "list6", "decide",
                      "lock", "v4", "v4cmd", "v6", "v6cmd", "release", "end", "abort"}]
  /\ mode \in [Runs -> {"apply", "report", "names"}]
  /\ found \in [Runs -> [Addrs -> Counts \cup {0}]]
  /\ seen \in [Runs -> SUBSET Addrs]
  /\ todo \in [Runs -> [Cmds -> SUBSET Addrs]]
  /\ cmdFlag \in [Runs -> Cmds]
  /\ addr_sb \in [Runs -> SUBSET Addrs] /\ naddr \in [Runs -> Nat]
  /\ addr \in [Runs -> Addrs \cup {NULL}]
  /\ decided \in [Runs -> [Cmds -> SUBSET Addrs]]
  /\ sent \in [Runs -> [Cmds -> SUBSET Addrs]]
  /\ calm \in [Runs -> BOOLEAN]

\* A run holds a lock exactly while it reads the logs or changes the rules, and
\* keeps it on no way out: not after a failed command, a bad configuration, a kill.
LocksHeld ==
  \A p \in Runs :
    /\ pc[p] \in {"scan", "unlock"} => cacheLock = p
    /\ pc[p] \in {"v4", "v4cmd", "v6", "v6cmd", "release"} => iptablesLock = p /\ mode[p] = "apply"
    /\ cacheLock = p => pc[p] \in {"scan", "unlock", "abort"}
    /\ iptablesLock = p => pc[p] \in {"v4", "v4cmd", "v6", "v6cmd", "release", "abort"}

\* Addresses of the current vector that wait outside of it and of the buffer.
Waiting(p) == {addr[p]} \cap V6

\* _control_addresses() loses no address and repeats none, whatever the batch
\* size, the mix of families and the address carried from one loop to the next.
EveryAddressOnce ==
  \A p \in Runs : pc[p] \in {"v4", "v4cmd", "v6", "v6cmd"} =>
    LET c == cmdFlag[p]
    IN  /\ sent[p][c] \cup addr_sb[p] \cup Waiting(p) \cup todo[p][c] = decided[p][c]
        /\ sent[p][c] \cap (addr_sb[p] \cup Waiting(p) \cup todo[p][c]) = {}
        /\ addr_sb[p] \cap (Waiting(p) \cup todo[p][c]) = {}
        /\ Waiting(p) \cap todo[p][c] = {}

\* Every command has an address, not too many, and none of the other family.
CommandsWellFormed ==
  \A p \in Runs :
    /\ pc[p] \in {"v4cmd", "v6cmd"} =>
         addr_sb[p] # {} /\ Cardinality(addr_sb[p]) <= MaxAddr
    /\ At(p, "v4cmd") => addr_sb[p] \subseteq V4
    /\ At(p, "v6cmd") => addr_sb[p] \subseteq V6

\* A run that ends well, and whose listing nobody has made stale, leaves blocked
\* those who offended more than allowed when it read the logs, and nobody else.
SoloRunSettles ==
  \A p \in Runs : At(p, "end") /\ mode[p] = "apply" /\ calm[p] =>
    \A a \in Addrs : rules[a] > 0 <=> Exceeds(found[p][a], a)

\* Every run that has begun ends: no lock is withheld for ever.
RunsEnd == \A p \in Runs : At(p, "cache") ~> At(p, "idle")

\* Once the world leaves them alone, the runs bring the rules to what the logs
\* call for and leave them there, although each decides from a listing that the
\* others make stale, blocks an address twice or fails to unblock it.
Settled == \A a \in Addrs : rules[a] > 0 <=> Exceeds(count[a], a)
Converges == <>[]Settled
=============================================================================
