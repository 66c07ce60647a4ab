--------------------------- MODULE BlockRunProofs ---------------------------
(***************************************************************************)
(* Proofs about BlockRun, for every number of runs and addresses, every    *)
(* batch size and every allowance: the types, the locks, the batches, and  *)
(* that a run nobody disturbs settles the rules.                           *)
(***************************************************************************)
EXTENDS BlockRun, FiniteSetTheorems, TLAPS

---------------------------------------------------------------------------
(* The types.                                                              *)

\* Each run's variables have the types main() and _control_addresses() give them,
\* and no firewall rule is deleted that is not there.
THEOREM TypeCorrect == Spec => []TypeOK
<1> USE FamilyAssumption, RunsAssumption, AllowedAssumption, ModesAssumption,
        CountsAssumption, MaxAddrAssumption, MaxEventsAssumption
<1>1. Init => TypeOK
  <2> SUFFICES ASSUME Init PROVE TypeOK
    OBVIOUS
  <2>1. rules \in [Addrs -> Nat] /\ count \in [Addrs -> Counts] /\ events \in 0 .. MaxEvents
    BY DEF Init
  <2>2. found \in [Runs -> [Addrs -> Counts \cup {0}]]
    BY DEF Init
  <2>3. NoWork \in [Cmds -> SUBSET Addrs] /\ "-A" \in Cmds
    BY DEF NoWork, Cmds
  <2>4. QED
    BY <2>1, <2>2, <2>3 DEF Init, TypeOK
<1>2. TypeOK /\ [Next]_vars => TypeOK'
  <2> SUFFICES ASSUME TypeOK, [Next]_vars PROVE TypeOK'
    OBVIOUS
  <2> USE DEF TypeOK
  <2> DEFINE FrameType ==
        /\ rules \in [Addrs -> Nat] /\ count \in [Addrs -> Counts]
        /\ events \in 0 .. MaxEvents
        /\ cacheLock \in Runs \cup {NULL} /\ iptablesLock \in Runs \cup {NULL}
        /\ calm \in [Runs -> BOOLEAN]
  <2>0. ASSUME NEW p \in Runs, Leave(p)
        PROVE /\ pc' \in [Runs -> {"idle", "cache", "scan", "unlock", "list4", "list6", "decide",
                                    "lock", "v4", "v4cmd", "v6", "v6cmd", "release", "end", "abort"}]
              /\ cmdFlag' \in [Runs -> Cmds] /\ addr_sb' \in [Runs -> SUBSET Addrs]
              /\ naddr' \in [Runs -> Nat] /\ addr' \in [Runs -> Addrs \cup {NULL}]
    <3>1. CASE Enter(p, "-D")
      BY <3>1 DEF Enter, Goto, Cmds
    <3>2. CASE Goto(p, "release") /\ UNCHANGED <<cmdFlag, naddr, addr_sb, addr>>
      BY <3>2 DEF Goto
    <3>3. QED
      BY <2>0, <3>1, <3>2 DEF Leave
  <2>1. ASSUME NEW p \in Runs, NEW m \in Modes, Start(p, m) PROVE TypeOK'
    BY <2>1 DEF Start, Goto, At, worldVars, lockVars, listVars, cmdVars, pastVars
  <2>2. ASSUME NEW p \in Runs, LockCache(p) PROVE TypeOK'
    BY <2>2 DEF LockCache, Goto, At, worldVars, runVars, listVars, cmdVars, pastVars
  <2>3. ASSUME NEW p \in Runs, Configure(p) PROVE TypeOK'
    <3>1. count \in [Addrs -> Counts \cup {0}]
      OBVIOUS
    <3>2. found' \in [Runs -> [Addrs -> Counts \cup {0}]]
      BY <2>3, <3>1 DEF Configure
    <3>3. QED
      BY <2>3, <3>2 DEF Configure, Goto, At, worldVars, lockVars, listVars, cmdVars, pastVars
  <2>4. ASSUME NEW p \in Runs, UnlockCache(p) PROVE TypeOK'
    BY <2>4 DEF UnlockCache, Goto, At, worldVars, runVars, listVars, cmdVars, pastVars
  <2>5. ASSUME NEW p \in Runs, List(p) PROVE TypeOK'
    <3>1. Listed(V4) \subseteq Addrs /\ Listed(V6) \subseteq Addrs
      BY DEF Listed, Addrs
    <3>2. seen' \in [Runs -> SUBSET Addrs] /\ calm' \in [Runs -> BOOLEAN]
      <4>1. CASE At(p, "list4")
        <5>1. seen' = [seen EXCEPT ![p] = Listed(V4)]
          BY <2>5, <4>1 DEF List, At
        <5>2. calm' = [calm EXCEPT ![p] = \A a \in Addrs : rules[a] <= 1]
          BY <2>5, <4>1 DEF List, At
        <5>3. (\A a \in Addrs : rules[a] <= 1) \in BOOLEAN
          OBVIOUS
        <5>4. calm' \in [Runs -> BOOLEAN]
          BY <5>2, <5>3, Zenon
        <5>5. QED
          BY <3>1, <5>1, <5>4
      <4>2. CASE ~At(p, "list4")
        <5>1. seen' = [seen EXCEPT ![p] = @ \cup Listed(V6)] /\ calm' = calm
          BY <2>5, <4>2 DEF List
        <5>2. QED
          BY <3>1, <5>1
      <4>3. QED
        BY <4>1, <4>2
    <3>3. PICK s \in {"list6", "decide"} : Goto(p, s)
      BY <2>5 DEF List
    <3>4. UNCHANGED <<worldVars, lockVars, mode, found, cmdVars, pastVars>>
      BY <2>5 DEF List
    <3>5. QED
      BY <3>2, <3>3, <3>4 DEF Goto, worldVars, lockVars, cmdVars, pastVars
  <2>6. ASSUME NEW p \in Runs, Decide(p) PROVE TypeOK'
    <3>1. Work(p) \in [Cmds -> SUBSET Addrs]
      <4>1. ToBlock(p) \subseteq Addrs /\ ToUnblock(p) \subseteq Addrs
        BY DEF ToBlock, ToUnblock, Known
      <4>2. QED
        BY <4>1 DEF Work
    <3>2. QED
      BY <2>6, <3>1 DEF Decide, Goto, At, worldVars, lockVars, listVars
  <2>7. ASSUME NEW p \in Runs, LockIptables(p) PROVE TypeOK'
    BY <2>7 DEF LockIptables, Enter, Cmds, Goto, At, worldVars, listVars, pastVars
  <2>8. ASSUME NEW p \in Runs, V4Take(p) PROVE TypeOK'
    <3>1. PICK a \in Heads(p) : Take(p, a) /\ Collect(p, {a} \cap V4)
                                  /\ \E s \in {"v4", "v4cmd", "v6"} : Goto(p, s)
      BY <2>8 DEF V4Take
    <3>2. a \in Addrs \cup {NULL}
      BY DEF Heads, Addrs
    <3>3. Cardinality({a} \cap V4) \in Nat
      BY FS_EmptySet, FS_Singleton, FS_Intersection, FS_CardinalityType
    <3>4. /\ todo' \in [Runs -> [Cmds -> SUBSET Addrs]] /\ addr' \in [Runs -> Addrs \cup {NULL}]
          /\ pc' \in [Runs -> {"idle", "cache", "scan", "unlock", "list4", "list6", "decide",
                               "lock", "v4", "v4cmd", "v6", "v6cmd", "release", "end", "abort"}]
      BY <3>1, <3>2 DEF Take, Goto
    <3>5. addr_sb' \in [Runs -> SUBSET Addrs] /\ naddr' \in [Runs -> Nat]
      BY <3>1, <3>3 DEF Collect, Addrs
    <3>6. QED
      BY <2>8, <3>4, <3>5 DEF V4Take, worldVars, lockVars, listVars, pastVars
  <2>9. ASSUME NEW p \in Runs, V6Take(p) PROVE TypeOK'
    <3>1. Cardinality(Carried(p)) \in Nat
      BY FS_Singleton, FS_Difference, FS_CardinalityType DEF Carried
    <3>2. PICK a \in Heads(p) :
            \/ Leave(p) /\ UNCHANGED todo
            \/ /\ Take(p, a) /\ Collect(p, Carried(p))
               /\ \E s \in {"v6", "v6cmd"} : Goto(p, s)
               /\ UNCHANGED cmdFlag
      BY <2>9 DEF V6Take
    <3>3. CASE Leave(p) /\ UNCHANGED todo
      BY <2>9, <2>0, <3>3 DEF V6Take, worldVars, lockVars, listVars, pastVars
    <3>4. CASE /\ Take(p, a) /\ Collect(p, Carried(p))
               /\ \E s \in {"v6", "v6cmd"} : Goto(p, s)
               /\ UNCHANGED cmdFlag
      <4>1. a \in Addrs \cup {NULL}
        BY DEF Heads, Addrs
      <4>2. QED
        BY <2>9, <3>1, <3>4, <4>1 DEF V6Take, Take, Collect, Carried, Goto, worldVars, lockVars, listVars, pastVars
    <3>5. QED
      BY <3>2, <3>3, <3>4
  <2>10. ASSUME NEW p \in Runs, Apply(p) PROVE rules' \in [Addrs -> Nat]
    BY <2>10 DEF Apply, Changed, CanChange, Cmds
  <2>11. ASSUME NEW p \in Runs, Command(p) PROVE TypeOK'
    <3>1. rules' \in [Addrs -> Nat] /\ calm' \in [Runs -> BOOLEAN]
      BY <2>10, <2>11 DEF Command, Disturbs
    <3>2. sent' \in [Runs -> [Cmds -> SUBSET Addrs]]
      BY <2>11 DEF Command
    <3>3. CASE At(p, "v6cmd") /\ addr[p] = NULL
      BY <2>11, <2>0, <3>1, <3>2, <3>3 DEF Command, lockVars, listVars
    <3>4. CASE ~(At(p, "v6cmd") /\ addr[p] = NULL)
      <4>1. PICK s \in {"v4", "v6"} : Goto(p, s)
        BY <2>11, <3>4 DEF Command
      <4>2. pc' \in [Runs -> {"idle", "cache", "scan", "unlock", "list4", "list6", "decide",
                              "lock", "v4", "v4cmd", "v6", "v6cmd", "release", "end", "abort"}]
        BY <4>1 DEF Goto
      <4>3. naddr' \in [Runs -> Nat] /\ addr_sb' \in [Runs -> SUBSET Addrs]
        <5>1. naddr' = [naddr EXCEPT ![p] = 0] /\ addr_sb' = [addr_sb EXCEPT ![p] = {}]
          BY <2>11, <3>4 DEF Command
        <5>2. QED
          BY <5>1
      <4>4. UNCHANGED <<cmdFlag, addr, count, events, lockVars, mode, listVars, todo, decided>>
        BY <2>11, <3>4 DEF Command
      <4>5. QED
        BY <3>1, <3>2, <4>2, <4>3, <4>4 DEF lockVars, listVars
    <3>5. QED
      BY <3>3, <3>4
  <2>12. ASSUME NEW p \in Runs, CommandFails(p) PROVE TypeOK'
    BY <2>12 DEF CommandFails, Goto, worldVars, lockVars, runVars, listVars, cmdVars, pastVars
  <2>13. ASSUME NEW p \in Runs, Release(p) PROVE TypeOK'
    BY <2>13 DEF Release, Goto, worldVars, runVars, listVars, cmdVars, pastVars
  <2>14. ASSUME NEW p \in Runs, Ended(p), FrameType' PROVE TypeOK'
    BY <2>14 DEF Ended, NoWork, Cmds, Goto
  <2>15. ASSUME NEW p \in Runs, Ended(p)
         PROVE cacheLock' \in Runs \cup {NULL} /\ iptablesLock' \in Runs \cup {NULL}
    BY <2>15 DEF Ended, Without
  <2>16. ASSUME NEW p \in Runs, Exit(p) PROVE TypeOK'
    <3>1. FrameType' /\ Ended(p)
      BY <2>15, <2>16 DEF Exit, worldVars
    <3>2. QED
      BY <2>14, <3>1
  <2>17. ASSUME NEW p \in Runs, Killed(p) PROVE TypeOK'
    <3>1. FrameType' /\ Ended(p)
      <4>1. rules' \in [Addrs -> Nat] /\ calm' \in [Runs -> BOOLEAN]
        BY <2>10, <2>17 DEF Killed
      <4>2. Ended(p) /\ count' = count /\ events' \in 0 .. MaxEvents
        BY <2>17 DEF Killed, Event
      <4>3. QED
        BY <2>15, <4>1, <4>2
    <3>2. QED
      BY <2>14, <3>1
  <2>18. ASSUME NEW p \in Runs, ListFails(p) PROVE TypeOK'
    <3>1. \E s \in {"list6", "decide"} : Goto(p, s)
      BY <2>18 DEF ListFails
    <3>2. QED
      BY <2>18, <3>1 DEF ListFails, Event, Goto, lockVars, runVars, listVars, cmdVars, pastVars
  <2>19. ASSUME NEW p \in Runs, StepFails(p) PROVE TypeOK'
    BY <2>19 DEF StepFails, Event, Goto, lockVars, runVars, listVars, cmdVars, pastVars
  <2>20. ASSUME NEW a \in Addrs, NEW n \in Counts, LogsChange(a, n) PROVE TypeOK'
    BY <2>20 DEF LogsChange, Event, lockVars, runVars, listVars, cmdVars, pastVars
  <2>21. ASSUME RulesFlushed PROVE TypeOK'
    BY <2>21 DEF RulesFlushed, Event, lockVars, runVars, listVars, cmdVars, pastVars
  <2>22. ASSUME NEW a \in Addrs, RuleEdited(a) PROVE TypeOK'
    <3>1. rules' \in [Addrs -> Nat]
      BY <2>22 DEF RuleEdited
    <3>2. QED
      BY <2>22, <3>1 DEF RuleEdited, Event, lockVars, runVars, listVars, cmdVars, pastVars
  <2>23. ASSUME UNCHANGED vars PROVE TypeOK'
    BY <2>23 DEF vars, worldVars, lockVars, runVars, listVars, cmdVars, pastVars
  <2>24. QED
    BY <2>1, <2>2, <2>3, <2>4, <2>5, <2>6, <2>7, <2>8, <2>9, <2>11, <2>12, <2>13, <2>16,
       <2>17, <2>18, <2>19, <2>20, <2>21, <2>22, <2>23
    DEF Next, RunStep, World
<1>3. QED
  BY <1>1, <1>2, PTL DEF Spec

---------------------------------------------------------------------------
(* The locks.                                                              *)

\* To print names ends with the logs, and a report with the decision.
ModeInv ==
  \A p \in Runs :
    /\ pc[p] \in {"unlock", "list4", "list6", "decide"} => mode[p] # "names"
    /\ pc[p] = "lock" => mode[p] = "apply"

\* No two runs read the logs at once or change rules at once, nor does a run that
\* only reports, and none leaves main() with a lock.
THEOREM LocksCorrect == Spec => [](LocksHeld /\ ModeInv)
<1> USE RunsAssumption
<1>1. Init => LocksHeld /\ ModeInv
  BY DEF Init, LocksHeld, ModeInv
<1>2. TypeOK /\ LocksHeld /\ ModeInv /\ [Next]_vars => LocksHeld' /\ ModeInv'
  <2> SUFFICES ASSUME TypeOK, LocksHeld, ModeInv, [Next]_vars PROVE LocksHeld' /\ ModeInv'
    OBVIOUS
  <2> USE DEF LocksHeld, ModeInv, At, Goto
  <2> DEFINE Types ==
        /\ pc \in [Runs -> {"idle", "cache", "scan", "unlock", "list4", "list6", "decide",
                            "lock", "v4", "v4cmd", "v6", "v6cmd", "release", "end", "abort"}]
        /\ mode \in [Runs -> {"apply", "report", "names"}]
  <2>0. Types
    BY DEF TypeOK
  <2>1. ASSUME NEW p \in Runs, NEW m \in Modes, Start(p, m) PROVE LocksHeld' /\ ModeInv'
    BY <2>0, <2>1 DEF Start, lockVars
  <2>2. ASSUME NEW p \in Runs, LockCache(p) PROVE LocksHeld' /\ ModeInv'
    BY <2>0, <2>2 DEF LockCache, runVars
  <2>3. ASSUME NEW p \in Runs, Configure(p) PROVE LocksHeld' /\ ModeInv'
    BY <2>0, <2>3 DEF Configure, lockVars
  <2>4. ASSUME NEW p \in Runs, UnlockCache(p) PROVE LocksHeld' /\ ModeInv'
    BY <2>0, <2>4 DEF UnlockCache, runVars
  <2>5. ASSUME NEW p \in Runs, List(p) PROVE LocksHeld' /\ ModeInv'
    BY <2>0, <2>5 DEF List, lockVars
  <2>6. ASSUME NEW p \in Runs, Decide(p) PROVE LocksHeld' /\ ModeInv'
    BY <2>0, <2>6 DEF Decide, lockVars
  <2>7. ASSUME NEW p \in Runs, LockIptables(p) PROVE LocksHeld' /\ ModeInv'
    BY <2>0, <2>7 DEF LockIptables, Enter
  <2>8. ASSUME NEW p \in Runs, At(p, "v4") \/ At(p, "v6") \/ pc[p] \in {"v4cmd", "v6cmd"},
               NEW s \in {"v4", "v4cmd", "v6", "v6cmd", "release"}, Goto(p, s),
               UNCHANGED <<lockVars, mode>>
        PROVE LocksHeld' /\ ModeInv'
    BY <2>0, <2>8 DEF lockVars
  <2>9. ASSUME NEW p \in Runs, Leave(p)
        PROVE \E s \in {"v4", "release"} : Goto(p, s)
    BY <2>9 DEF Leave, Enter
  <2>10. ASSUME NEW p \in Runs, V4Take(p) PROVE LocksHeld' /\ ModeInv'
    BY <2>8, <2>10 DEF V4Take
  <2>11. ASSUME NEW p \in Runs, V6Take(p) PROVE LocksHeld' /\ ModeInv'
    BY <2>8, <2>9, <2>11 DEF V6Take
  <2>12. ASSUME NEW p \in Runs, Command(p) PROVE LocksHeld' /\ ModeInv'
    <3>1. \E s \in {"v4", "v6", "release"} : Goto(p, s)
      BY <2>9, <2>12 DEF Command
    <3>2. QED
      BY <2>8, <2>12, <3>1 DEF Command
  <2>13. ASSUME NEW p \in Runs, CommandFails(p) PROVE LocksHeld' /\ ModeInv'
    BY <2>0, <2>13 DEF CommandFails, lockVars, runVars
  <2>14. ASSUME NEW p \in Runs, Release(p) PROVE LocksHeld' /\ ModeInv'
    BY <2>0, <2>14 DEF Release, runVars
  <2>15. ASSUME NEW p \in Runs, Ended(p) PROVE LocksHeld' /\ ModeInv'
    BY <2>0, <2>15 DEF Ended, Without
  <2>16. ASSUME NEW p \in Runs, Exit(p) \/ Killed(p) PROVE LocksHeld' /\ ModeInv'
    BY <2>15, <2>16 DEF Exit, Killed
  <2>17. ASSUME NEW p \in Runs, ListFails(p) PROVE LocksHeld' /\ ModeInv'
    BY <2>0, <2>17 DEF ListFails, lockVars, runVars
  <2>18. ASSUME NEW p \in Runs, StepFails(p) PROVE LocksHeld' /\ ModeInv'
    BY <2>0, <2>18 DEF StepFails, lockVars, runVars
  <2>19. ASSUME UNCHANGED <<lockVars, pc, mode>> PROVE LocksHeld' /\ ModeInv'
    BY <2>19 DEF lockVars
  <2>20. ASSUME \/ \E a \in Addrs : RuleEdited(a) \/ \E n \in Counts : LogsChange(a, n)
                \/ RulesFlushed \/ UNCHANGED vars
         PROVE UNCHANGED <<lockVars, pc, mode>>
    BY <2>20 DEF RuleEdited, LogsChange, RulesFlushed, vars, runVars
  <2>21. QED
    BY <2>1, <2>2, <2>3, <2>4, <2>5, <2>6, <2>7, <2>10, <2>11, <2>12, <2>13, <2>14, <2>16,
       <2>17, <2>18, <2>19, <2>20
    DEF Next, RunStep, World
<1>3. QED
  BY <1>1, <1>2, TypeCorrect, PTL DEF Spec

---------------------------------------------------------------------------
(* What one run does to another.                                           *)

\* The variables of a run.
Mine(p) == <<pc[p], mode[p], found[p], seen[p], todo[p], cmdFlag[p], addr_sb[p], naddr[p],
             addr[p], decided[p], sent[p]>>

OwnStep(p) ==
  (\E m \in Modes : Start(p, m)) \/ RunStep(p) \/ ListFails(p) \/ StepFails(p) \/ Killed(p)

\* The variables of a run are its own, and who changes the rules disturbs the others.
LEMMA OthersStep ==
  ASSUME TypeOK, [Next]_vars, NEW p \in Runs, ~OwnStep(p)
  PROVE  Mine(p)' = Mine(p) /\ (calm'[p] => calm[p] /\ rules' = rules)
<1> USE DEF Mine, Goto
<1> DEFINE Left == Mine(p)' = Mine(p)
           Calm == calm'[p] => calm[p] /\ rules' = rules
<1>1. ASSUME NEW q \in Runs, q # p, NEW m \in Modes, Start(q, m) PROVE Left /\ Calm
  BY <1>1 DEF TypeOK, Start, worldVars, listVars, cmdVars, pastVars
<1>2. ASSUME NEW q \in Runs, q # p, LockCache(q) \/ UnlockCache(q) \/ Release(q)
      PROVE Left /\ Calm
  BY <1>2 DEF TypeOK, LockCache, UnlockCache, Release, worldVars, runVars, listVars, cmdVars, pastVars
<1>3. ASSUME NEW q \in Runs, q # p, Configure(q) PROVE Left /\ Calm
  BY <1>3 DEF TypeOK, Configure, worldVars, listVars, cmdVars, pastVars
<1>4. ASSUME NEW q \in Runs, q # p, List(q) PROVE Left /\ Calm
  BY <1>4 DEF TypeOK, List, worldVars, listVars, cmdVars, pastVars
<1>5. ASSUME NEW q \in Runs, q # p, Decide(q) PROVE Left /\ Calm
  BY <1>5 DEF TypeOK, Decide, worldVars, listVars, cmdVars, pastVars
<1>6. ASSUME NEW q \in Runs, q # p, LockIptables(q) PROVE Left /\ Calm
  BY <1>6 DEF TypeOK, LockIptables, Enter, worldVars, listVars, cmdVars, pastVars
<1>7. ASSUME NEW q \in Runs, q # p, V4Take(q) PROVE Left /\ Calm
  BY <1>7 DEF TypeOK, V4Take, Take, Collect, worldVars, listVars, cmdVars, pastVars
<1>8. ASSUME NEW q \in Runs, q # p, Leave(q)
      PROVE <<pc[p], cmdFlag[p], addr_sb[p], naddr[p], addr[p]>>'
              = <<pc[p], cmdFlag[p], addr_sb[p], naddr[p], addr[p]>>
  BY <1>8 DEF TypeOK, Leave, Enter
<1>9. ASSUME NEW q \in Runs, q # p, V6Take(q) PROVE Left /\ Calm
  <2>1. <<pc[p], todo[p], cmdFlag[p], addr_sb[p], naddr[p], addr[p]>>'
          = <<pc[p], todo[p], cmdFlag[p], addr_sb[p], naddr[p], addr[p]>>
    BY <1>8, <1>9 DEF TypeOK, V6Take, Take, Collect
  <2>2. QED
    BY <1>9, <2>1 DEF TypeOK, V6Take, worldVars, listVars, pastVars
<1>10. ASSUME NEW q \in Runs, q # p, Command(q) PROVE Left /\ Calm
  <2>1. <<pc[p], cmdFlag[p], addr_sb[p], naddr[p], addr[p]>>'
          = <<pc[p], cmdFlag[p], addr_sb[p], naddr[p], addr[p]>>
    BY <1>8, <1>10 DEF TypeOK, Command
  <2>2. ~calm'[p]
    BY <1>10 DEF Command, Disturbs
  <2>3. QED
    BY <1>10, <2>1, <2>2 DEF TypeOK, Command, listVars
<1>11. ASSUME NEW q \in Runs, q # p, CommandFails(q) \/ StepFails(q) PROVE Left /\ Calm
  BY <1>11 DEF TypeOK, CommandFails, StepFails, worldVars, runVars, listVars, cmdVars, pastVars
<1>12. ASSUME NEW q \in Runs, q # p, Ended(q) PROVE Left
  BY <1>12 DEF TypeOK, Ended
<1>13. ASSUME NEW q \in Runs, q # p, Exit(q) \/ Killed(q) PROVE Left /\ Calm
  BY <1>12, <1>13 DEF TypeOK, Exit, Killed, worldVars
<1>14. ASSUME NEW q \in Runs, q # p, ListFails(q) PROVE Left /\ Calm
  BY <1>14 DEF TypeOK, ListFails, runVars, listVars, cmdVars, pastVars
<1>15. ASSUME \/ \E a \in Addrs : RuleEdited(a) \/ \E n \in Counts : LogsChange(a, n)
              \/ RulesFlushed \/ UNCHANGED vars
       PROVE Left /\ Calm
  BY <1>15 DEF TypeOK, RuleEdited, LogsChange, RulesFlushed, vars, worldVars, runVars, listVars,
               cmdVars, pastVars
<1>16. QED
  BY <1>1, <1>2, <1>3, <1>4, <1>5, <1>6, <1>7, <1>9, <1>10, <1>11, <1>13, <1>14, <1>15
  DEF Next, RunStep, World, OwnStep

---------------------------------------------------------------------------
(* The batches.                                                            *)

Busy == {"v4", "v4cmd", "v6", "v6cmd"}
Left(p) == todo[p][cmdFlag[p]]

\* Which commands have been issued, from the decision to the end.
SentInv(p) ==
  /\ pc[p] \in {"idle", "cache", "scan", "unlock", "list4", "list6", "decide", "lock"} =>
       sent[p] = NoWork
  /\ pc[p] = "lock" => todo[p] = decided[p]
  /\ pc[p] \in Busy /\ cmdFlag[p] = "-A" =>
       todo[p]["-D"] = decided[p]["-D"] /\ sent[p]["-D"] = {}
  /\ pc[p] \in Busy /\ cmdFlag[p] = "-D" => sent[p]["-A"] = decided[p]["-A"]
  /\ pc[p] = "release" \/ (pc[p] = "end" /\ mode[p] = "apply") => sent[p] = decided[p]

\* The vector is sorted by family: once an address has ended the first loop, no
\* more of that loop's follow, and after NULL none at all.
FamilyInv(p) ==
  /\ pc[p] = "v4" => addr[p] \notin V6
  /\ pc[p] \in {"v4", "v4cmd"} => addr_sb[p] \subseteq V4
  /\ pc[p] \in {"v6", "v6cmd"} => addr_sb[p] \subseteq V6
  /\ pc[p] \in {"v6", "v6cmd"} \/ (pc[p] = "v4cmd" /\ addr[p] \notin V4) =>
       /\ addr[p] \notin V4 /\ Left(p) \cap V4 = {}
       /\ addr[p] = NULL => Left(p) = {}
  /\ pc[p] = "v6" /\ addr[p] = NULL => naddr[p] = 0

\* naddr counts the addresses of the buffer.
CountInv(p) ==
  /\ IsFiniteSet(addr_sb[p]) /\ naddr[p] = Cardinality(addr_sb[p])
  /\ pc[p] \in {"v4", "v6"} => naddr[p] < MaxAddr
  /\ pc[p] \in {"v4cmd", "v6cmd"} => naddr[p] \in 1 .. MaxAddr

\* EveryAddressOnce, of one run.
Once(p) ==
  pc[p] \in Busy =>
    /\ sent[p][cmdFlag[p]] \cup addr_sb[p] \cup Waiting(p) \cup Left(p) = decided[p][cmdFlag[p]]
    /\ sent[p][cmdFlag[p]] \cap (addr_sb[p] \cup Waiting(p) \cup Left(p)) = {}
    /\ addr_sb[p] \cap (Waiting(p) \cup Left(p)) = {}
    /\ Waiting(p) \cap Left(p) = {}

BatchInv(p) == SentInv(p) /\ FamilyInv(p) /\ CountInv(p) /\ Once(p)

\* To turn to the addresses of a command begins with nothing collected.
LEMMA EnterKeeps ==
  ASSUME TypeOK, NEW p \in Runs, NEW c \in Cmds, Enter(p, c),
         decided'[p] = decided[p], todo'[p] = todo[p], sent'[p] \in [Cmds -> SUBSET Addrs],
         todo[p][c] = decided[p][c], sent'[p][c] = {},
         c = "-A" => todo[p]["-D"] = decided[p]["-D"] /\ sent'[p]["-D"] = {},
         c = "-D" => sent'[p]["-A"] = decided[p]["-A"]
  PROVE  BatchInv(p)'
<1> USE FamilyAssumption, MaxAddrAssumption DEF Enter, Goto, Busy, Left, Cmds
<1>1. /\ pc'[p] = "v4" /\ cmdFlag'[p] = c /\ naddr'[p] = 0 /\ addr_sb'[p] = {}
      /\ addr'[p] = NULL
  BY DEF TypeOK
<1>2. SentInv(p)'
  BY <1>1 DEF SentInv
<1>3. FamilyInv(p)'
  BY <1>1 DEF FamilyInv, Addrs
<1>4. CountInv(p)'
  <2>1. IsFiniteSet(addr_sb'[p]) /\ Cardinality(addr_sb'[p]) = 0
    BY <1>1, FS_EmptySet
  <2>2. QED
    BY <1>1, <2>1 DEF CountInv
<1>5. Waiting(p)' = {}
  BY <1>1 DEF Waiting, Addrs
<1>6. Once(p)'
  BY <1>1, <1>5 DEF Once
<1>7. QED
  BY <1>2, <1>3, <1>4, <1>6 DEF BatchInv

\* A run leaves a vector when all of it has been sent.
LEMMA LeaveKeeps ==
  ASSUME TypeOK, TypeOK', NEW p \in Runs, Leave(p), pc[p] \in Busy, SentInv(p), CountInv(p),
         decided'[p] = decided[p], todo'[p] = todo[p],
         sent'[p][cmdFlag[p]] = decided[p][cmdFlag[p]],
         \A c \in Cmds \ {cmdFlag[p]} : sent'[p][c] = sent[p][c]
  PROVE  BatchInv(p)'
<1>1. cmdFlag[p] \in Cmds /\ sent'[p] \in [Cmds -> SUBSET Addrs] /\ decided[p] \in [Cmds -> SUBSET Addrs]
  BY DEF TypeOK
<1>2. CASE cmdFlag[p] = "-A" /\ todo[p]["-D"] # {}
  <2>1. Enter(p, "-D")
    BY <1>2 DEF Leave
  <2>2. QED
    BY <1>1, <1>2, <2>1, EnterKeeps DEF SentInv, Cmds
<1>3. CASE ~(cmdFlag[p] = "-A" /\ todo[p]["-D"] # {})
  <2>1. pc'[p] = "release" /\ UNCHANGED <<cmdFlag, naddr, addr_sb, addr>>
    BY <1>3 DEF Leave, Goto, TypeOK
  <2>2. sent'[p]["-A"] = decided[p]["-A"] /\ sent'[p]["-D"] = decided[p]["-D"]
    BY <1>1, <1>3 DEF SentInv, Cmds
  <2>3. sent'[p] = decided[p]
    BY <1>1, <2>2 DEF Cmds
  <2>4. QED
    BY <2>1, <2>3 DEF BatchInv, SentInv, FamilyInv, CountInv, Once, Busy
<1>4. QED
  BY <1>2, <1>3

\* The next address goes from the vector to addr.
LEMMA TakeEffect ==
  ASSUME TypeOK, NEW p \in Runs, NEW a, Take(p, a)
  PROVE  /\ a \in Left(p) \cup {NULL}
         /\ addr'[p] = a
         /\ todo'[p][cmdFlag[p]] = Left(p) \ {a}
         /\ \A c \in Cmds \ {cmdFlag[p]} : todo'[p][c] = todo[p][c]
         /\ a \notin V4 => Left(p) \cap V4 = {}
         /\ a = NULL => Left(p) = {}
<1>1. a \in Left(p) \cup {NULL} /\ (a \notin V4 => Left(p) \cap V4 = {}) /\ (a = NULL => Left(p) = {})
  BY FamilyAssumption DEF Take, Heads, Left, Addrs, TypeOK
<1>2. QED
  BY <1>1 DEF Take, Left, TypeOK

\* The loop over ipv4 addresses.
LEMMA V4Keeps ==
  ASSUME TypeOK, TypeOK', NEW p \in Runs, V4Take(p), BatchInv(p)
  PROVE  BatchInv(p)'
<1> USE FamilyAssumption, MaxAddrAssumption DEF Busy
<1>1. PICK a \in Heads(p) :
        /\ Take(p, a) /\ Collect(p, {a} \cap V4)
        /\ Goto(p, IF a \in V4 THEN IF More(naddr[p] + 1) THEN "v4" ELSE "v4cmd"
                   ELSE IF naddr[p] = 0 THEN "v6" ELSE "v4cmd")
  BY DEF V4Take
<1>2. pc[p] = "v4" /\ UNCHANGED <<mode, cmdFlag, decided, sent>>
  BY DEF V4Take, At, pastVars
<1>3. /\ a \in Left(p) \cup {NULL} /\ addr'[p] = a /\ Left(p)' = Left(p) \ {a}
      /\ \A c \in Cmds \ {cmdFlag[p]} : todo'[p][c] = todo[p][c]
      /\ a \notin V4 => Left(p) \cap V4 = {}
      /\ a = NULL => Left(p) = {}
  BY <1>1, <1>2, TakeEffect DEF Left
<1>4. addr_sb'[p] = addr_sb[p] \cup ({a} \cap V4) /\ naddr'[p] = naddr[p] + Cardinality({a} \cap V4)
  BY <1>1 DEF Collect, TypeOK
<1>5. pc'[p] = IF a \in V4 THEN IF More(naddr[p] + 1) THEN "v4" ELSE "v4cmd"
               ELSE IF naddr[p] = 0 THEN "v6" ELSE "v4cmd"
  BY <1>1 DEF Goto, TypeOK
<1>6. cmdFlag[p] \in Cmds /\ Left(p) \subseteq Addrs /\ naddr[p] \in Nat
  BY DEF TypeOK, Left
<1>7. SentInv(p)'
  BY <1>2, <1>3, <1>5, <1>6 DEF BatchInv, SentInv, Cmds
<1>8. CountInv(p)'
  <2>1. CASE a \in V4
    <3>1. a \notin addr_sb[p] /\ {a} \cap V4 = {a}
      BY <1>2, <1>3, <1>6, <2>1 DEF BatchInv, Once, Addrs
    <3>2. IsFiniteSet(addr_sb'[p]) /\ Cardinality(addr_sb'[p]) = naddr[p] + 1 /\ naddr'[p] = naddr[p] + 1
      <4>1. addr_sb'[p] = addr_sb[p] \cup {a} /\ naddr'[p] = naddr[p] + Cardinality({a})
        BY <1>4, <3>1
      <4>2. Cardinality({a}) = 1
        BY FS_Singleton
      <4>3. IsFiniteSet(addr_sb[p]) /\ naddr[p] = Cardinality(addr_sb[p])
        BY DEF BatchInv, CountInv
      <4>4. QED
        BY <3>1, <4>1, <4>2, <4>3, FS_AddElement
    <3>3. QED
      BY <1>2, <1>5, <1>6, <2>1, <3>2 DEF BatchInv, CountInv, More
  <2>2. CASE a \notin V4
    <3>1. addr_sb'[p] = addr_sb[p] /\ naddr'[p] = naddr[p]
      <4>1. {a} \cap V4 = {} /\ Cardinality({}) = 0
        BY <2>2, FS_EmptySet
      <4>2. addr_sb'[p] = addr_sb[p] /\ naddr'[p] = naddr[p] + 0
        BY <1>4, <4>1
      <4>3. QED
        BY <1>6, <4>2
    <3>2. QED
      BY <1>2, <1>5, <1>6, <2>2, <3>1 DEF BatchInv, CountInv
  <2>3. QED
    BY <2>1, <2>2
<1>9. FamilyInv(p)'
  <2>1. CASE a \in V4
    BY <1>2, <1>3, <1>4, <1>5, <1>6, <2>1 DEF BatchInv, FamilyInv, Addrs
  <2>2. CASE a \notin V4
    <3>1. addr_sb'[p] = addr_sb[p] /\ naddr'[p] = naddr[p]
      <4>1. {a} \cap V4 = {} /\ Cardinality({}) = 0
        BY <2>2, FS_EmptySet
      <4>2. addr_sb'[p] = addr_sb[p] /\ naddr'[p] = naddr[p] + 0
        BY <1>4, <4>1
      <4>3. QED
        BY <1>6, <4>2
    <3>2. naddr[p] = 0 => addr_sb[p] = {}
      BY FS_EmptySet DEF BatchInv, CountInv
    <3>3. QED
      BY <1>2, <1>3, <1>5, <1>6, <2>2, <3>1, <3>2 DEF BatchInv, FamilyInv, Addrs
  <2>3. QED
    BY <2>1, <2>2
<1>10. Once(p)'
  <2>1. Waiting(p) = {} /\ Waiting(p)' = {a} \cap V6
    BY <1>2, <1>3 DEF BatchInv, FamilyInv, Waiting
  <2>2. {a} \cap V4 \subseteq Left(p) /\ {a} \cap V6 \subseteq Left(p)
    BY <1>3 DEF Addrs
  <2>3. a \in Left(p) => a \in V4 \/ a \in V6
    BY <1>6 DEF Addrs
  <2>4. QED
    BY <1>2, <1>3, <1>4, <1>5, <2>1, <2>2, <2>3 DEF BatchInv, Once
<1>11. QED
  BY <1>7, <1>8, <1>9, <1>10 DEF BatchInv

\* The loop over ipv6 addresses.
LEMMA V6Keeps ==
  ASSUME TypeOK, TypeOK', NEW p \in Runs, V6Take(p), BatchInv(p)
  PROVE  BatchInv(p)'
<1> USE FamilyAssumption, MaxAddrAssumption DEF Busy
<1> DEFINE n == naddr[p] + Cardinality(Carried(p))
<1>1. PICK a \in Heads(p) :
        IF a = NULL /\ n = 0
        THEN Leave(p) /\ UNCHANGED todo
        ELSE /\ Take(p, a) /\ Collect(p, Carried(p))
             /\ Goto(p, IF More(n) /\ a # NULL THEN "v6" ELSE "v6cmd")
             /\ UNCHANGED cmdFlag
  BY DEF V6Take
<1>2. pc[p] = "v6" /\ UNCHANGED <<mode, decided, sent>>
  BY DEF V6Take, At, pastVars
<1>3. /\ cmdFlag[p] \in Cmds /\ Left(p) \subseteq Addrs /\ naddr[p] \in Nat
      /\ addr[p] \in V6 \cup {NULL}
      /\ IsFiniteSet(addr_sb[p]) /\ naddr[p] = Cardinality(addr_sb[p]) /\ naddr[p] < MaxAddr
      /\ addr[p] = NULL => Left(p) = {} /\ naddr[p] = 0
      /\ addr_sb[p] \subseteq V6 /\ Left(p) \cap V4 = {}
  BY <1>2 DEF TypeOK, Left, BatchInv, CountInv, FamilyInv, Addrs
<1>4. Carried(p) = Waiting(p)
  BY <1>3 DEF Carried, Waiting, Addrs
<1>5. addr[p] # NULL => Carried(p) = {addr[p]} /\ n = naddr[p] + 1
  <2>1. Cardinality({addr[p]}) = 1
    BY FS_Singleton
  <2>2. addr[p] # NULL => Carried(p) = {addr[p]}
    BY DEF Carried
  <2>3. QED
    BY <2>1, <2>2
<1>6. addr[p] = NULL => Carried(p) = {} /\ n = 0
  <2>1. Cardinality({}) = 0
    BY FS_EmptySet
  <2>2. addr[p] = NULL => Carried(p) = {}
    BY DEF Carried
  <2>3. QED
    BY <1>3, <2>1, <2>2
<1>7. CASE a = NULL /\ n = 0
  <2>1. addr[p] = NULL
    BY <1>3, <1>5, <1>7
  <2>2. addr_sb[p] = {} /\ Waiting(p) = {} /\ Left(p) = {}
    BY <1>3, <1>4, <1>6, <2>1, FS_EmptySet
  <2>3. sent[p][cmdFlag[p]] = decided[p][cmdFlag[p]]
    BY <1>2, <2>2 DEF BatchInv, Once
  <2>4. QED
    BY <1>1, <1>2, <1>7, <2>3, LeaveKeeps DEF BatchInv
<1>8. CASE ~(a = NULL /\ n = 0)
  <2>1. /\ a \in Left(p) \cup {NULL} /\ addr'[p] = a /\ Left(p)' = Left(p) \ {a}
        /\ \A c \in Cmds \ {cmdFlag[p]} : todo'[p][c] = todo[p][c]
        /\ a = NULL => Left(p) = {}
        /\ cmdFlag' = cmdFlag
    BY <1>1, <1>8, TakeEffect DEF Left
  <2>2. addr[p] # NULL
    BY <1>3, <1>6, <1>8, <2>1 DEF Addrs
  <2>3. addr_sb'[p] = addr_sb[p] \cup {addr[p]} /\ naddr'[p] = naddr[p] + 1
    BY <1>1, <1>5, <1>8, <2>2 DEF Collect, TypeOK
  <2>4. pc'[p] = IF naddr[p] + 1 < MaxAddr /\ a # NULL THEN "v6" ELSE "v6cmd"
    BY <1>1, <1>5, <1>8, <2>2 DEF Goto, TypeOK, More
  <2>5. addr[p] \notin addr_sb[p]
    BY <1>2, <1>4, <1>5, <2>2 DEF BatchInv, Once
  <2>6. SentInv(p)'
    BY <1>2, <1>3, <2>1, <2>4 DEF BatchInv, SentInv, Cmds
  <2>7. CountInv(p)'
    <3>1. IsFiniteSet(addr_sb'[p]) /\ Cardinality(addr_sb'[p]) = naddr'[p]
      <4> DEFINE S == addr_sb[p]
                 x == addr[p]
      <4>1. IsFiniteSet(S) /\ Cardinality(S) = naddr[p] /\ x \notin S
        BY <1>3, <2>5
      <4> HIDE DEF S, x
      <4>2. IsFiniteSet(S \cup {x}) /\ Cardinality(S \cup {x}) = Cardinality(S) + 1
        BY <4>1, FS_AddElement
      <4>3. addr_sb'[p] = S \cup {x} /\ naddr'[p] = naddr[p] + 1
        BY <2>3 DEF S, x
      <4>4. QED
        BY <4>1, <4>2, <4>3
    <3>2. QED
      BY <1>3, <2>3, <2>4, <3>1 DEF CountInv
  <2>8. FamilyInv(p)'
    BY <1>3, <2>1, <2>2, <2>3, <2>4 DEF FamilyInv, Addrs
  <2>9. Once(p)'
    <3>1. Waiting(p)' = {a} \ {NULL} /\ Waiting(p) = {addr[p]}
      BY <1>3, <1>4, <1>5, <2>1, <2>2 DEF Waiting, Addrs
    <3>2. QED
      BY <1>2, <2>1, <2>3, <2>4, <3>1 DEF BatchInv, Once
  <2>10. QED
    BY <2>6, <2>7, <2>8, <2>9 DEF BatchInv
<1>9. QED
  BY <1>7, <1>8

\* A command has been issued, and the buffer is empty again.
LEMMA CommandKeeps ==
  ASSUME TypeOK, TypeOK', NEW p \in Runs, Command(p), BatchInv(p)
  PROVE  BatchInv(p)'
<1> USE FamilyAssumption, MaxAddrAssumption DEF Busy
<1>1. /\ pc[p] \in {"v4cmd", "v6cmd"} /\ UNCHANGED <<mode, todo, decided>>
      /\ cmdFlag[p] \in Cmds
      /\ sent'[p][cmdFlag[p]] = sent[p][cmdFlag[p]] \cup addr_sb[p]
      /\ \A c \in Cmds \ {cmdFlag[p]} : sent'[p][c] = sent[p][c]
  BY DEF Command, TypeOK
<1>2. CASE pc[p] = "v6cmd" /\ addr[p] = NULL
  <2>1. Left(p) = {} /\ Waiting(p) = {}
    BY <1>2 DEF BatchInv, FamilyInv, Waiting, Addrs
  <2>2. sent'[p][cmdFlag[p]] = decided[p][cmdFlag[p]]
    BY <1>1, <2>1 DEF BatchInv, Once
  <2>3. QED
    BY <1>1, <1>2, <2>2, LeaveKeeps DEF BatchInv, Command, At
<1>3. CASE ~(pc[p] = "v6cmd" /\ addr[p] = NULL)
  <2>1. /\ pc'[p] = IF pc[p] = "v4cmd" /\ addr[p] \in V4 THEN "v4" ELSE "v6"
        /\ naddr'[p] = 0 /\ addr_sb'[p] = {} /\ UNCHANGED <<cmdFlag, addr>>
    BY <1>3 DEF Command, TypeOK, Goto, At
  <2>2. SentInv(p)'
    BY <1>1, <2>1 DEF BatchInv, SentInv, Cmds
  <2>3. CountInv(p)'
    <3>1. IsFiniteSet(addr_sb'[p]) /\ Cardinality(addr_sb'[p]) = 0
      BY <2>1, FS_EmptySet
    <3>2. QED
      BY <2>1, <3>1 DEF CountInv
  <2>4. FamilyInv(p)'
    BY <1>1, <2>1 DEF BatchInv, FamilyInv, Left
  <2>5. Once(p)'
    <3>1. Waiting(p)' = Waiting(p) /\ Left(p)' = Left(p)
      BY <1>1, <2>1 DEF Waiting, Left
    <3>2. QED
      BY <1>1, <2>1, <3>1 DEF BatchInv, Once
  <2>6. QED
    BY <2>2, <2>3, <2>4, <2>5 DEF BatchInv
<1>4. QED
  BY <1>2, <1>3

\* Outside of _control_addresses() only the buffer and what was sent matter.
LEMMA IdleKeeps ==
  ASSUME NEW p \in Runs, BatchInv(p),
         <<addr_sb[p], naddr[p], sent[p]>>' = <<addr_sb[p], naddr[p], sent[p]>>,
         pc'[p] \notin Busy \cup {"lock", "release", "end"},
         pc'[p] = "abort" \/ pc[p] \in {"idle", "cache", "scan", "unlock", "list4", "list6"}
  PROVE  BatchInv(p)'
<1>1. SentInv(p)'
  BY DEF BatchInv, SentInv, Busy
<1>2. FamilyInv(p)' /\ Once(p)'
  BY DEF FamilyInv, Once, Busy
<1>3. CountInv(p)'
  BY DEF BatchInv, CountInv, Busy
<1>4. QED
  BY <1>1, <1>2, <1>3 DEF BatchInv

\* Nothing a run does breaks its batches.
LEMMA BatchStep ==
  ASSUME TypeOK, TypeOK', [Next]_vars, NEW p \in Runs, BatchInv(p), ModeInv
  PROVE  BatchInv(p)'
<1> USE DEF At, Goto
<1>1. ASSUME ~OwnStep(p) PROVE BatchInv(p)'
  BY <1>1, OthersStep DEF Mine, BatchInv, SentInv, FamilyInv, CountInv, Once, Waiting, Left
<1>2. ASSUME NEW m \in Modes, Start(p, m) PROVE BatchInv(p)'
  BY <1>2, IdleKeeps DEF TypeOK, Start, Busy, cmdVars, pastVars
<1>3. ASSUME LockCache(p) \/ UnlockCache(p) PROVE BatchInv(p)'
  BY <1>3, IdleKeeps DEF TypeOK, LockCache, UnlockCache, Busy, runVars, cmdVars, pastVars
<1>4. ASSUME Configure(p) PROVE BatchInv(p)'
  BY <1>4, IdleKeeps DEF TypeOK, Configure, Busy, cmdVars, pastVars
<1>5. ASSUME List(p) \/ ListFails(p) PROVE BatchInv(p)'
  <2>1. UNCHANGED <<cmdVars, pastVars>> /\ pc[p] \in {"list4", "list6"}
        /\ pc'[p] \in {"list6", "decide"}
    BY <1>5 DEF TypeOK, List, ListFails, runVars
  <2>2. QED
    BY <2>1, IdleKeeps DEF Busy, cmdVars, pastVars
<1>6. ASSUME Decide(p) PROVE BatchInv(p)'
  <2>1. /\ pc[p] = "decide" /\ todo'[p] = Work(p) /\ decided'[p] = Work(p)
        /\ pc'[p] = IF mode[p] = "report" \/ Work(p) = NoWork THEN "end" ELSE "lock"
        /\ UNCHANGED <<mode, addr_sb, naddr, sent>>
    BY <1>6 DEF TypeOK, Decide
  <2>2. SentInv(p)'
    BY <2>1 DEF BatchInv, SentInv, Busy
  <2>3. FamilyInv(p)' /\ Once(p)' /\ CountInv(p)'
    BY <2>1 DEF BatchInv, FamilyInv, Once, CountInv, Busy
  <2>4. QED
    BY <2>2, <2>3 DEF BatchInv
<1>7. ASSUME LockIptables(p) PROVE BatchInv(p)'
  <2> DEFINE c == IF todo[p]["-A"] # {} THEN "-A" ELSE "-D"
  <2>1. c \in Cmds /\ Enter(p, c) /\ UNCHANGED <<decided, todo, sent>> /\ pc[p] = "lock"
    BY <1>7 DEF LockIptables, pastVars, Enter, Cmds
  <2>2. todo[p] = decided[p] /\ sent[p] = NoWork
    BY <2>1 DEF BatchInv, SentInv
  <2>3. sent'[p] \in [Cmds -> SUBSET Addrs] /\ sent'[p]["-A"] = {} /\ sent'[p]["-D"] = {}
    BY <2>1, <2>2 DEF TypeOK, NoWork, Cmds
  <2>4. c = "-D" => sent'[p]["-A"] = decided[p]["-A"]
    BY <2>2, <2>3
  <2>5. QED
    BY <2>1, <2>2, <2>3, <2>4, EnterKeeps DEF Cmds
<1>8. ASSUME CommandFails(p) \/ StepFails(p) PROVE BatchInv(p)'
  BY <1>8, IdleKeeps DEF TypeOK, CommandFails, StepFails, Busy, runVars, cmdVars, pastVars
<1>9. ASSUME Release(p) PROVE BatchInv(p)'
  BY <1>9 DEF TypeOK, Release, runVars, cmdVars, pastVars, Busy,
              BatchInv, SentInv, FamilyInv, CountInv, Once
<1>10. ASSUME Exit(p) \/ Killed(p) PROVE BatchInv(p)'
  <2>1. pc'[p] = "idle" /\ sent'[p] = NoWork /\ naddr'[p] = 0 /\ addr_sb'[p] = {}
    BY <1>10 DEF TypeOK, Exit, Killed, Ended
  <2>2. IsFiniteSet(addr_sb'[p]) /\ Cardinality(addr_sb'[p]) = 0
    BY <2>1, FS_EmptySet
  <2>3. QED
    BY <2>1, <2>2 DEF BatchInv, SentInv, FamilyInv, CountInv, Once, Busy
<1>11. QED
  BY <1>1, <1>2, <1>3, <1>4, <1>5, <1>6, <1>7, <1>8, <1>9, <1>10, V4Keeps, V6Keeps, CommandKeeps
  DEF OwnStep, RunStep

\* Whatever the batch size and the mix of families, what has been sent, what is in
\* the buffer or carried over, and what is left are disjoint, and all of what was
\* decided; and each command has an address, not too many, and of one family.
THEOREM BatchesCorrect ==
  Spec => [](EveryAddressOnce /\ CommandsWellFormed /\ \A p \in Runs : BatchInv(p))
<1> DEFINE IInv == \A p \in Runs : BatchInv(p)
<1>1. Init => IInv
  <2> SUFFICES ASSUME Init, NEW p \in Runs PROVE BatchInv(p)
    OBVIOUS
  <2>1. pc[p] = "idle" /\ sent[p] = NoWork /\ naddr[p] = 0 /\ addr_sb[p] = {}
    BY DEF Init
  <2>2. IsFiniteSet({}) /\ Cardinality({}) = 0
    BY FS_EmptySet
  <2>3. QED
    BY <2>1, <2>2 DEF BatchInv, SentInv, FamilyInv, CountInv, Once, Busy
<1>2. IInv /\ TypeOK /\ TypeOK' /\ ModeInv /\ [Next]_vars => IInv'
  BY BatchStep
<1>3. IInv /\ TypeOK => EveryAddressOnce /\ CommandsWellFormed
  <2> SUFFICES ASSUME IInv, TypeOK PROVE EveryAddressOnce /\ CommandsWellFormed
    OBVIOUS
  <2>1. EveryAddressOnce
    BY DEF EveryAddressOnce, BatchInv, Once, Busy, Left
  <2>2. ASSUME NEW p \in Runs, pc[p] \in {"v4cmd", "v6cmd"}
        PROVE addr_sb[p] # {} /\ Cardinality(addr_sb[p]) <= MaxAddr
    <3>1. IsFiniteSet(addr_sb[p]) /\ Cardinality(addr_sb[p]) \in 1 .. MaxAddr
      BY <2>2 DEF BatchInv, CountInv
    <3>2. addr_sb[p] # {}
      BY <3>1, FS_EmptySet
    <3>3. QED
      BY <3>1, <3>2, MaxAddrAssumption
  <2>3. CommandsWellFormed
    BY <2>2 DEF CommandsWellFormed, BatchInv, FamilyInv, At
  <2>4. QED
    BY <2>1, <2>3
<1>4. QED
  BY <1>1, <1>2, <1>3, TypeCorrect, LocksCorrect, PTL DEF Spec

\* No command of a run is empty, of both families, or longer than iptables takes.
COROLLARY CommandsCorrect == Spec => []CommandsWellFormed
<1> DEFINE IInv == \A p \in Runs : BatchInv(p)
<1>1. Spec => [](EveryAddressOnce /\ CommandsWellFormed /\ IInv)
  BY BatchesCorrect
<1> HIDE DEF IInv
<1>2. QED
  BY <1>1, PTL

---------------------------------------------------------------------------
(* What a run nobody disturbs comes to.                                    *)

\* Blocked, as far as the run can know: what was listed, plus what it has added,
\* without what it has deleted.
Blocked(p) == (seen[p] \cup sent[p]["-A"]) \ sent[p]["-D"]

DecidedInv(p) ==
  pc[p] \in Busy \cup {"lock", "release", "end"} => decided[p] = Work(p)

\* As long as nobody disturbs the run, the rules are what it believes.
RulesInv(p) ==
  calm[p] =>
    /\ pc[p] = "list6" => seen[p] = Listed(V4) /\ \A a \in Addrs : rules[a] <= 1
    /\ pc[p] \in Busy \cup {"decide", "lock", "release", "end"} =>
         \A a \in Addrs : rules[a] = IF a \in Blocked(p) THEN 1 ELSE 0

SettleInv(p) == DecidedInv(p) /\ RulesInv(p)

\* A command adds rules where there are none and deletes those that are there.
LEMMA CommandSettles ==
  ASSUME TypeOK, NEW p \in Runs, Command(p), BatchInv(p), SettleInv(p), calm[p]
  PROVE  \A a \in Addrs : rules'[a] = IF a \in Blocked(p)' THEN 1 ELSE 0
<1> USE DEF Busy
<1> DEFINE c == cmdFlag[p]
<1>1. /\ pc[p] \in {"v4cmd", "v6cmd"} /\ c \in Cmds
      /\ rules' = Changed(rules, c, addr_sb[p]) /\ seen' = seen
      /\ sent'[p][c] = sent[p][c] \cup addr_sb[p]
      /\ \A d \in Cmds \ {c} : sent'[p][d] = sent[p][d]
  BY DEF Command, Apply, TypeOK, listVars
<1>2. decided[p] = Work(p) /\ \A a \in Addrs : rules[a] = IF a \in Blocked(p) THEN 1 ELSE 0
  BY <1>1 DEF SettleInv, DecidedInv, RulesInv
<1>3. addr_sb[p] \subseteq decided[p][c] \ sent[p][c]
  BY <1>1 DEF BatchInv, Once
<1>4. CASE c = "-A"
  <2>1. sent[p]["-D"] = {} /\ sent'[p]["-D"] = {} /\ sent'[p]["-A"] = sent[p]["-A"] \cup addr_sb[p]
    BY <1>1, <1>4 DEF BatchInv, SentInv, Cmds
  <2>2. addr_sb[p] \cap seen[p] = {}
    BY <1>2, <1>3, <1>4 DEF Work, ToBlock, Cmds
  <2>3. \A a \in Addrs : rules'[a] = IF a \in addr_sb[p] THEN rules[a] + 1 ELSE rules[a]
    BY <1>1, <1>4 DEF Changed
  <2>4. QED
    BY <1>1, <1>2, <1>3, <1>4, <2>1, <2>2, <2>3 DEF Blocked
<1>5. CASE c = "-D"
  <2>1. sent'[p]["-A"] = sent[p]["-A"] /\ sent'[p]["-D"] = sent[p]["-D"] \cup addr_sb[p]
    BY <1>1, <1>5 DEF Cmds
  <2>2. addr_sb[p] \subseteq seen[p] \ sent[p]["-D"]
    BY <1>2, <1>3, <1>5 DEF Work, ToUnblock, Cmds
  <2>3. \A a \in Addrs : rules'[a] = IF a \in addr_sb[p] THEN rules[a] - 1 ELSE rules[a]
    BY <1>1, <1>5 DEF Changed
  <2>4. QED
    BY <1>1, <1>2, <2>1, <2>2, <2>3 DEF Blocked
<1>6. QED
  BY <1>1, <1>4, <1>5 DEF Cmds

\* Nothing a run does changes what it decided, or parts the rules from what it
\* believes without its being disturbed.
LEMMA SettleStep ==
  ASSUME TypeOK, TypeOK', [Next]_vars, NEW p \in Runs, BatchInv(p), SettleInv(p)
  PROVE  SettleInv(p)'
<1> USE DEF At, Goto, Busy
<1>1. ASSUME ~OwnStep(p) PROVE SettleInv(p)'
  <2>1. <<pc[p], found[p], seen[p], decided[p], sent[p]>>'
          = <<pc[p], found[p], seen[p], decided[p], sent[p]>>
        /\ (calm'[p] => calm[p] /\ rules' = rules)
    BY <1>1, OthersStep DEF Mine
  <2>2. Work(p)' = Work(p) /\ Blocked(p)' = Blocked(p)
    BY <2>1 DEF Work, ToBlock, ToUnblock, Known, Blocked
  <2>3. calm'[p] => Listed(V4)' = Listed(V4)
    BY <2>1 DEF Listed
  <2>4. QED
    BY <2>1, <2>2, <2>3 DEF SettleInv, DecidedInv, RulesInv
<1>2. ASSUME NEW s, pc'[p] = s, s \in {"idle", "cache", "scan", "unlock", "list4", "abort"}
      PROVE SettleInv(p)'
  BY <1>2 DEF SettleInv, DecidedInv, RulesInv
<1>3. ASSUME \/ \E m \in Modes : Start(p, m)
             \/ LockCache(p) \/ UnlockCache(p) \/ Configure(p) \/ CommandFails(p)
             \/ StepFails(p) \/ Exit(p) \/ Killed(p)
      PROVE SettleInv(p)'
  BY <1>2, <1>3 DEF TypeOK, Start, LockCache, UnlockCache, Configure, CommandFails, StepFails,
                    Exit, Killed, Ended
<1>4. ASSUME ListFails(p) PROVE SettleInv(p)'
  <2>1. pc'[p] \in {"list6", "decide"} /\ ~calm'[p]
    BY <1>4 DEF TypeOK, ListFails
  <2>2. QED
    BY <2>1 DEF SettleInv, DecidedInv, RulesInv
<1>5. ASSUME List(p), At(p, "list4") PROVE SettleInv(p)'
  <2>1. pc'[p] = "list6" /\ seen'[p] = Listed(V4) /\ rules' = rules
        /\ (calm'[p] => \A a \in Addrs : rules[a] <= 1)
    BY <1>5 DEF TypeOK, List, worldVars
  <2>2. Listed(V4)' = Listed(V4)
    BY <2>1 DEF Listed
  <2>3. QED
    BY <2>1, <2>2 DEF SettleInv, DecidedInv, RulesInv
<1>6. ASSUME List(p), At(p, "list6") PROVE SettleInv(p)'
  <2>1. pc'[p] = "decide" /\ seen'[p] = seen[p] \cup Listed(V6) /\ UNCHANGED <<rules, calm, sent>>
    BY <1>6 DEF TypeOK, List, worldVars, pastVars
  <2>2. sent[p]["-A"] = {} /\ sent[p]["-D"] = {}
    BY <1>6 DEF BatchInv, SentInv, NoWork, Cmds
  <2>3. calm[p] => seen[p] = Listed(V4) /\ \A a \in Addrs : rules[a] \in {0, 1}
    <3>1. calm[p] => seen[p] = Listed(V4) /\ \A a \in Addrs : rules[a] <= 1
      BY <1>6 DEF SettleInv, RulesInv
    <3>2. \A a \in Addrs : rules[a] \in Nat
      BY DEF TypeOK
    <3>3. QED
      BY <3>1, <3>2
  <2>4. Blocked(p)' = seen'[p]
    BY <2>1, <2>2 DEF Blocked
  <2>5. calm[p] => \A a \in Addrs : a \in seen'[p] <=> rules[a] > 0
    BY <2>1, <2>3 DEF Listed, Addrs
  <2>6. QED
    BY <2>1, <2>3, <2>4, <2>5 DEF SettleInv, DecidedInv, RulesInv
<1>7. ASSUME Decide(p) PROVE SettleInv(p)'
  <2>1. pc[p] = "decide" /\ decided'[p] = Work(p) /\ UNCHANGED <<rules, calm, found, seen, sent>>
        /\ pc'[p] \in {"end", "lock"}
    BY <1>7 DEF TypeOK, Decide, worldVars, listVars
  <2>2. Work(p)' = Work(p) /\ Blocked(p)' = Blocked(p)
    BY <2>1 DEF Work, ToBlock, ToUnblock, Known, Blocked
  <2>3. QED
    BY <2>1, <2>2 DEF SettleInv, DecidedInv, RulesInv
<1>8. ASSUME UNCHANGED <<rules, calm, found, seen, decided, sent>>,
             pc[p] \in Busy \cup {"lock", "release"}, pc'[p] \in Busy \cup {"release", "end"}
      PROVE SettleInv(p)'
  <2>1. Work(p)' = Work(p) /\ Blocked(p)' = Blocked(p)
    BY <1>8 DEF Work, ToBlock, ToUnblock, Known, Blocked
  <2>2. QED
    BY <1>8, <2>1 DEF SettleInv, DecidedInv, RulesInv
<1>9. ASSUME LockIptables(p) \/ V4Take(p) \/ Release(p) PROVE SettleInv(p)'
  BY <1>8, <1>9 DEF TypeOK, LockIptables, Enter, V4Take, Release, worldVars, runVars, listVars,
                    pastVars
<1>10. ASSUME Leave(p) PROVE pc'[p] \in {"v4", "release"}
  BY <1>10 DEF TypeOK, Leave, Enter
<1>11. ASSUME V6Take(p) PROVE SettleInv(p)'
  <2>1. pc'[p] \in {"v4", "v6", "v6cmd", "release"}
    BY <1>10, <1>11 DEF TypeOK, V6Take
  <2>2. QED
    BY <1>8, <1>11, <2>1 DEF V6Take, worldVars, listVars, pastVars
<1>12. ASSUME Command(p) PROVE SettleInv(p)'
  <2>1. /\ pc[p] \in {"v4cmd", "v6cmd"} /\ pc'[p] \in {"v4", "v6", "release"}
        /\ UNCHANGED <<found, seen, decided>> /\ calm'[p] = calm[p]
    BY <1>10, <1>12 DEF TypeOK, Command, Disturbs, listVars
  <2>2. Work(p)' = Work(p)
    BY <2>1 DEF Work, ToBlock, ToUnblock, Known
  <2>3. QED
    BY <1>12, <2>1, <2>2, CommandSettles DEF SettleInv, DecidedInv, RulesInv
<1>13. QED
  BY <1>1, <1>3, <1>4, <1>5, <1>6, <1>7, <1>9, <1>11, <1>12
  DEF OwnStep, RunStep, List

\* A run that ends well, on rules nobody else has changed since it listed them,
\* leaves blocked exactly those who have offended more than they are allowed,
\* however its addresses were cut into commands.
THEOREM SoloRunCorrect == Spec => []SoloRunSettles
<1> DEFINE Batches == \A p \in Runs : BatchInv(p)
           Settling == \A p \in Runs : SettleInv(p)
<1>1. Init => Settling
  BY DEF Init, SettleInv, DecidedInv, RulesInv, Busy
<1>2. Batches /\ Settling /\ TypeOK /\ TypeOK' /\ [Next]_vars => Settling'
  BY SettleStep
<1>3. Batches /\ Settling /\ TypeOK => SoloRunSettles
  <2> SUFFICES ASSUME Batches, Settling, TypeOK, NEW p \in Runs,
                      At(p, "end"), mode[p] = "apply", calm[p], NEW a \in Addrs
               PROVE  rules[a] > 0 <=> Exceeds(found[p][a], a)
    BY DEF SoloRunSettles
  <2>1. rules[a] > 0 <=> a \in Blocked(p)
    BY DEF SettleInv, RulesInv, At
  <2>2. sent[p] = Work(p)
    BY DEF BatchInv, SentInv, SettleInv, DecidedInv, At
  <2>3. Blocked(p) = (seen[p] \cup ToBlock(p)) \ ToUnblock(p)
    BY <2>2 DEF Blocked, Work, Cmds
  <2>4. found[p][a] \in Nat /\ Allowed[a] \in Int
    <3>1. found[p] \in [Addrs -> Counts \cup {0}]
      BY DEF TypeOK
    <3>2. found[p][a] \in Counts \cup {0}
      BY <3>1
    <3>3. Allowed[a] \in Int
      BY AllowedAssumption
    <3>4. Counts \cup {0} \subseteq Nat
      BY CountsAssumption
    <3>5. QED
      BY <3>2, <3>3, <3>4
  <2>5. Unjust(found[p][a], a) <=> ~Exceeds(found[p][a], a)
    BY <2>4 DEF Unjust, Exceeds
  <2>6. Exceeds(found[p][a], a) => a \in Known(p)
    BY <2>4 DEF Exceeds, Known
  <2>7. a \in ToUnblock(p) <=> a \in seen[p] /\ Unjust(found[p][a], a)
    BY DEF ToUnblock, Known
  <2>8. a \in ToBlock(p) <=> a \notin seen[p] /\ Exceeds(found[p][a], a)
    BY <2>6 DEF ToBlock, Known
  <2>9. QED
    BY <2>1, <2>3, <2>5, <2>7, <2>8
<1>4. QED
  BY <1>1, <1>2, <1>3, TypeCorrect, BatchesCorrect, PTL DEF Spec
=============================================================================
