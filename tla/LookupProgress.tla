-------------------------- MODULE LookupProgress --------------------------
(***************************************************************************)
(* What PDNS_lookup() promises about the entries it is given: each is      *)
(* looked up by one thread at a time, first in reverse, then, only if that *)
(* found a name, forward, each lookup once; its flags record the outcome   *)
(* and are final once a flag of PDNS_DONE_MASK is set.  A thread is        *)
(* admitted to a lookup before it begins it, and none is admitted once the *)
(* time limit has passed: so a thread begins at most one lookup after it.  *)
(* When the process aborts, the lookups under way leave no trace and no    *)
(* other begins.                                                           *)
(***************************************************************************)
EXTENDS Naturals

CONSTANTS Items,      \* the OFFENTRY objects
          Lookers,    \* the threads that look entries up
          Nothing     \* "no entry"

VARIABLES dns,        \* the PDNS flags of each entry
          lookers,    \* how many threads are looking each entry up
          admitted,   \* the entry each thread may begin to look up, if any
          timedOut,   \* the time limit has passed
          aborted     \* the process has been aborted

progressVars == <<dns, lookers, admitted, timedOut, aborted>>

ReverseOutcomes == {{"REV"}, {"NXDOMAIN"}, {"SERVFAIL"}}
ForwardOutcomes == {{"FWD"}, {"FWD", "MISMATCH"}, {"FWD", "NONE"}, {"FWD", "FAIL"}}

Unresolved(e) == dns[e] \in {{}, {"REV"}}

ProgressInit ==
  /\ dns = [e \in Items |-> {}]
  /\ lookers = [e \in Items |-> 0]
  /\ admitted = [t \in Lookers |-> Nothing]
  /\ timedOut = FALSE /\ aborted = FALSE

Admit(t, e) ==
  /\ ~timedOut /\ ~aborted
  /\ admitted[t] = Nothing /\ \A u \in Lookers : admitted[u] # e
  /\ Unresolved(e) /\ lookers[e] = 0
  /\ admitted' = [admitted EXCEPT ![t] = e]
  /\ UNCHANGED <<dns, lookers, timedOut, aborted>>

Begin(t, e) ==
  /\ admitted[t] = e
  /\ Unresolved(e) /\ lookers[e] = 0
  /\ admitted' = [admitted EXCEPT ![t] = Nothing]
  /\ lookers' = [lookers EXCEPT ![e] = 1]
  /\ UNCHANGED <<dns, timedOut, aborted>>

Finish(e) ==
  /\ lookers[e] = 1
  /\ lookers' = [lookers EXCEPT ![e] = 0]
  /\ \/ dns[e] = {} /\ \E o \in ReverseOutcomes : dns' = [dns EXCEPT ![e] = o]
     \/ dns[e] = {"REV"} /\ \E o \in ForwardOutcomes : dns' = [dns EXCEPT ![e] = @ \cup o]
  /\ UNCHANGED <<admitted, timedOut, aborted>>

TimeOut ==
  /\ timedOut' = TRUE
  /\ UNCHANGED <<dns, lookers, admitted, aborted>>

Abort ==
  /\ aborted' = TRUE
  /\ lookers' = [e \in Items |-> 0]
  /\ admitted' = [t \in Lookers |-> Nothing]
  /\ UNCHANGED <<dns, timedOut>>

ProgressNext ==
  \/ TimeOut \/ Abort
  \/ \E e \in Items : Finish(e) \/ \E t \in Lookers : Admit(t, e) \/ Begin(t, e)

ProgressSpec == ProgressInit /\ [][ProgressNext]_progressVars
=============================================================================
