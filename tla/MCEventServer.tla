--------------------------- MODULE MCEventServer ----------------------------
EXTENDS EventServer

\* That a worker initializes is enough for it to race with others for a key.
MCWorkerSpecs == <<>>

\* A file descriptor, a signal, a virtual signal, a timer of each kind.
MCSpecs ==
  { SpecOf("fd", "f", 0, 0), SpecOf("sig", "HUP", 0, 0), SpecOf("vsig", "v", 0, 0),
    SpecOf("timer", "single", 1, 0), SpecOf("timer", "interval", 0, 2) }

\* The workers differ only by name.
Symmetry == Permutations(Workers)

MCSignals == <<"HUP", "USR2">>
=============================================================================
