------------------------------- MODULE MCAOF -------------------------------
\* Instances of AOF for TLC.
EXTENDS AOF, TLC

\* Goroutines and commands of one kind are interchangeable.
Symmetric ==
  Permutations(Clients) \cup Permutations(Rewriters)
    \cup Permutations(CheckedOps) \cup Permutations(UncheckedOps)

AllFaults == FaultKinds
RewriteFaults == {"dump", "merge", "tmpsync", "rename"}
LogFaults == {"flush", "fsync"}
=============================================================================
