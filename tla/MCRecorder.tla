----------------------------- MODULE MCRecorder -----------------------------
\* Instances of Recorder for TLC.
EXTENDS Recorder, TLC

CONSTANTS k1, k2

\* Latencies below, at and beyond the bounds, slow and not, with and without key.
ThreeCalls ==
  {[cmd |-> "SET", key |-> k1, us |-> 9],
   [cmd |-> "SET", key |-> k2, us |-> 10],
   [cmd |-> "PING", key |-> NoKey, us |-> 60]}
TwoBounds == <<10, 50>>
Symmetric == Permutations(Procs)
Cuts == {1, 25, 34, 50, 75, 99}
=============================================================================
