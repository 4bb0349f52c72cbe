SPECIFICATION Spec
CONSTANTS
  k1 = k1
  k2 = k2
  NoKey = NoKey
  Procs = {p1, p2}
  Calls <- ThreeCalls
  Bounds <- TwoBounds
  Percents <- Cuts
  SlotCount = 2
  TopN = 1
  Threshold = 10
  MaxLen = 1
  Start = 2
  MaxTime = 6
  MaxRecords = 3
INVARIANTS
  TypeOK
  PercentilesRank
  SlotsExact
  SlowlogLatest
  LeaderboardRight
SYMMETRY Symmetric
