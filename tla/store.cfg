SPECIFICATION FairSpec
CONSTANTS
  k1 = k1
  k2 = k2
  f1 = f1
  f2 = f2
  a = a
  Clients = {c1, c2}
  Keys <- TwoKeys
  Fields <- OneField
  Texts <- OneText
  Length <- UnitLength
  Half = 2
  Counters <- NoInts
  Deltas <- One
  TTLs <- ShortTTLs
  MaxMemory = 4
  SampleSize = 1
  MaxRounds = 2
  MaxTime = 3
INVARIANTS
  TypeOK
  ExpiryTracked
  MemoryBounded
PROPERTIES
  OnlyDueRemoved
  EventuallyReclaimed
