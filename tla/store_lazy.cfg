SPECIFICATION Spec
CONSTANTS
  k1 = k1
  k2 = k2
  f1 = f1
  f2 = f2
  a = a
  Clients = {c1, c2}
  Keys <- OneKey
  Fields <- NoInts
  Texts <- OneText
  Length <- UnitLength
  Half = 8
  Counters <- NoInts
  Deltas <- One
  TTLs <- NowOrLater
  MaxMemory = 4
  SampleSize = 1
  MaxRounds = 2
  MaxTime = 3
PROPERTY
  LazyDeletesOnlyExpired
