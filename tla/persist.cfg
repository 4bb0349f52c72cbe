SPECIFICATION Spec
CONSTANTS
  k1 = k1
  k2 = k2
  k3 = k3
  f1 = f1
  f2 = f2
  f3 = f3
  a = a
  b = b
  c = c
  d = d
  Keys <- ThreeKeys
  Fields <- ThreeFields
  Texts <- FourTexts
  Length <- UnitLength
  Half = 8
  Workloads <- TypesAndTTLs
  ChunkSize = 2
  TicksPerMs = 2
  MaxMemory = 0
  SlowReplay = TRUE
  MaxLog = 3
  MaxCrashes = 1
INVARIANTS
  RestartRebuilds
  RestartKeepsLive
  TTLsBounded
  DeletedStaysDeleted
SYMMETRY Symmetric
