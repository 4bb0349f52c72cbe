SPECIFICATION Spec
CONSTANTS
  k1 = k1
  k2 = k2
  k3 = k3
  f1 = f1
  f2 = f2
  f3 = f3
  a = a
  b = b
  c = c
  d = d
  Keys <- OneKey
  Fields <- ThreeFields
  Texts <- FourTexts
  Length <- UnitLength
  Half = 8
  Workloads <- Extensions
  ChunkSize = 2
  TicksPerMs = 2
  MaxMemory = 0
  SlowReplay = FALSE
  MaxLog = 3
  MaxCrashes = 1
INVARIANT
  RestartKeepsLive
