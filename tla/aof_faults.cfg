SPECIFICATION Spec
CONSTANTS
  Clients = {c1, c2}
  Rewriters = {r1, r2}
  CheckedOps = {o1, o2}
  UncheckedOps = {u1}
  None = None
  FsyncPolicy = "always"
  Faults <- AllFaults
  MaxCrashes = 1
SYMMETRY Symmetric
INVARIANTS
  TypeOK
  OneRewrite
  BufferingEnds
  AckedOnDisk
  DurableForced
  SubHistory
  SnapshotReachesDisk
