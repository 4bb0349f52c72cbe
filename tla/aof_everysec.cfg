SPECIFICATION FairSpec
CONSTANTS
  Clients = {c1, c2}
  Rewriters = {r1, r2}
  CheckedOps = {o1}
  UncheckedOps = {u1}
  None = None
  FsyncPolicy = "everysec"
  Faults <- RewriteFaults
  MaxCrashes = 2
INVARIANTS
  ExactlyOnce
  LosesNothing
PROPERTIES
  ImplementsLog
  CommandsEnd
  RewritesEnd
  EverysecForces
