SPECIFICATION Spec
CONSTANTS
  Clients = {c1, c2}
  Rewriters = {r1}
  CheckedOps = {o1, o2}
  UncheckedOps = {u1, u2}
  None = None
  FsyncPolicy = "always"
  Faults <- LogFaults
  MaxCrashes = 0
PROPERTY
  RewriteKeepsCommands
