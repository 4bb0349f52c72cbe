SPECIFICATION Spec
CONSTANTS
  c1 = c1
  c2 = c2
  Conns = {c1, c2}
  Viewers = {v1, v2}
  Buffer = 1
  RequireAuth = TRUE
  Requests <- ServedMixed
  MaxRequests <- TwoAndOne
  Window <- StuckSecond
  Reading = {c1}
INVARIANTS
  TypeOK
  SubscribedOpen
  WatchersAreOffered
  RepliesMatch
  CountersAgree
PROPERTIES
  RequestsAnswered
  ConnectionsEnd
