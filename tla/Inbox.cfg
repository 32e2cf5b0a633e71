SPECIFICATION Spec
CONSTANTS
  p1 = p1
  p2 = p2
  v1 = v1
  v2 = v2
  People = {p1, p2}
  Vid = {v1, v2}
  RosterId <- MCRoster
  EventLoop = loop
  Worker = worker
  Nobody = Nobody
  NoRow = NoRow
  Limit = 1
  MaxRequests = 6
  MaxCrashes = 1
INVARIANTS
  MailIsBacked
  ReceiptsListed
CHECK_DEADLOCK FALSE
