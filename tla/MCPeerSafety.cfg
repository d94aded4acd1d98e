SPECIFICATION Spec
CONSTANTS
  Clients = {1, 2}
  Ids <- MCIds
  Offers <- MCOffers
  PendingCap = 2
  MaxIceRestarts = 2
  MaxSessions = 1
  MaxBlips = 1
  MaxBreaks = 0
  MaxFailures = 1
INVARIANTS
  OneConnectionEach
  NothingStranded
CHECK_DEADLOCK FALSE
