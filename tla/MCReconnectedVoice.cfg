SPECIFICATION FairSpec
CONSTANTS
  Clients = {1, 2}
  Ids <- MCIds
  Offers <- MCOffers
  PendingCap = 2
  MaxIceRestarts = 2
  MaxSessions = 0
  MaxBlips = 1
  MaxBreaks = 0
  MaxFailures = 0
PROPERTY
  ReconnectedIsHeard
CHECK_DEADLOCK FALSE
