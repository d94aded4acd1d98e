SPECIFICATION FairSpec
CONSTANTS
  Clients = {1, 2}
  Ids <- MCIds
  Offers <- MCOffers
  PendingCap = 2
  MaxIceRestarts = 2
  MaxSessions = 1
  MaxBlips = 0
  MaxBreaks = 3
  MaxFailures = 0
PROPERTY
  PairsConnect
CHECK_DEADLOCK FALSE
