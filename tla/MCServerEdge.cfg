SPECIFICATION EdgeSpec
SYMMETRY Housemates
CONSTANTS
  Coordinates = {0, 1, 3}
  FullRange = 1
  HearingRange = 3
  StaleAge = 1
  AnchorAge = 2
  BlobAge = 2
  Ages = {0, 1, 2}
  MaxAgeing = 2
  Ips = {a}
  Names = {n1, n2}
  Capacity <- Capacities
  Refill <- Refills
  IdleAfter = 2
  MaxClock = 3
  MaxPosts = 1
  NoBucket = NoBucket
  Requests = {own, other}
  Own = own
  Life = 6
  Lead = 4
  Grace = 2
  ClientLife = 1
  MaxTransit = 1
  MaxHour = 9
  NoCreds = NoCreds
  Width <- Bits
  HostBits = 1
  Private <- PrivateNets
  Settings <- OperatorSettings
  MaxEntries = 3
INVARIANTS CrossTeamNeedsSight CachedCredentialsLive
PROPERTIES AgeingOnlyNarrows IsABudget PaddingMovesNothing
CHECK_DEADLOCK FALSE
