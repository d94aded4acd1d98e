SPECIFICATION FairClientSpec
CONSTANTS
  home = home
  first = a1
  MaxSocket = 4
  MaxDisturbed = 4
  Sockets <- MCSockets
  Addresses <- MCAddresses
  IpOf <- MCIpOf
  MaxPerIp = 9
  HistoryCap = 0
  Fragile = {}
  Sweeping = FALSE
  Rooms = {r1}
  Names = {n1, n2}
  Teams = {}
  Places = {}
  ConsentChoices = {FALSE}
  AnchorMs = 0
  RoomCooldown = 1
  SenderCooldown = 1
  MaxNow = 0
  NoSeat = NoSeat
  NoTeam = NoTeam
  NoPoint = NoPoint
  Apps = {a1, a2}
  NameOf <- MCNameOf
  NoSocket = NoSocket
  NoRoom = NoRoom
  NoApp = NoApp
  InOrder = TRUE
  MaxCalls = 3
  MaxDrops = 1
  MaxLost = 1
  MaxGames = 2
  MaxSessions = 3
  Unsupported = {1}
  MicMayBlock = TRUE
  AudioMayFail = TRUE
  Stops = TRUE
  DeviceRates = {1, 2}
  MaxToggles = 4
  MaxSwitches = 1
  MaxLosses = 1
  MaxTries = 4
INVARIANTS
  OneSession
  RoutedToTheOutput
PROPERTIES
  RetryHoldsNoMicrophone
  SessionsEnd
  SilencedOnlyByOverlap
  EveryoneSettles
  LeavingEndsPresence
  ThreatenedOnlyByRejoining
CHECK_DEADLOCK FALSE
