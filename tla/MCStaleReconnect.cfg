SPECIFICATION MCSpec
CONSTANTS
  home = home
  first = a1
  MaxSocket = 3
  MaxDisturbed = 3
  Sockets <- MCSockets
  Addresses <- MCAddresses
  IpOf <- MCIpOf
  MaxPerIp = 9
  HistoryCap = 0
  Fragile = {}
  Sweeping = FALSE
  Rooms = {r1}
  Names = {n1, n2}
  Teams = {}
  Places = {}
  ConsentChoices = {FALSE}
  AnchorMs = 0
  RoomCooldown = 1
  SenderCooldown = 1
  MaxNow = 0
  NoSeat = NoSeat
  NoTeam = NoTeam
  NoPoint = NoPoint
  Apps = {a1}
  NameOf <- MCNameOf
  NoSocket = NoSocket
  NoRoom = NoRoom
  NoApp = NoApp
  InOrder = TRUE
  MaxCalls = 2
  MaxDrops = 1
  MaxLost = 0
PROPERTIES
  ReconnectsOnlyWhenDown
CHECK_DEADLOCK FALSE
