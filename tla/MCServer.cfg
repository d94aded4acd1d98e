SPECIFICATION ServerSpec
CONSTANTS
  home = home
  Sockets = {s1, s2}
  Addresses <- MCAddresses
  IpOf <- MCIpOf
  MaxPerIp = 2
  HistoryCap = 2
  Fragile = {s1, s2}
  Sweeping = TRUE
  Rooms = {r1}
  Names = {n1}
  Teams = {order}
  Places = {p1}
  ConsentChoices = {FALSE}
  AnchorMs = 1
  RoomCooldown = 1
  SenderCooldown = 1
  MaxNow = 2
  NoSeat = NoSeat
  NoTeam = NoTeam
  NoPoint = NoPoint
INVARIANTS
  SilenceIsNoticed
  OnePlaceAtMost
PROPERTIES
  ReapsOnlySilent
  TakeoverKeepsPlace
  GhostsLeave
CHECK_DEADLOCK FALSE
