SPECIFICATION RegistrySpec
CONSTANTS
  home = home
  Sockets = {s1, s2, s3, s4}
  Addresses <- MCAddresses
  IpOf <- MCIpOf
  MaxPerIp = 3
  HistoryCap = 0
  Fragile = {}
  Sweeping = FALSE
  Rooms = {r1, r2}
  lobby = r1
  spare = s4
  Names = {n1, n2}
  Teams = {}
  Places = {}
  ConsentChoices = {FALSE, TRUE}
  AnchorMs = 0
  RoomCooldown = 1
  SenderCooldown = 2
  MaxNow = 2
  NoSeat = NoSeat
  NoTeam = NoTeam
  NoPoint = NoPoint
SYMMETRY Alike
INVARIANTS
  SlotsBalanced
  Seating
  ViewsAgree
  ConsentIsOwn
PROPERTY RelaysAreSpaced
CHECK_DEADLOCK FALSE
