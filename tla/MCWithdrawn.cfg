SPECIFICATION Spec
SYMMETRY Symmetry
CONSTANTS
  Places = {lane, base}
  StaleMs = 1
  AnchorMs = 2
  DisownAfter <- DisownTimes
  ForcedHold = 1
  Slots = {s1, s2}
  MaxNow = 3
  MaxSessions = 2
  MaxUplink = 1
  NoPlace = NoPlace
  NoPoint = NoPoint
PROPERTY LossIsWithdrawn
CHECK_DEADLOCK FALSE
