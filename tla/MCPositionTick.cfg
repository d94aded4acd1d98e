SPECIFICATION Spec
SYMMETRY Symmetry
CONSTANTS
  Places = {lane, base}
  StaleMs = 0
  AnchorMs = 1
  DisownAfter <- DisownTimes
  ForcedHold = 1
  Slots = {s1, s2}
  MaxNow = 2
  MaxSessions = 2
  MaxUplink = 1
  NoPlace = NoPlace
  NoPoint = NoPoint
INVARIANTS HeardOnlyIfVouched DisownedIsForgotten LostAnswersStayInSession TicksAreBounded
CHECK_DEADLOCK FALSE
