SPECIFICATION Spec
CONSTANTS
  Places = {lane, base}
  Base = {base}
  ForcedHold = 3
  MaxOccluded = 1
  Grace = 0
  MaxStacked = 2
  Observe = 1
  Avoid = 2
  Warmup = 1
  WalkTime = 2
  Reject = 4
  DisownAfter <- DisownTimes
  MaxNow = 4
  NoPlace = NoPlace
  NoPoint = NoPoint
INVARIANTS ExplanationsRunOut ResetIsHeeded
PROPERTY KeepsItsPromise
CHECK_DEADLOCK FALSE
