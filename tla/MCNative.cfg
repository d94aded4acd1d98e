SPECIFICATION NativeSpec
CONSTANTS
  PollEvery = 2
  PollLatency = 1
  SlowLatency = 1
  LeagueLag = 1
  Spared = 3
  Second = 2
  Remembered = 7
  Timers = {3, 6}
  MaxNow = 11
  MaxMoves = 1
  Nothing = Nothing
  Never = Never
  Spots = {0, 2, 3}
  Runs = 3
  MinAge = 3
  Stale = 1
  NoSpot = NoSpot
  Games = 3
  MaxLines = 3
  MaxBuffered = 2
  KeepZips = 1
  MaxCrashes = 2
  MaxFaults = 1
  MaxToggles = 2
  NoBundle = NoBundle
  Caps = caps
  Other = backquote
  MuteKey = mute
  MaxPresses = 3
  MaxChanges = 3
  MaxQueue = 2
  Target = 2
  Most = 8
  Chunk = 2
  Burst = 9
INVARIANTS
  OneDeathEach
  SwitchedOnItsOwnEvidence
  BundlesAreWhole
  CapsLockUntouched
  MicFollowsHand
  DelayIsBounded
PROPERTY NoRespawnWhileDead
CHECK_DEADLOCK FALSE
