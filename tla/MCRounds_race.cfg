CONSTANTS
  a = a
  b = b
  c = c
  x = x
  y = y
  d1 = d1
  d2 = d2
  NoSub = NoSub
  w1 = w1
  w2 = w2
  v2 = v2
  v1 = v1
  Sub <- MCSub1
  Hotkey <- MCHotkey
  Digest <- MCDigest
  hotkeyOf <- MCHotkeyOf1
  digestOf <- MCDigestOf1
  commitPos <- MCCommit1
  Score = {0, 1}
  EpsNum = 1
  EpsDen = 2
  Worker = {w1, w2}
  Watcher = {v1, v2}
  RoundSize = 2
  Excludable = {}
  Waits = {}
  MaxOrdinal = 2
SPECIFICATION FairSpec
INVARIANTS
  OneLiveRound
  SoleOwner
  NobodyStranded
PROPERTIES
  RunningEnds
  QueueDrains
