CONSTANTS
  a = a
  b = b
  c = c
  x = x
  y = y
  d1 = d1
  d2 = d2
  NoSub = NoSub
  w1 = w1
  w2 = w2
  v2 = v2
  v1 = v1
  Sub <- MCSub2
  Hotkey <- MCHotkey
  Digest <- MCDigest
  hotkeyOf <- MCHotkeyOf2
  digestOf <- MCDigestOf2
  commitPos <- MCCommit2
  Score = {0, 1, 2}
  EpsNum = 1
  EpsDen = 2
  Worker = {w1}
  Watcher = {v1}
  RoundSize = 2
  Excludable = {x, y}
  Waits = {x}
  MaxOrdinal = 2
SPECIFICATION Spec
ACTION_CONSTRAINT OverruledEarly
INVARIANTS
  TypeOK
  CrownSafe
  BanSticks
  NobodyStranded
PROPERTIES
  VerdictFinal
  CrownFairlyTaken
  CrownImplemented
