CONSTANTS
  a = a
  b = b
  c = c
  x = x
  y = y
  d1 = d1
  d2 = d2
  NoSub = NoSub
  w1 = w1
  w2 = w2
  v2 = v2
  v1 = v1
  Sub <- MCSub
  Hotkey <- MCHotkey
  Digest <- MCDigest
  hotkeyOf <- MCHotkeyOf
  digestOf <- MCDigestOf
  commitPos <- MCCommit
  Score = {0, 1, 2}
  EpsNum = 1
  EpsDen = 2
  Worker = {w1}
  Watcher = {v1}
  RoundSize = 3
  Excludable = {x}
  Waits = {}
  MaxOrdinal = 1
SPECIFICATION Spec
PROPERTIES
  VacatesTheDeregistered
