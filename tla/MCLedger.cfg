CONSTANTS
  c1 = c1
  c2 = c2
  h1 = h1
  NoKey = NoKey
  Campaign = {c1, c2}
  Hotkey = {h1}
  ruleOf <- MCRule
  Meta <- MCMeta
  Whole = 4
  Scale = 1
  Uid = {0, 1}
  BurnUid = 0
  Enabled = TRUE
  Cadence = 1
  MaxHeld = 1
  MaxSettles = 2
  MaxFaults = 1
  Sub = {a, b}
  Mine = {a}
  MaxClock = 5
  Thread = {t1, t2, t3}
  PoolMin = 1
  PoolMax = 2
SPECIFICATION SpecLedger
INVARIANTS
  VectorSafe
  ExclusionSafe
  PoolSafe
PROPERTIES
  CrownPublished
CHECK_DEADLOCK FALSE
