CONSTANTS
  Sub = {a}
  Mine = {a}
  MaxClock = 3
SPECIFICATION SpecOrder
INVARIANTS
  ExclusionIsNewest
CHECK_DEADLOCK FALSE
