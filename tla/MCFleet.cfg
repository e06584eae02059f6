CONSTANTS
  NJobs = 2
  Bench = {1}
  Worker = {w1, w2}
  MaxAttempts = 2
  MaxClaims = 2
  Client = {tk}
  Modes = {"auto", "manual"}
  MaxNames = 2
  Orders <- MCOrders
  Markets <- MCMarkets
  Want = 1
  Cap = 10
  MaxPodFaults = 1
  Image = {base, a, b}
  Baseline = base
  MaxRuns = 2
  MaxHostFaults = 3
SPECIFICATION SpecFleet
INVARIANTS
  QueueSafe
  RentalsSafe
  HostSafe
PROPERTIES
  PendingJobSettles
  ReaperSparesLive
  RentalsEnd
  HostShared
CHECK_DEADLOCK FALSE
