CONSTANTS
  h1 = h1
  h2 = h2
  p1 = p1
  p2 = p2
  c1 = c1
  c2 = c2
  Old = Old
  New = New
  Miner = {h1, h2}
  ToolUser = {h2}
  hkOrder <- MCOrder
  Patch = {p1, p2}
  printOf <- MCPrint
  OldPatch = p1
  OldMiner = h1
  Fees = {0, 1, 2}
  MaxHeight = 3
  ExemptHotkeys = {h1}
  StartBlock = 3
  Casts = {{"fee"}, {"forge"}, {"forge", "exempt"}, {"bar", "carry", "start"}}
  MaxDrops = 1
  MaxForged = 1
  BuildPatch = {p}
  EmptyPatch = EmptyPatch
  BuildCampaign = {c1, c2}
  EngineOf <- MCEngine
  Builders = {w, ops}
  Cleaner = Cleaner
  Nobody = Nobody
  NoImage = NoImage
  MaxBuilds = 3
  MaxBuildFaults = 1
  Contents = {1, 2}
  Attempts = 2
  MaxStats = 3
  MaxDamages = 1
  MaxStagings = 3
  NCandidates = 2
  Prompt = {q1, q2}
  MaxUnstable = 1
  Shapes <- MCShapes
  MaxStarts = 2
  MaxBenchFaults = 1
  Trace <- MCTrace
  TierList <- MCTiers
  Slots = 2
  TierSize = 1
  FullLength = 4
  RequestTimeout = 5
  MaxHangs = 1
  NOutputs = 4
  Texts <- MCTexts
  Facts <- MCFacts
  Allowance = 1
  Relative = TRUE
  Char = {1, 2}
  MaxText = 8
  Gram = 2
  NPrompts = 2
  Timing <- MCTiming
  TierTimes <- MCTierTimes
  Penalty = 2
  TtftCap = 1
  Tier = {"a", "b"}
  TierWeight <- MCTierWeight
  SignedPatch = {p1, p2}
  Absent = Absent
  Committed = p1
  MaxSigned = 2
  Handler = {r1}
  Delays = {1}
  AuthTtl = 2
  SignFor = 2
  MaxNow = 2
  MaxPolicies = 2
  MaxRemovals = 1
  App = {"api"}
  WorkerUnit = {"worker"}
  Timer = {"timer"}
  VectorUnit = {"vector"}
  VectorToml = {"toml"}
  MaxCommits = 2
  MaxTouched = 2
  MaxSyncFaults = 1
SPECIFICATION SpecPipeline
INVARIANTS
  AdmissionSafe
  BuilderSafe
  StagingSafe
  BenchSafe
  ReplaySafe
  GradingSafe
  RepeatsSafe
  ScoreSafe
  PublicationSafe
  SyncSafe
PROPERTIES
  EntryRules
  BeaconFaithful
  StorageSteps
CHECK_DEADLOCK FALSE
