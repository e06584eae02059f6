CONSTANTS
  A = A
  B = B
  T = T
  d1 = d1
  d2 = d2
  Commit <- MCCommitPair
  Deps = {d1, d2}
  depsOf <- MCDepsOfPair
  TomlOnly = {}
  Mixed = Mixed
  NoCopy = NoCopy
  NoCommit = NoCommit
  First = A
  Worker = {w1}
  Kinds = {"rollback", "resume", "cancel", "verify", "unpause"}
  CrashPoints = {"stop", "wait", "copy", "checkout", "deps", "install", "exec", "start", "workers", "switch", "vinstall"}
SPECIFICATION FairSpec
PROPERTY
  RequestEnds
