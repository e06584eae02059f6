CONSTANTS
  A = A
  B = B
  T = T
  d1 = d1
  d2 = d2
  Commit <- MCCommit
  Deps = {d1, d2}
  depsOf <- MCDepsOf
  TomlOnly <- MCToml
  Mixed = Mixed
  NoCopy = NoCopy
  NoCommit = NoCommit
  First = A
  Worker = {w1}
  Kinds = {"rollback", "resume", "cancel", "verify", "unpause"}
  CrashPoints = {"closing"}
SPECIFICATION Spec
PROPERTIES
  HeldStaysPut
