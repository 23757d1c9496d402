SPECIFICATION Spec
CONSTANTS
  None = None
  N = 2
  Ids = {o1, o2, o3}
  SystemLevels = {0}
  SessionLevels = {0, 1, 2}
  Applications = {FALSE, TRUE}
  Kinds = {"update", "refresh", "native"}
  States = {"pending", "interrupted"}
  BootMax = 2
  ClockMax = 3
SYMMETRY Symmetry
INVARIANTS JournalDecodes GuidanceKept RecoveryPossible
PROPERTY GuidanceNotReplayed
