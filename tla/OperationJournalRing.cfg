SPECIFICATION HSpec
CONSTANTS
  None = None
  N = 2
  Ids = {o1, o2, o3, o4}
  SystemLevels = {0, 1}
  SessionLevels = {0}
  Applications = {FALSE}
  Kinds = {"update", "refresh", "native"}
  States = {"pending", "authorizing", "running", "cancel-requested", "succeeded", "interrupted"}
  BootMax = 1
  ClockMax = 3
SYMMETRY Symmetry
INVARIANTS TypeOK RecoveryPossible WithinReserve
PROPERTY ResultsSpec
