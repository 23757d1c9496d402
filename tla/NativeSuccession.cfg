SPECIFICATION Spec
CONSTANTS
  None = None
  Ids = {o1, o2}
  Snapshots = {}
  Watchers = {w1}
  Faults = {"owner", "commit", "looker"}
SYMMETRY Alike
CHECK_DEADLOCK FALSE
INVARIANTS LiveOwnerKeepsIt
PROPERTIES JournalSpec
