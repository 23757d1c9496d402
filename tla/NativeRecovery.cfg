SPECIFICATION FairSpec
CONSTANTS
  None = None
  Ids = {o1}
  Snapshots = {s1}
  Watchers = {w1}
  Faults <- AllFaults
CHECK_DEADLOCK FALSE
INVARIANTS ResultsTruthful LiveOwnerKeepsIt EffectIsOnRecord WatchersTell
PROPERTIES ResultsAreFinal AlwaysDecided StrandedIsTold
