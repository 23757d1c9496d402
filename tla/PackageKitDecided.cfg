SPECIFICATION FairSpec
CONSTANTS
  None = None
  Ids = {o1}
  Recoverers = {r1}
  Controls = {}
  Kinds = {"update", "refresh"}
  Said = {"auth", "run", "malformed", "rejected", "succeeded", "canceled", "permission-denied"}
  Faults = {"owner", "recovery", "daemon", "commit", "lookup"}
CHECK_DEADLOCK FALSE
PROPERTIES AlwaysDecided
