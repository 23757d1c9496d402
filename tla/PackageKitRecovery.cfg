SPECIFICATION Spec
CONSTANTS
  None = None
  Ids = {o1}
  Recoverers = {r1}
  Controls = {}
  Kinds = {"update"}
  Said <- Understood
  Faults <- AllFaults
CHECK_DEADLOCK FALSE
INVARIANTS ResultsTruthful RestartRemembered NoNeedlessRestart LiveIsOwned
