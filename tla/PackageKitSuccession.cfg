SPECIFICATION Spec
CONSTANTS
  None = None
  Ids = {o1, o2}
  Recoverers = {r1}
  Controls = {c1}
  Kinds = {"refresh"}
  Said = {"run", "canceled"}
  Faults = {"owner"}
SYMMETRY Alike
CHECK_DEADLOCK FALSE
INVARIANTS ResultsTruthful LiveIsOwned CancelIsAddressed
PROPERTIES JournalSpec
