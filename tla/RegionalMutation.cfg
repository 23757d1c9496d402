SPECIFICATION Spec
CONSTANTS
  old = old
  new = new
  other = other
  Values = {old, new, other}
  Confirmed = old
  Target = new
  Unspecified = Unspecified
  CallbackLimit = 2
  WritesMax = 3
  InstancesMax = 2
CHECK_DEADLOCK FALSE
INVARIANTS SuccessIsUncontested NothingSentBlindly
PROPERTIES CallSpec
