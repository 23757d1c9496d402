SPECIFICATION WorldSpec
CONSTANTS
  Procs = {p1, p2}
  Payloads = {a, b}
  Initial = a
  SequenceMax = 6
  Faults = {"kill", "power"}
  Worlds = {{"processes", "power"}}
INVARIANTS CommittedSurvives
