SPECIFICATION WorldSpec
CONSTANTS
  Procs = {p1, p2}
  Payloads = {a, b}
  Initial = a
  SequenceMax = 6
  Faults <- AllFaults
  Worlds = {{"processes"}, {"power"}}
INVARIANTS TypeOK NoConflictingFrames CommittedSurvives ReadersSeeWholeImage
PROPERTY CellSpec
