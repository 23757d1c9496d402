SPECIFICATION Spec
CONSTANTS
  DataNames <- MCDataNames
  BootMax = 3
  Faults = {"kill", "tear", "fsync", "directory", "power", "blank"}
INVARIANTS NeverRefused CursorLast CommitsStay
