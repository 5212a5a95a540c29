SPECIFICATION Spec
CONSTANTS
  Versions = {"v1", "v2"}
  Processes = {"p1", "p2"}
  MaxFaults = 0
  MaxEdits = 0
INVARIANTS
  PendingFailedIsUnmarked
CHECK_DEADLOCK FALSE
