SPECIFICATION SuiteSpec
CONSTANTS
  l1 = l1
  l2 = l2
  Members = {1, 2, 3}
  MaxFaults = 2
  Capacity = 1
  MaxBytes = 2
  MaxSignals = 2
  Launchers <- MCLaunchers
  Last = 2
  MaxLaunchFaults = 1
  Paths <- MCPaths
  Root <- MCRoot
  Content <- MCContent
  Installed <- MCInstalled
  LastDir = 2
  Tree <- MCTree
  MaxEdits = 3
INVARIANTS
  TypeOK
  AcceptedIsContained
  AcceptedIsExact
  RunsOnce
  ReturnedIsComplete
  SeriesAgrees
PROPERTIES
  RunsInspected
  RunEnds
CHECK_DEADLOCK FALSE
