SPECIFICATION SuiteSpec
CONSTANTS
  manifest = manifest
  weights = weights
  good = good
  bad = bad
  p1 = p1
  p2 = p2
  Names <- MCNames
  Contents = {good, bad}
  Signed <- MCSigned
  Ids = {1, 2}
  MaxReleaseFaults = 3
  Period = 2
  MaxHead = 3
  MaxChanges = 3
  Versions = {"v1", "v2"}
  Processes = {p1, p2}
  MaxFaults = 2
  MaxEdits = 1
  One <- MCOne
  Several <- MCSeveral
INVARIANTS
  TypeOK
  PublishedIsExact
  SendsOnce
  CommitIsExact
  NeverReplayed
  ExportIsExact
  LoadedIsOneRun
  BundleIsExact
  CalibratedIsReproduced
PROPERTIES
  SentIsAuthorized
  PublishedStays
  PublishedAtOnce
  PublicationEnds
CHECK_DEADLOCK FALSE
