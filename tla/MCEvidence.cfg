SPECIFICATION MCSpec
CONSTANTS
  one = one
  p1 = p1
  p2 = p2
  Calibrations = {p1, p2}
  Free = Free
  MaxFaults = 2
  FewFaults = 1
  Evaluators = {p1, p2}
  Trained = 2
  Profiled <- MCProfiled
  Rows = 2
  LastArtifact = 2
  LastRuntime = 2
  MaxEvaluationFaults = 2
  Provided <- MCProvided
  Build <- MCBuild
  Surface <- MCSurface
  Exported <- MCExported
  Diagnosed <- MCDiagnosed
SYMMETRY Alike
INVARIANTS
  TypeOK
  ReceiptIsTruthful
  FailedLeavesNothing
  AcceptedIsOneRun
  AcceptedAtOnce
  ExportIsSigned
PROPERTIES
  NeverClobbers
CHECK_DEADLOCK FALSE
