SPECIFICATION Spec
CONSTANTS
  manifest = manifest
  weights = weights
  good = good
  bad = bad
  Names = {manifest, weights}
  Contents = {good, bad}
  Signed <- MCSigned
  Ids = {1, 2}
  MaxFaults = 2
  ReportsDigest = TRUE
CHECK_DEADLOCK FALSE
INVARIANTS DraftIsRecoverable
