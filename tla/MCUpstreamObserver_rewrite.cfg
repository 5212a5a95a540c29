SPECIFICATION Spec
CONSTANTS
  before = before
  audited = audited
  after = after
  beside = beside
  Commits <- MCCommits
  Ancestors <- MCAncestors
  Audited = audited
  NoCommit = NoCommit
  MaxAge = 2
  MaxPoll = 1
  ReadFaults = FALSE
  MaxFaults = 2
INVARIANTS
  TypeOK
  RewriteIsRemembered
