SPECIFICATION OneUpdated
CONSTANTS
  Exts <- Two
  Deps <- OneDependency
  Eager <- OnlyB
  Grants <- NoGrants
  MaxVersion = 2
  MaxRuns = 3
  StorageFails = TRUE
PROPERTY EveryOperationEnds
