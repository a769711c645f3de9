SPECIFICATION Spec
CONSTANTS
  Exts <- Two
  Deps <- OneDependency
  Eager <- OnlyB
  Grants <- NoGrants
  MaxVersion = 1
  MaxRuns = 3
  StorageFails = FALSE
INVARIANT DependentsAreStopped
