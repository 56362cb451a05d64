CONSTANTS
  Versions <- TwoVersions
  Hashing = TRUE
  Caching = TRUE
  PartialCache = FALSE
  Cleans <- Never
  Stops <- OnlyInstall
  Forward = FALSE
  Kinds <- Plain
  Rebuilds = FALSE
  Removals = FALSE
  None = None
  Mixed = Mixed
  Broken = Broken
SPECIFICATION Spec
INVARIANTS
  UpToDate
