CONSTANTS
  Versions <- TwoVersions
  Hashing = TRUE
  Caching = TRUE
  PartialCache = FALSE
  Cleans <- Sometimes
  Stops <- Careful
  Forward = FALSE
  Kinds <- AllKinds
  Rebuilds = TRUE
  Removals = TRUE
  None = None
  Mixed = Mixed
  Broken = Broken
SPECIFICATION RunsSpec
INVARIANTS
  UpToDate
  OutputFits
  SourcesFit
