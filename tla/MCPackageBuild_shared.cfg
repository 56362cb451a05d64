CONSTANTS
  base = base
  left = left
  right = right
  common = common
  Packages <- TwinPackages
  Deps <- Twins
  Locally <- TwinsLocally
  Intercept <- InterceptLeft
  Suppressions <- ForcedOrNot
  CleanFirst <- CleanLeft
  Leftovers <- AnyLeftovers
SPECIFICATION FairSpec
INVARIANTS
  TypeOK
  OneBuilder
  LocalReally
  BuiltOnce
  InputsThere
  NoTornStaging
PROPERTIES
  ModesKept
  ThreadsEnd
