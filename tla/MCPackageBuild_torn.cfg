CONSTANTS
  base = base
  left = left
  right = right
  common = common
  Packages <- SharedPackages
  Deps <- Shared
  Locally <- SharedLocally
  Intercept <- InterceptLeft
  Suppressions <- NotForced
  CleanFirst <- NoPackages
  Leftovers <- AnyLeftovers
SPECIFICATION Spec
INVARIANTS
  NoTornStaging
