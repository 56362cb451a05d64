CONSTANTS
  base = base
  Packages <- OnePackage
  Deps <- NoDeps
  Base = base
  ThreadsLimit = 1
SPECIFICATION TwoFairSpec
PROPERTIES
  OutcomeReturned
