CONSTANTS
  base = base
  left = left
  right = right
  common = common
  Packages <- DiamondPackages
  Deps <- Diamond
  Base = base
  ThreadsLimit = 2
SPECIFICATION FairSpec
INVARIANTS
  TypeOK
  OneBuilder
  ThreadsCounted
  DrainedOnFailure
PROPERTIES
  ImplementsOrder
  NoStarvation
  DrainEnds
