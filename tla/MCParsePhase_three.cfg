CONSTANTS
  base = base
  a = a
  b = b
  Packages <- ThreePackages
  Names <- ThreeNames
  Base = base
SPECIFICATION FairSpec
INVARIANTS
  TypeOK
  ParsedOnce
  CompleteGraph
PROPERTIES
  FailureSeen
  ParseEnds
