CONSTANTS
  a = a
  b = b
  c = c
  h = h
  lib = lib
  own = own
  here = here
  there = there
  x = x
  y = y
  None = None
  Nobody = Nobody
  Commits <- TwoCommits
  Units <- AllUnits
  Dirs <- TwoDirs
  Dir <- AllDirs
  Uris <- HereAndThere
  Uri <- OneUri
  Refspec <- AllRefspecs
  Digest <- Digests
  Existing <- Own
SPECIFICATION Spec
INVARIANTS
  TypeOK
  BuiltFromHash
PROPERTIES
  ImplementsShared
