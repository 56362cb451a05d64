CONSTANTS
  a = a
  b = b
  c = c
  d = d
  e = e
  good = good
  other = other
  one = one
  two = two
  NoHash = NoHash
  NoFile = NoFile
  Nobody = Nobody
  Units <- AllUnits
  Files <- TwoFiles
  File <- Names
  Want <- Hashes
  Contents <- TwoContents
SPECIFICATION FairSpec
INVARIANTS
  TypeOK
PROPERTIES
  ImplementsShared
  FetchEnds
