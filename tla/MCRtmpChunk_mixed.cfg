CONSTANTS
  Catalogue <- MixedCatalogue
  MaxSent = 3
  InChunk = 2
  OutChunk = 3
  Window = 8
  NewWindow = 5
  Digit = 4
  Cap = 6
SPECIFICATION Spec
CHECK_DEADLOCK FALSE
INVARIANTS TypeOK Intact NothingLeft CountedOnce
