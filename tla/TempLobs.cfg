SPECIFICATION Spec
CONSTANTS
  b1 = b1
  b2 = b2
  Lobs <- MCLobs
  d1 = d1
  d2 = d2
  Data <- MCData
  MaxIds = 3
  Batch = 1
SYMMETRY Symmetry
CHECK_DEADLOCK FALSE
INVARIANTS
  Noted
  BoundData
  FreesAll
  FreesOnce
