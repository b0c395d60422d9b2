\* The buffer is small against the index type: 2 * Size <= Modulus.
CONSTANTS
  Item = {b1, b2}
  Size = 3
  Modulus = 8
  MaxBurst = 3
  Beyond = beyond
SYMMETRY Symmetry
SPECIFICATION Spec
INVARIANTS
  TypeOK
  InBounds
  PeekedDataStable
  RoomStillThere
PROPERTY ImplementsFifo
