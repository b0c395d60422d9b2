\* A buffer of more than half the range of its indices.
CONSTANTS
  Item = {b1, b2}
  Size = 5
  Modulus = 8
  MaxBurst = 5
  Beyond = beyond
SYMMETRY Symmetry
SPECIFICATION Spec
INVARIANT PeekShowsStored
