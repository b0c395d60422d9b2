\* Two activities and one sender for each.
CONSTANTS
  Act = {a1, a2}
  Sender = {s1, s2}
  MaxCells = 2
  NULL = null
SPECIFICATION Spec
INVARIANT OneMessagePerCell
CHECK_DEADLOCK FALSE
