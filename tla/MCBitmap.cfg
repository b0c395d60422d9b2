\* Two bytes are enough for the loop to end early.
CONSTANTS
  Size = 2
  Width = 3
SPECIFICATION Spec
PROPERTY ForeachComplete
