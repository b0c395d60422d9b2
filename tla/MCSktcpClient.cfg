\* Two threads; two descriptors besides the standard input, so that one
\* comes back while the other connection or the rest of the program lives.
CONSTANTS
  User = {u1, u2}
  MaxFd = 2
  None = none
SPECIFICATION Spec
INVARIANTS
  ConnectedIsOpen
PROPERTIES
  ClosesOwn
  EndIsNoticed
