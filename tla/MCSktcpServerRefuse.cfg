\* One refused connection is enough.
CONSTANTS
  Fd = {f1}
  Handle = {h1}
  MaxConn = 1
  None = none
SPECIFICATION Spec
INVARIANT RefusedIsClosed
CHECK_DEADLOCK FALSE
