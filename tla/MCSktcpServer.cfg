\* More connections than descriptors and addresses, so that both are used
\* again, and descriptors run out.  The program may have nothing more to do
\* after a crash or a failed init, so deadlock is not an error.
CONSTANTS
  Fd = {f1, f2, f3}
  Handle = {h1, h2}
  MaxConn = 5
  None = none
SYMMETRY Symmetry
SPECIFICATION Spec
INVARIANTS
  WatchersLive
  HandlesRight
  FiniCleans
CHECK_DEADLOCK FALSE
