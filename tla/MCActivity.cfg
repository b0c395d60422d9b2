\* One activity, two callers, one restart.  The program may come to rest
\* after activity_manager_fini, so deadlock is not an error.
CONSTANTS
  Act = {a1}
  Caller = {c1, c2}
  MaxMsgs = 2
  MaxRuns = 2
  None = none
SPECIFICATION FairSpec
INVARIANTS
  AtMostOneWorker
  NoLostWakeup
  StopIsLast
  MemoryConserved
PROPERTIES
  StopWaits
  ImplementsMailbox
  AcceptedIsHandled
  StopCompletes
CHECK_DEADLOCK FALSE
