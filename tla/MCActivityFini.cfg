\* One activity is enough for activity_manager_fini to outrun its thread.
CONSTANTS
  Act = {a1}
  Caller = {c1}
  MaxMsgs = 1
  MaxRuns = 1
  None = none
SPECIFICATION Spec
INVARIANT FiniWaits
CHECK_DEADLOCK FALSE
