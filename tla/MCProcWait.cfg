\* Expected to fail: wait() without children.
CONSTANTS
  TASK_FS = 3
  TASK_MM = 4
  PID_INIT = 8
  Slot = {12, 13}
  ANY = 50
  INTERRUPT = 55
  NO_TASK = 60
  InitForks = 1
  Calls <- MCCalls
SPECIFICATION LifeSpec
INVARIANT WaitingHasChild
CHECK_DEADLOCK FALSE
