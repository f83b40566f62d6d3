\* A line reaches its reader and nobody who reads or writes is forgotten. A panic stops the system.
CONSTANTS
  TASK_TTY = TASK_TTY
  TASK_FS = TASK_FS
  ANY = ANY
  INTERRUPT = INTERRUPT
  NO_TASK = NO_TASK
  sh = sh
  job = job
  User <- MCUser
  Tty <- MCTty
  TtyOf <- MCTtyOf
  Does <- OneReads
  Counts <- MCCounts
  Key <- EditingKeys
  KB_IN_BYTES = 1
  TTY_IN_BYTES = 1
CHECK_DEADLOCK FALSE
SPECIFICATION FairSpec
INVARIANTS TypeOK RequestsAnswered KeysNotStuck
PROPERTIES LineDelivered
