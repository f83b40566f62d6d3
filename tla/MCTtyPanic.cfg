\* TTY and FS send to each other: a panic stops the system.
CONSTANTS
  TASK_TTY = TASK_TTY
  TASK_FS = TASK_FS
  ANY = ANY
  INTERRUPT = INTERRUPT
  NO_TASK = NO_TASK
  sh = sh
  job = job
  User <- MCUser
  Tty <- MCTty
  TtyOf <- MCTtyOf
  Does <- OneReads
  Counts <- MCCounts
  Key <- TypingKeys
  KB_IN_BYTES = 1
  TTY_IN_BYTES = 1
CHECK_DEADLOCK FALSE
SPECIFICATION Spec
INVARIANT NoPanic
