SPECIFICATION FairSpec
CONSTANTS
  NR_TASKS = 2
  NR_NATIVE_PROCS = 3
  NR_PROCS = 3
  TASK_PRIO = 3
  USER_PRIO = 2
  TASK_TTY = 0
  TASK_HD = 1
  SendTo <- MCSendTo
  RecvFrom <- MCRecvFrom
  Type = {t1}
  OobSending = {FALSE}
PROPERTIES
  NoStarvation ImplementsRendezvous
