SPECIFICATION CoreSpec
CONSTANTS
  NR_TASKS = 3
  NR_NATIVE_PROCS = 2
  NR_PROCS = 3
  TASK_PRIO = 1
  USER_PRIO = 1
  TASK_TTY = 0
  TASK_HD = 1
  SendTo <- MCSendTo
  RecvFrom <- MCRecvFrom
  Type = {t1}
  OobSending = {FALSE}
  p1 = p1
  p2 = p2
  f1 = f1
  f2 = f2
  FsProc = {p1, p2}
  FileName = {f1, f2}
  TtyName = tty
  TarName = tar
  DotName = dot
  NoName = none
  NR_CONSOLES = 1
  NR_FILES = 1
  NR_FILE_DESC = 2
  NR_INODE = 3
  NR_DEFAULT_FILE_SECTS = 2
  INSTALL_START = 7
  INSTALL_NR_SECTS = 2
  NrInodes = 6
  NrSects = 9
  DirSlots = 6
  MaxRef = 2
  MaxFailures = 1
SYMMETRY FsSymmetry
CONSTRAINT OneWhenTorn
INVARIANTS
  TypeOK
  KernelAssertionsHold
  RunsOnlyRunnable
  QueuesAndFlagsAgree
  NoLostWakeup
  NoSendCycle
  ReferencesExact
  DiskConsistent
PROPERTIES DeliveryExact
