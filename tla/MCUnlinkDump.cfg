CONSTANTS
  LOG_SECTOR_SIZE = 4
  NR_SECTS_FOR_LOG = 4
  LOG_HEADER = 2
  DumpBytes = 4
  TMP_BYTES = 3
  MaxDumps = 1
  MaxBoots = 1
SPECIFICATION Spec
INVARIANT SomeoneToRun
CHECK_DEADLOCK FALSE
