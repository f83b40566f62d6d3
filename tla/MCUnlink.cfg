CONSTANTS
  p1 = p1
  p2 = p2
  a = a
  b = b
  c = c
  FsProc = {p1, p2}
  FileName = {a, b, c}
  TtyName = tty
  TarName = tar
  DotName = dot
  NoName = none
  NR_CONSOLES = 1
  NR_FILES = 1
  NR_FILE_DESC = 2
  NR_INODE = 3
  NR_DEFAULT_FILE_SECTS = 2
  INSTALL_START = 9
  INSTALL_NR_SECTS = 2
  NrInodes = 7
  NrSects = 11
  DirSlots = 7
  MaxRef = 2
  MaxFailures = 0
SPECIFICATION FsFilesSpec
SYMMETRY FileSymmetry
INVARIANTS UnlinkFindsEntry
CHECK_DEADLOCK FALSE
