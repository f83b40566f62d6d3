CONSTANTS
  RwDesc = {1, 2}
  SECTOR_SIZE = 2
  FileSects = 2
  FSBUF_SECTS = 2
  MoreSects = 1
  Lengths = {1, 5}
  MaxStart = 4
  ByteValues = {1}
  KbKeys = {"a", "CAPS_LOCK", "PRINTSCREEN", "PAUSEBREAK", "ALT_R"}
  KB_IN_BYTES = 3
  MaxPresses = 3
  GFX_FB_W = 4
  GFX_FB_H = 3
  Moves <- MCMoves
  Overflows = TRUE
  MaxLost = 1
  SCREEN_W = 4
  SCREEN_H = 4
  WM_TITLE_HEIGHT = 1
  Files = Files
  TTY = TTY
  NoWindow = NoWindow
  WindowAt <- MCWindowAt
  WindowSize <- MCWindowSize
  Names = {1, 2, 3, 4}
  Devices = {2, 4}
  Slots = 8
  SectSlots = 2
  RawSlots = 8
  DirsAtBoot <- MCDirs
  ROWS = 2
  WM_EXPL_MAX_ENTRIES = 3
  WM_TERM_COLS = 5
  WM_TERM_ROWS = 3
  TermChars = {"a", "b"}
  MaxOutput = 3
  LOG_SECTOR_SIZE = 4
  NR_SECTS_FOR_LOG = 4
  LOG_HEADER = 2
  DumpBytes = 4
  TMP_BYTES = 3
  MaxDumps = 2
  MaxBoots = 2
  RtcSizes <- MCRtc
  MaxRequests = 2
  TarLengths <- MCTar
  TAR_SECTOR = 2
  CHUNK_SECTS = 2
  MaxStarts = 2
  MayRefuse = TRUE
  Line = {" ", "a"}
  LINE_MAX = 6
  NR_CONS = 2
  ConWords = 2
  WordTyped <- MCWords
  MaxWords = 5
  LABEL_MAX = 3
  NAME_MAX = 9
  QUERY_CAP = 33
  NamesAnswered <- MCNames
  RecordsSent <- MCRecords
  NxHost = {"gw", "h"}
  net_gw = "gw"
  NxAsking = {"h"}
  NxFar = {"far"}
  NX_CARD = 1
  NX_SW_RING = 2
  NX_DRAIN = 2
  NX_ARP_MAX = 2
  NX_RETRY = 1
  NX_ARP_WAIT = 2
  NX_ECHO_WAIT = 1
  NX_SEQS = 2
  MaxCommands = 2
  MaxArrivals = 2
  TASK_FS = 3
  TASK_MM = 4
  PID_INIT = 8
  Slot = {12, 13, 14}
  ANY = 50
  INTERRUPT = 55
  NO_TASK = 60
  InitForks = 1
  Calls <- MCCalls
SPECIFICATION Spec
INVARIANTS LifeTypeOK CallersAnswered OnlyExecPanics FamilyExact HoldingsExact LogFaithful RtcNotAhead
  KeysFaithful TextIsBack LineShown PingAccounted TakenAsMeant
PROPERTIES WaitReportsExited TransfersExact CommandsKept PointerFaithful WindowsAsSeen
CHECK_DEADLOCK FALSE
