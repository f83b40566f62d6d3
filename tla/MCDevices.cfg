CONSTANTS
  COUNT_MOD = 2
  NR_SUB_PER_PART = 3
  Mbr <- MCMbr
  Ebr <- MCEbr
  HdRequests <- MCRequests
  MayFail = TRUE
  MaxOpen = 2
  RX_PAGES = 4
  SW_RING = 3
  POLL_MAX = 2
  MaxFrames = 5
  gw = gw
  dnsh = dnsh
  h = h
  off = off
  Host = {gw, dnsh, h, off}
  NET_GW = gw
  NET_DNS = dnsh
  Outside = out
  NoIp = noip
  Answering = {gw, dnsh, h}
  PingTo = {off, out}
  Client = 6
  TASK_TTY = 0
  ARP_TABLE_MAX = 2
  ARP_RETRY_TICKS = 1
  ARP_TIMEOUT = 4
  PING_TIMEOUT = 1
  DNS_TIMEOUT = 3
  PING_MAX = 2
  SCR_WIDTH = 2
  SCR_LINES = 2
  CON_LINES = 3
  MaxLines = 4
  GFX = "GFX"
  DESKTOP = "DESKTOP"
  NoTask = "none"
  p1 = p1
  p2 = p2
  Prog = {p1, p2}
  Banks = 2
  MAX_TASKS = 3
  SleepTicks = 1
  Demos <- MCDemos
  MaxNested = 1
SPECIFICATION Spec
INVARIANTS OutputShown DiskServed FramesServed RequestsServed
PROPERTIES ScreenLent TasksKept EveryoneReturns
CHECK_DEADLOCK FALSE
