\* Expected to fail: the handler inside NET's own poll.
CONSTANTS
  RX_PAGES = 4
  SW_RING = 3
  POLL_MAX = 2
  MaxFrames = 2
  MaxNested = 2
SPECIFICATION NicNestedSpec
INVARIANT FramesOnceInOrder
CHECK_DEADLOCK FALSE
