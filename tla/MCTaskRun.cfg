\* Expected to fail: RUN while the ended task is still on the CPU.
CONSTANTS
  MAX_TASKS = 2
  SleepTicks = 1
  Demos <- OneDemo
SPECIFICATION TaskRunSpec
INVARIANT SafeFromAnyContext
CHECK_DEADLOCK FALSE
