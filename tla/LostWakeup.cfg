SPECIFICATION Spec
CONSTANTS
  N_TASKS = 3
  NTimers = 1
  BootForks = 2
  ForkLimit = 0
  Delays = {1}
  Priorities = {}
  PageOutcomes = {TRUE}
  MaxLeak = 1
  MaxIrqDepth = 1
  MaxDebt = 0
  MaxLoopTicks = 0
INVARIANT BlockedIsWaiting
