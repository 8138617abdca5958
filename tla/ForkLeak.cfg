SPECIFICATION FairSpec
CONSTANTS
  N_TASKS = 3
  NTimers = 1
  BootForks = 1
  ForkLimit = 3
  Delays = {1}
  Priorities = {}
  PageOutcomes = {TRUE, FALSE}
  MaxLeak = 1
  MaxIrqDepth = 1
  MaxDebt = 1
  MaxLoopTicks = 1
PROPERTY TimersServed
