SPECIFICATION Spec
CONSTANTS
  N_TASKS = 3
  NTimers = 2
  BootForks = 1
  ForkLimit = 3
  Delays = {0, 1}
  Priorities = {2}
  PageOutcomes = {TRUE, FALSE}
  MaxLeak = 1
  MaxIrqDepth = 1
  MaxDebt = 0
  MaxLoopTicks = 0
INVARIANT TypeOK
INVARIANT SwitchedOutDisabled
INVARIANT CriticalSectionsRun
INVARIANT SwitchUnmasked
INVARIANT TimerOwnersAlive
PROPERTY ExitIsFinal
