SPECIFICATION Spec
CONSTANTS
  ClockMod = 40
  TickInterval = 6
  GenericInterval = 3
  BootClo = {0, 1}
  MaxLag = 1
  Stray = {}
INVARIANT TypeOK
INVARIANT TimerArmed
PROPERTY TicksSpaced
PROPERTY BootEnds
PROPERTY TicksForever
