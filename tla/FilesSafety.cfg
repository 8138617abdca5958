SPECIFICATION Spec
CONSTANTS
  Task = {t1, t2}
  Loaded = {t1}
  NFds = 2
  Zeroed = 1
  Stale = {0, 1}
  Host <- SmallHosts
  Path <- SomePaths
  ConfigPath <- FileAB
  TimerPath <- DevTimer
  TimerId = 255
  ReadSize = {1, 3}
INVARIANT TypeOK
INVARIANT BitmapMatchesFlags
INVARIANT ImageHoldsHost
INVARIANT OpenedByPath
INVARIANT ReadsHostFile
INVARIANT ConfigPrinted
INVARIANT ListsHostDirectory
PROPERTY NoNewStrays
PROPERTY DescriptorsStable
CHECK_DEADLOCK FALSE
