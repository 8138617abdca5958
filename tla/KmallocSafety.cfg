SPECIFICATION CarefulSpec
CONSTANTS
  Task = {t1, t2}
  HeapSize = 180
  Sizes = {1, 15, 40}
  Bitmap = {15}
  MaxCalls = 5
INVARIANT TypeOK
INVARIANT HeapTiled
INVARIANT HeadersIntact
INVARIANT FreeListLinked
CHECK_DEADLOCK FALSE
