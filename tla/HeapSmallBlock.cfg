SPECIFICATION Spec
CONSTANTS
  Task = {t1}
  HeapSize = 240
  Sizes = {15, 40}
  Bitmap = {15}
  MaxCalls = 4
INVARIANT HeadersIntact
CHECK_DEADLOCK FALSE
