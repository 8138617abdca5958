SPECIFICATION Spec
CONSTANTS
  NTasks = 2
  NThreads = 2
  NumPages = 14
  Index = {0, 1}
  VPage <- TwoPages
  Value = {0, 1}
  PreemptAt = {"mem_abort"}
INVARIANT PagesExclusive
CHECK_DEADLOCK FALSE
