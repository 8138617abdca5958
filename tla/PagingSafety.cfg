SPECIFICATION CarefulSpec
CONSTANTS
  NTasks = 2
  NThreads = 1
  NumPages = 22
  Index = {0, 1}
  VPage <- ThreePages
  Value = {0, 1}
  PreemptAt = {"load", "el0_da", "mem_abort"}
INVARIANT TypeOK
INVARIANT PagesExclusive
INVARIANT ListMatchesTables
PROPERTY MappingsStay
PROPERTY PrivateMemory
CHECK_DEADLOCK FALSE
