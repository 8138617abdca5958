SPECIFICATION Spec
CONSTANTS
  NTasks = 2
  NThreads = 2
  NumPages = 22
  Index = {0, 1}
  VPage <- ThreePages
  Value = {0, 1}
  PreemptAt = {"el0_da"}
PROPERTY MappingsStay
CHECK_DEADLOCK FALSE
