SPECIFICATION Spec
CONSTANTS
  x = x
  a = a
  b = b
  c = c
  d = d
  Tensor <- MCTensor
  Graphs <- EveryGraph
INVARIANTS TypeOK OrderSound CycleExact Stable NamesResolved
PROPERTIES ImplementsDataflow Terminates
CHECK_DEADLOCK FALSE
