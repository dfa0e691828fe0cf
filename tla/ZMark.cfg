CONSTANTS
  MaxWorkers = 2
  StripesMax = 2
  StackSize = 1
  BufferLength = 1
  FlushMax = 1
  RebalancePeriod = 2
  Instances <- Situations
SPECIFICATION Spec
INVARIANT MarkingIsComplete
PROPERTIES MarkingEnds
