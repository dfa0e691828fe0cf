CONSTANTS
  PageStart = 256
  PageSize = 128
  FirstLevels = 2
  SecondLevelLog2 = 0
  MinBlockLog2 = 4
  MaxBlockLog2 = 6
  ObjectAlignment = 8
  ZMinFreeBlockSize = 16
  ObjectSizes = {16, 40, 64}
  MaxLiveBytes = 66
  MaxCollections = 2
  Threads = {t1, t2}
  Segments = 2
  SegmentSize = 2
  Objects = {0, 1, 3}
  StaleBits <- MCStaleBits
  MaxSeqnum = 2
  Workers = {w1}
  Mutators = {m1}
  Iterators = {i1, i2}
  NMethods = {n1, n2}
  Hash <- MCHash
  MinTableSize = 4
  PartitionSize = 2
  Unlinkers = {"old"}
  Markers = {"young"}
  MaxRegistrations = 4
  MaxRefills = 1
  MaxCycles <- MCMaxCycles
SYMMETRY MCSymmetry
SPECIFICATION MCSpec
INVARIANTS
  NothingIsHandedOutTwice
  MarksAreExact
  LiveCountIsExact
  BaseIsNearest
  CodeIsSafe
PROPERTY NothingIsLost
CHECK_DEADLOCK FALSE
