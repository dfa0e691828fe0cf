SPECIFICATION MCSpec
CONSTANTS
  k1 = k1
  k2 = k2
  k3 = k3
  Threads = {t1, t2, t3}
  Keys <- MCKeys
  Hash <- MCHash
  NoKey = NoKey
  NoAddress = NoAddress
  Workers = {w1, w2}
  Mutators = {m1}
  Forwardings = {f1, f2}
  NoForwarding = NoForwarding
  Resizes = {1, 2}
  RelocationWorkers = {w1, w2}
  Allocators = {m1, m2}
  Cpus = {"cpu"}
  SmallPage = 2
  SmallObjects = {1}
  MediumPage = 4
  MediumObjects = {3}
  LargeObjects = {5}
  MaxPages = 3
  MaxRetired = 1
  JavaThreads = {t1, t2}
  Drivers = {d1, d2}
  MaxDepth = 2
CHECK_DEADLOCK FALSE
INVARIANTS
  ResultIsForwarding
  SafepointQuiescent
  TaskCompletes
  EveryPageIsAccountedFor
  ObjectsAreSafe
  CriticalRegionsAreBlocked
PROPERTIES
  ImplementsMap
  WaitsEnd
