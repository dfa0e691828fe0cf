SPECIFICATION Spec
CONSTANTS
  Allocators = {a1, a2}
  Requesters = {r1, r2}
  Sizes = {1}
  HeapSize = 1
  SyncCauses = {"metadata_GC_clear_soft_refs"}
  TimerCauses = {"z_proactive"}
  ScavengeBeforeFullGC = TRUE
INVARIANTS
  OutOfMemoryIsEarned
PROPERTIES
  WaitersAreServed
