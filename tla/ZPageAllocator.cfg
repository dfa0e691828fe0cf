SPECIFICATION Spec
CONSTANTS
  Nil = Nil
  Threads = {t1, t2}
  Readers = {r1}
  MediumSize = 2
  MaxCapacity = 2
  MinCapacity = 1
  InitialCapacity = 2
  Reserved = 3
  QueueCapacity = 1
  CommitMayFail = TRUE
  Requests <- SmallAndMedium
  Objects = {1, 2}
  SizeRange = 16
SYMMETRY Symmetry
INVARIANTS
  MemoryIsPartitioned
  ReadersAreSafe
PROPERTIES
  StallsAreServed
