SPECIFICATION Spec
CONSTANTS
  Nil = Nil
  Threads = {t1}
  Readers = {}
  MediumSize = 2
  MaxCapacity = 4
  MinCapacity = 2
  InitialCapacity = 2
  Reserved = 8
  QueueCapacity = 1
  CommitMayFail = TRUE
  Requests <- OneLarge
  Objects = {1, 2}
  SizeRange = 16
PROPERTY
  UncommitKeepsMinCapacity
