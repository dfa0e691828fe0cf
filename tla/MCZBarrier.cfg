CONSTANTS
  NoAddr = NoAddr
  NoObject = NoObject
  x1 = x1
  x2 = x2
  Addr = {1, 2, 3, 4}
  Objects = {1, 2, 3}
  Slots = {x1, x2}
  Situations <- MCSituations
SPECIFICATION Spec
ACTION_CONSTRAINT LowestFirst
INVARIANTS OldToYoungIsRemembered NothingDangles
PROPERTIES ImplementsGraph HealingIsMonotonic
CHECK_DEADLOCK FALSE
