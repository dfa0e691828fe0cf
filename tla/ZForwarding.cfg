SPECIFICATION Spec
CONSTANTS
  Workers  = {w1, w2}
  Mutators = {m1, m2}
  Objects  = {o1, o2}
  NoThread = NoThread
  NoObject = NoObject
INVARIANTS
  CountIsHolders
  InPlaceIsExclusive
  ForwardFinds
PROPERTIES
  NobodyIsStuck
  ImplementsLease
