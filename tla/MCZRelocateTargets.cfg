SPECIFICATION Spec
CONSTANTS
  f1 = f1
  f2 = f2
  f3 = f3
  r1 = r1
  r2 = r2
  p1 = p1
  p2 = p2
  Workers = {w1, w2}
  Pages <- MCPages
  FromPages <- MCFromPages
  Layout <- MCLayout
  ToAge <- MCToAge
  Recyclable <- MCRecyclable
  FreeSpace <- MCFreeSpace
  PageSize = 4
  MaxRelocationInFreeLists = 4
  NoPage = NoPage
INVARIANTS
  TargetsAreSafe
PROPERTIES
  RelocationEnds
