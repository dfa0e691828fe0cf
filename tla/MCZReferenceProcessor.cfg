CONSTANTS
  Null = Null
  Objects = {"r", "s", "t", "f", "a", "b", "y"}
  Threads = {t1, t2}
  Workers = {w1, w2}
  Situations <- Cases
SYMMETRY Symmetry
SPECIFICATION Spec
INVARIANT NothingDangles
PROPERTIES WeakNullIsFinal ReferencesAreHanded
CHECK_DEADLOCK FALSE
