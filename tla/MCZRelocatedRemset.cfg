SPECIFICATION RelocatedRemsetSpec
CONSTANTS
  LiveObjects = {2, 3, 4}
  Remset = {3, 4}
  MaxYoungCycles = 4
INVARIANTS
  EveryFieldScanned
  ScansAreCurrent
PROPERTIES
  MarkingEnds
