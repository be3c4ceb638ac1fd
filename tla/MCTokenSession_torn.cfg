SPECIFICATION Spec
CONSTANTS
  c1 = c1
  c2 = c2
  Clients = {c1, c2}
  Explicit = {}
  Lives = {5}
  Resolution = 2
  Buffer = 2
  Default = 4
  MaxLatency = 1
  MaxTime = 2
  None = None
  Given = Given
  Absent = Absent
  Empty = Empty
  Torn = Torn
SYMMETRY Symmetry
CHECK_DEADLOCK FALSE
INVARIANTS
  ConstructionSurvivesCache
