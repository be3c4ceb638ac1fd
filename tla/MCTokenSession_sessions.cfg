SPECIFICATION Spec
CONSTANTS
  c1 = c1
  c2 = c2
  c3 = c3
  Clients = {c1, c2, c3}
  Explicit = {c3}
  Lives = {4}
  Resolution = 2
  Buffer = 2
  Default = 2
  MaxLatency = 1
  MaxTime = 2
  None = None
  Given = Given
  Absent = Absent
  Empty = Empty
  Torn = Torn
SYMMETRY Symmetry
CHECK_DEADLOCK FALSE
INVARIANTS
  TypeOK
  SessionIsReused
PROPERTIES
  AdoptedTokenIsAlive
