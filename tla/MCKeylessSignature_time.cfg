SPECIFICATION Spec
CONSTANTS
  c1 = c1
  c2 = c2
  Calls = {c1, c2}
  r1 = r1
  r2 = r2
  Cids = {r1, r2}
  i1 = i1
  Identities = {i1}
  CertLife = 1
  TsaEnd = 2
  NotLogged = NotLogged
  MaxTime = 2
  MaxStamps = 2
SYMMETRY Symmetry
CHECK_DEADLOCK FALSE
INVARIANTS
  TypeOK
  AcceptedWasSignedInTime
  ReturnedVerifies
PROPERTIES
  StaysAccepted
