SPECIFICATION Spec
CONSTANTS
  r1 = r1
  r2 = r2
  Cids = {r1, r2}
  k1 = k1
  Keys = {k1}
  i1 = i1
  Identities = {i1}
  UnloadableKeys = {}
  AbortingKeys = {}
  s1 = s1
  SignCalls = {s1}
  v1 = v1
  v2 = v2
  VerifyCalls = {v1, v2}
  PushOutcomes = {"stored", "refused", "error", "lost"}
  MaxInterventions = 1
  NoIdentity = NoIdentity
  NoSigner = NoSigner
SYMMETRY Symmetry
CHECK_DEADLOCK FALSE
INVARIANTS
  ReportedSignersSigned
  VerifyIsMonotone
