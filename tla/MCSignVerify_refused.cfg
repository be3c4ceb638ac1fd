SPECIFICATION Spec
CONSTANTS
  r1 = r1
  Cids = {r1}
  k1 = k1
  Keys = {k1}
  Identities = {}
  UnloadableKeys = {}
  AbortingKeys = {}
  s1 = s1
  SignCalls = {s1}
  v1 = v1
  VerifyCalls = {v1}
  PushOutcomes = {"stored", "refused", "error", "lost"}
  MaxInterventions = 0
  NoIdentity = NoIdentity
  NoSigner = NoSigner
SYMMETRY Symmetry
CHECK_DEADLOCK FALSE
INVARIANTS
  ReturnedMeansStored
