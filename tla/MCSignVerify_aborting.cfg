SPECIFICATION Spec
CONSTANTS
  r1 = r1
  Cids = {r1}
  k1 = k1
  Keys = {k1}
  Identities = {}
  UnloadableKeys = {}
  abort = abort
  AbortingKeys = {abort}
  s1 = s1
  SignCalls = {s1}
  v1 = v1
  VerifyCalls = {v1}
  PushOutcomes = {"stored", "error", "lost"}
  MaxInterventions = 1
  NoIdentity = NoIdentity
  NoSigner = NoSigner
SYMMETRY Symmetry
CHECK_DEADLOCK FALSE
INVARIANTS
  EveryKeyTried
