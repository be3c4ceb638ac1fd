SPECIFICATION Spec
CONSTANTS
  r1 = r1
  Cids = {r1}
  k1 = k1
  k2 = k2
  Keys = {k1, k2}
  i1 = i1
  Identities = {i1}
  bad = bad
  UnloadableKeys = {bad}
  abort = abort
  AbortingKeys = {abort}
  s1 = s1
  s2 = s2
  SignCalls = {s1, s2}
  v1 = v1
  VerifyCalls = {v1}
  PushOutcomes = {"stored", "error", "lost"}
  MaxInterventions = 1
  NoIdentity = NoIdentity
  NoSigner = NoSigner
SYMMETRY Symmetry
CHECK_DEADLOCK FALSE
INVARIANTS
  TypeOK
  KeyBeforeSignature
  PulledKeysCoverSignatures
  OneResultPerSigner
  SignThenVerify
  ReturnedMeansStored
PROPERTIES
  ImplementsLog
