SPECIFICATION Spec
CONSTANTS
  Configs <- MCConfigs
  CallKinds <- MCCallKinds
  c1 = c1
  c2 = c2
  Calls = {c1, c2}
  l1 = l1
  l2 = l2
  l3 = l3
  Logins = {l1, l2, l3}
  Initial = Initial
  None = None
  JwtLife = 2
  CertLife = 3
  MaxTime = 4
SYMMETRY Symmetry
CHECK_DEADLOCK FALSE
INVARIANTS
  TypeOK
  NoCallWithoutCredential
  LoginReplacesToken
  LoggedInStaysLoggedIn
  LostClientHasACause
PROPERTIES
  JwtOutlivesItsCall
