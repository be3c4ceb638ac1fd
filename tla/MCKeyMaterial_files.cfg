SPECIFICATION Spec
CONSTANTS
  p1 = p1
  p2 = p2
  keyFile = keyFile
  none = none
  pw = pw
  NoKey = NoKey
  NoPair = NoPair
  Pairs <- MCPairs
  algorithm <- MCAlgorithm
  Paths <- MCPaths
  Passwords <- MCPasswords
  EmptyPassword = none
  Contents <- MCContents
  SignArguments <- MCSignArguments
  VerifyArguments <- MCVerifyArguments
  SignCalls = {c1, c2}
  VerifyCalls = {v1}
  MaxChanges = 2
CHECK_DEADLOCK FALSE
INVARIANTS
  TypeOK
  SignatureMatchesKey
  KeyWasConfigured
  StableKeySigns
  KnownSignerReported
