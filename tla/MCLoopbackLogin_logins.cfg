SPECIFICATION PatientSpec
CONSTANTS
  l1 = l1
  l2 = l2
  Logins = {l1, l2}
  Nobody = Nobody
  MaxRequests = 3
  BrowserMayRaise = TRUE
CHECK_DEADLOCK FALSE
INVARIANTS
  TypeOK
  CodeBelongsToThisLogin
  FailureHasACause
  ServerStops
PROPERTIES
  ErrorsAreFinal
  LoginEnds
