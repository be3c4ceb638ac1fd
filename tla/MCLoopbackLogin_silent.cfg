SPECIFICATION FairSpec
CONSTANTS
  l1 = l1
  Logins = {l1}
  Nobody = Nobody
  MaxRequests = 2
  BrowserMayRaise = FALSE
CHECK_DEADLOCK FALSE
PROPERTIES
  LoginEnds
