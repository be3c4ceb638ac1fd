SPECIFICATION FairSpec
CONSTANTS
  r1 = r1
  r2 = r2
  writer = writer
  other = other
  reader = reader
  Calls = {writer, other, reader}
  Cids = {r1, r2}
  Requests <- MCRequests
  Window = 1
CHECK_DEADLOCK FALSE
INVARIANTS
  TypeOK
  AnswersComplete
  PushedIsFound
  DeletedIsGone
  NoSelfWait
PROPERTIES
  CallsEnd
  ImplementsDirectory
