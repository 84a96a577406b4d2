SPECIFICATION Spec
CONSTANTS
  w1 = w1  w2 = w2  r1 = r1  r2 = r2  r3 = r3  p1 = p1
  Wsis = {w1, w2}
  Requests = {r1, r2, r3}
  Pushes = {p1}
  Silent = {r3}
  SyncModes = {TRUE, FALSE}
  AuthModes = {TRUE, FALSE}
  Trusted = {w1}
  MaxStarts = 2
  None = None
INVARIANTS
  TypeOK
  NoStrandedResponse
  FifoPerClient
  StopLeavesNothing
  NoMissedRequest
  HandledInOrder
  UntrustedGetNothing
PROPERTY ImplementsChannel
\* After its last stop() the server rests.
CHECK_DEADLOCK FALSE
