SPECIFICATION Spec
CONSTANTS
  w1 = w1  w2 = w2  r1 = r1  r2 = r2  r3 = r3  p1 = p1
  Wsis = {w1}
  Requests = {r1}
  Pushes = {}
  Silent = {}
  SyncModes = {TRUE}
  AuthModes = {FALSE}
  Trusted = {w1}
  MaxStarts = 1
  None = None
PROPERTY
  StopReturns
\* After its last stop() the server rests.
CHECK_DEADLOCK FALSE
