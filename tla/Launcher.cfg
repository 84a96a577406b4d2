SPECIFICATION Spec
CONSTANTS
  Bridges = {b1, b2}
  Urls = {local, other}
  Default = local
  None = None
INVARIANT
  CleanupOnExit
\* The launcher exits: nothing is left to do.
CHECK_DEADLOCK FALSE
