SPECIFICATION Spec
CONSTANTS
  Calls = {c1, c2}
  Replacements = {}
  Patches = {p1}
  Addrs = {a1}
  NoCall = NoCall
  NoPatch = NoPatch
  NoAddr = NoAddr
INVARIANT
  ReturnsCallbackResult
\* The clients may run out of calls: the system then rests.
CHECK_DEADLOCK FALSE
