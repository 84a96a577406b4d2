SPECIFICATION Spec
CONSTANTS
  Calls = {c1, c2}
  Replacements = {c2}
  Patches = {p1, p2}
  Addrs = {a1, a2}
  NoCall = NoCall
  NoPatch = NoPatch
  NoAddr = NoAddr
INVARIANTS
  TypeOK
  AnswerIsOwn
  StoresReachOwner
  NoLeak
PROPERTIES
  EveryCallReplied
  EveryPayloadConsumed
  ImplementsToolCalls
\* The clients may run out of calls: the system then rests.
CHECK_DEADLOCK FALSE
