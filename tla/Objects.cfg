SPECIFICATION Spec
CONSTANTS
  o1 = o1  o2 = o2  q1 = q1  q2 = q2
  i1 = i1  i2 = i2  name = name
  Objs = {o1, o2}
  Patchers = {q1, q2}
  Placements <- Anywhere
  Alias <- SameAlias
  AutoId <- AutoIds
  MaxInstances = 6
  None = None
INVARIANTS
  TypeOK
  RegistryTracksPatches
  OneServer
  HandlerHasServer
PROPERTY
  MainReturns
\* Every box may have been freed: Max then rests.
CHECK_DEADLOCK FALSE
