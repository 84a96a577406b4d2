SPECIFICATION Spec
CONSTANTS
  NullId = 0
  MaxWritten = 3
  MaxPieces = 2
INVARIANTS
  TypeOK
  LinesKeepOrder
  RepliesMatchRequests
  EffectsInOrder
  RepliesTellOutcome
  ArgumentsChecked
PROPERTY
  RequestAnswered
\* The client may stop writing, and the bridge exits: the session then rests.
CHECK_DEADLOCK FALSE
