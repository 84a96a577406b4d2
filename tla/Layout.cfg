SPECIFICATION Spec
CONSTANTS
  boxA = boxA  boxB = boxB  boxC = boxC
  Gap = 1
  Grid = 3
  Margin = 4
  MaxRadius = 6
  Origin = 4
  Inset = 1
  Boxes = {boxA, boxB, boxC}
  Patches <- MCPatches
  Ins <- MCIns
  Outs <- MCOuts
  Undrawn = {boxC}
  CordSets <- MCCordSets
  Groups <- MCGroups
  Scopes <- MCScopes
  Epsilons = {0, 1, 2}
  CheckSets <- MCCheckSets
  Sizes = {2, 6}
  NearPoints <- MCNearPoints
INVARIANTS
  TypeOK
  AppliedAlignmentHolds
  NubsMeet
  PlacedIsClear
  ReportMatchesPicture
\* The client has carried out the advice it asked for.
CHECK_DEADLOCK FALSE
