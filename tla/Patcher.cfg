SPECIFICATION Spec
CONSTANTS
  osc = osc  comment = comment
  Addrs = {a1, a2, a3}
  Names = {n1, n2}
  Empty = Empty
  Classes = {osc, comment}
  Content = {comment}
  Ins <- InsOf
  Outs <- OutsOf
  Attrs = {hidden}
  NoAddr = NoAddr
  MaxBoxes = 2
  MaxLines = 2
SYMMETRY Symmetry
VIEW View
INVARIANTS
  TypeOK
  ChangesMarkDirty
PROPERTIES
  RepliesAreTrue
  LinesStay
  ReplaceKeeps
