CONSTANTS
  NoName = NoName
  Var = {a}
  Field = {f}
  Constructs = {"block", "shadow"}
  MaxDepth = 4
SPECIFICATION Spec
INVARIANT
  DefinitelyAssigned
CHECK_DEADLOCK FALSE
