CONSTANTS
  NoName = NoName
  Var = {a}
  Field = {f}
  Constructs = {"block", "if", "scope", "try", "lambda", "jump", "rhs", "callee", "shadow", "field", "operand"}
  MaxDepth = 4
SPECIFICATION Spec
INVARIANTS
  VisitedReadsAssigned
  FieldsAssigned
CONSTRAINT WithoutHoles
CHECK_DEADLOCK FALSE
