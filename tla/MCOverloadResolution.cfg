\* Every call of up to 2 arguments of 3 types to every name of up to 3 overloads.
SPECIFICATION Spec
CONSTANTS
  I32 = I32
  I64 = I64
  RefI32 = RefI32
  Type = {I32, I64, RefI32}
  Kind <- MCKind
  Pointee <- MCPointee
  Declarations <- MCDeclarations
  MaxOverloads = 3
  MaxArguments = 2
INVARIANTS IndicesValid ResolvesCandidates ExactWins AmbiguityTies PureGenericsBest
CHECK_DEADLOCK FALSE
