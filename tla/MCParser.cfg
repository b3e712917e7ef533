SPECIFICATION Spec
CONSTANTS
  Inputs <- MCInputs
  Programs <- MCPrograms
INVARIANTS
  OwnErrors
  LoopControl
PROPERTIES
  RoundTrip
  
