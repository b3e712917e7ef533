SPECIFICATION Spec
CONSTANTS
    Program <- MCProgram
    Extends <- MCExtends
    MaxDepth = 10
INVARIANTS
    UnsafeExactly
    VisitedOnce
    ImmutableStays
