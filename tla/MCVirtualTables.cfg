\* Up to four classes and four names of methods.
SPECIFICATION Spec
CONSTANTS
    Program <- MCProgram
    LastName = 4
INVARIANTS RefusesExactly CallsReachOverride FindsAncestors
