\* A function, two lambdas in it and one in a lambda.
SPECIFICATION Spec
CONSTANT Program <- MCProgram
INVARIANTS MarksExactly OneLevelReads
