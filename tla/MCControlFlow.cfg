\* Every loop may go round twice within ten events.
SPECIFICATION Spec
CONSTANTS
    Function <- MCFunction
    Value = {0, 1, 2}
    MaxEvents = 10
INVARIANTS RefusesExactly ReturnsWhenItMust
PROPERTY ImplementsSemantics
