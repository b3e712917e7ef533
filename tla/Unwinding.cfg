\* All stacks of up to 4 activations with up to 2 nested try statements each.
SPECIFICATION Spec
CONSTANTS
    Type = {Exception, IndexError}
    None = None
    MaxFrames = 4
    MaxTries = 2
INVARIANTS NoOvershoot FlatAbortsUnhandled
PROPERTIES RaiseEnds ImplementsSemantics
CHECK_DEADLOCK FALSE
