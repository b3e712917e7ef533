\* Every text of up to three of the fragments.
SPECIFICATION Spec
CONSTANT Sources <- MCSources
INVARIANTS TruePositions Faithful
PROPERTY Progress
