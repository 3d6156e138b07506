SPECIFICATION Spec
CONSTANTS
    Bodies <- MCBodies
    Locals = {0, 1, 2}
    Args = {1}
    Size = 3
    MAX_ITERATIONS = 8
INVARIANTS ConstantsAreTheValues ControlFlowKeepsMeaning
CHECK_DEADLOCK FALSE
