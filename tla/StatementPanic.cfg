\* With Interp: a panic in a statement goes to the block's cleanup edge (lib.rs:295-297).
SPECIFICATION Spec
CONSTANTS
    Locals = {0, 1}
    Refs = {1}
    ArgCounts = {1}
    MaxStmts = 1
    MaxRuns = 2
    MaxFrames = 3
    step_limit = 4
    recursion_limit = 3
PROPERTY StatementPanicsAreRouted
CHECK_DEADLOCK FALSE
