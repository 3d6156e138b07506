SPECIFICATION Spec
CONSTANTS
    Locals = {0, 1}
    Refs = {1}
    ArgCounts = {1}
    MaxStmts = 1
    MaxRuns = 2
    MaxFrames = 3
    step_limit = 4
    recursion_limit = 3
INVARIANTS LiveRefsResolve CallsAreCounted
PROPERTY PanicsFindCleanup
CHECK_DEADLOCK FALSE
