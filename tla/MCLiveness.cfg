SPECIFICATION Spec
CONSTANT Bodies <- FamilyBodies
INVARIANTS WaitingCovers BelowEverySolution LiveOutIsPathLiveness
PROPERTIES Terminates ImplementsPromise
CHECK_DEADLOCK FALSE
