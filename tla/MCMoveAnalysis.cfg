SPECIFICATION Spec
CONSTANT Bodies <- FamilyBodies
INVARIANTS NoMissedMove
CHECK_DEADLOCK FALSE
