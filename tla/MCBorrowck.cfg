SPECIFICATION CheckSpec
CONSTANT Bodies <- FamilyBodies
INVARIANTS AnalysedIsUnread NoMissedConflict
PROPERTY Answers
CHECK_DEADLOCK FALSE
