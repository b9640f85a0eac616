SPECIFICATION EditorialSpec
CONSTANTS
    Editor = {person1, person2}
    LastVersion = 3
    LastFlow = 5
CHECK_DEADLOCK FALSE
INVARIANTS EditNeverDeadlocksReviewer
