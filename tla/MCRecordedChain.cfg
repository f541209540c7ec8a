SPECIFICATION Spec
CONSTANTS
    Runs = {1, 2, 3}
    Readers = {r1}
INVARIANTS
    HandlesFollowTheirFile
PROPERTIES
    FailureIsHarmless
    DestinationIsProtected
CHECK_DEADLOCK FALSE
