SPECIFICATION Spec
CONSTANTS
    MaxMessages = 5
    MaxRestarts = 2
INVARIANTS
    InOrderOnce
    LostOnlyInReplacement
    CountIsRepaired
CHECK_DEADLOCK FALSE
