\* Three pages, three attempts, any number of power cuts.
SPECIFICATION EmmcSpec
CONSTANTS
    NPages = 3
    Attempts = 3
INVARIANTS SuccessOnMedium FailsOnlyIfFaulty
CHECK_DEADLOCK FALSE
