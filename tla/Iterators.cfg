SPECIFICATION Spec
CONSTANTS
    MaxItems = 3
    MaxRemaining = 2
    MaxFrames = 2
INVARIANTS
    OneCallAtATime
    AdvancedWhileOpen
    ClosedWhileOpen
    
    ClosedInReverse
    ErrorsAreReported
CHECK_DEADLOCK FALSE
