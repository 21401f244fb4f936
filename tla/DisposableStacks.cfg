SPECIFICATION Spec
CONSTANTS
    MaxStacks = 2
    MaxResources = 3
    MaxDepth = 3
INVARIANTS
    TypeOK
    
    DisposedInReverse
    ErrorsAllReported
CHECK_DEADLOCK FALSE
