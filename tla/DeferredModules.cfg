SPECIFICATION Spec
CONSTANTS
    main = main
    a = a
    b = b
    d = d
    t = t
    Module <- MCModule
    Entry = main
    Eager <- MCEager
    Deferred <- MCDeferred
    Async <- MCAsync
    MaxDepth = 5
INVARIANTS
    LazyUntilRead
    
    PreevaluatedOnce
CHECK_DEADLOCK FALSE
