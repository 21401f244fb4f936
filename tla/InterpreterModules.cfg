SPECIFICATION Spec
CONSTANTS
    Module = {m1, m2}
    Main = main
    MaxStatements = 4
    MaxDepth = 4
INVARIANTS
    StacksMatchFrames
    EvaluatedOnce
    EndlessOnlyInCycle
CHECK_DEADLOCK FALSE
