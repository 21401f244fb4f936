SPECIFICATION GeneratorsSpec
CONSTANTS
    Generator = {g1, g2, g3}
    MaxYields = 2
INVARIANTS
    RunningIsExecuting
    SuspensionResumedOnce
    ExecutingOrFinished
