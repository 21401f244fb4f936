SPECIFICATION ExpressionsSpec
CONSTANTS
    Programs <- MCPrograms
INVARIANTS
    OrderOfEvaluation
    EveryYieldSuspends
