SPECIFICATION Spec
CONSTANTS
    MaxPromises = 3
    MaxReactions = 3
    MaxDepth = 4
INVARIANTS
    DerivedHasOneObligation
    WaitsAndFollows
    AwaitGivesUpForCause
PROPERTIES
    SettledForGood
    ReactionsInOrder
CHECK_DEADLOCK FALSE
