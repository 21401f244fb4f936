SPECIFICATION Spec
CONSTANTS
    Label = {a, b}
    None = None
    Kind = {"block", "while", "dowhile", "for", "forin", "forof", "switch", "labelled", "with", "try"}
    MaxDepth = 4
    MaxTicks = 2
    MaxUsing = 2
PROPERTIES
    CompletionsLand
    FinallyRuns
    ReleasedBeforeLeaving
    NoTurnAfterTimeout
