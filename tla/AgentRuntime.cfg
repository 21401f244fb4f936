\* Two workers with every kind of failure.
SPECIFICATION FairSpec
CONSTANTS
    MaxAgents = 2
    MaxBroadcasts = 2
    MaxReports = 1
    Faults = {"build", "install", "script", "panic"}
INVARIANTS
    TypeOK
    CompletionCountsOwing
    BarrierSound
    NoLostWakeup
PROPERTIES
    NoEnvelopeOverwritten
    BroadcastReturnsOrDead
    ImplementsBarrier
\* The main script may end while workers wait for a broadcast, and a
\* broadcast to a dead worker never returns.
CHECK_DEADLOCK FALSE
