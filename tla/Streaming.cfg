SPECIFICATION FairSpec
CONSTANTS
    Volume = 7
    Rate = 2
    Stages <- EarlyAndLast
    RoundedDown <- Doubles
    MaxPending = 2
    Optimizes = TRUE
    CanBreak = TRUE
INVARIANT StagesFollowData
INVARIANT MetricIsComplete
PROPERTY EndsUnlessAborted
CHECK_DEADLOCK FALSE
