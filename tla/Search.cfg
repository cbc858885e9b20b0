SPECIFICATION FairSpec
CONSTANTS
    Concurrencies <- Falling
    HasTimeout = TRUE
    CanCrash = TRUE
INVARIANT NobodyStartsEarly
INVARIANT LevelsAreWhole
PROPERTY HangsOnlyAtTheBarrier
CHECK_DEADLOCK FALSE
