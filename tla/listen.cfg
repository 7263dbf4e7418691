SPECIFICATION FairSpec
CONSTANTS
    RetryLimits <- SomeLimits
    MaxRows = 3
    MaxForeign = 1
    MaxErrors = 2
INVARIANTS
    CommandTypeOK
    OnceHandsOnOnePerAttempt
    NothingAnnouncedIsLeft
PROPERTIES
    OnceEndsWithANotification
CHECK_DEADLOCK FALSE
