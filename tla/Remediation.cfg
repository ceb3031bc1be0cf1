CONSTANTS
    Modes <- AllModes
    RetryLimit = 2
    HostsOffline = TRUE
    Lag = FALSE
    MaxFaults = 2
SPECIFICATION FairSpec
CHECK_DEADLOCK FALSE
INVARIANTS
    TypeOK
    PowerOffIsGuarded
    GivenUpAfterRetries
PROPERTIES
    NodeEvictedWhenOff
    PowerOffEnds
