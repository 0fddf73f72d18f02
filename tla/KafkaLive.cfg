CONSTANTS
    N = 3
    Kraft = TRUE
    RollingUpdate = TRUE
    WaitForPodsReady = TRUE
    AutoRestart = TRUE
    Reverts = FALSE
    MaxSpec = 1
    MaxAnn = 1
    MaxSecret = 3
    MaxFailures = 0
    MaxCrashes = 1
    MaxLosses = 0
SPECIFICATION FairSpec
PROPERTY
    EventuallyHealthy
CHECK_DEADLOCK FALSE
