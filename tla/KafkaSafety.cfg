CONSTANTS
    N = 2
    Kraft = TRUE
    RollingUpdate = TRUE
    WaitForPodsReady = TRUE
    AutoRestart = TRUE
    Reverts = FALSE
    MaxSpec = 2
    MaxAnn = 2
    MaxSecret = 2
    MaxFailures = 1
    MaxCrashes = 1
    MaxLosses = 1
SPECIFICATION Spec
INVARIANTS
    BrokersFollowSpec
    ServicesFollowSecret
    SuccessMeansUniform
    SyncedBeforeRestart
CHECK_DEADLOCK FALSE
