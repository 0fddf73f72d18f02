CONSTANTS
    MaxBrokers = 3
    MaxSize = 2
    Initial = 2
    ReassignPartitions = "true"
    ScaleInEnabled = TRUE
    RollingUpdate = TRUE
    OnlineResize = FALSE
    MaxEdits = 2
    MaxFailures = 1
    MaxCrashes = 0
SPECIFICATION FairSpec
PROPERTIES
    EventuallySettled
CHECK_DEADLOCK FALSE
