CONSTANTS
    MaxBrokers = 4
    MaxSize = 2
    Initial = 3
    ReassignPartitions = "unset"
    ScaleInEnabled = TRUE
    RollingUpdate = TRUE
    OnlineResize = FALSE
    MaxEdits = 2
    MaxFailures = 1
    MaxCrashes = 1
SPECIFICATION Spec
INVARIANTS
    WantedBrokersUp
    ResizeOneByOne
    ScaleInTargetsExist
    ScaleInComplete
CHECK_DEADLOCK FALSE
