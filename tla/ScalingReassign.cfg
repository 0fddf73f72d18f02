CONSTANTS
    MaxBrokers = 4
    MaxSize = 1
    Initial = 3
    ReassignPartitions = "true"
    ScaleInEnabled = TRUE
    RollingUpdate = TRUE
    OnlineResize = TRUE
    MaxEdits = 1
    MaxFailures = 0
    MaxCrashes = 0
SPECIFICATION Spec
INVARIANTS
    PartitionsReassigned
CHECK_DEADLOCK FALSE
