CONSTANTS
    N = 3
    MayLose = {0, 1, 3}
    MaxFailures = 1
    MaxTimeouts = 2
    MaxCrashes = 1
    MaxLost = 1
SPECIFICATION FairSpec
INVARIANTS
    ZooKeeperKeptUntilMigrated
    ControllerLifetime
PROPERTIES
    BrokersNeverGoBack
    MigrationFinishesUnlessCut
CHECK_DEADLOCK FALSE
