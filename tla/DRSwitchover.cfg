CONSTANTS
    Replication = TRUE
    TopicsBackup = TRUE
    Asked = {"active", "standby", "disable"}
    MaxEdits = 2
    MaxInputs = 1
    MaxFaults = 1
SPECIFICATION FairSpec
INVARIANTS
    VerdictShownAtRest
    ActiveMeansReplicatedUnlessCut
    MirrorFollowsMode
    NothingOwedWhenDone
PROPERTY
    SwitchoverSettles
CHECK_DEADLOCK FALSE
