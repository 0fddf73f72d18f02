CONSTANTS
    Configs = {"k1", "k2"}
    Clusters = {"DC1", "dc2"}
    Regions = {"", "dc2"}
    Asked = {"every", "first", "second"}
    FlowEnabled = FALSE
    MaxEdits = 2
    MaxUpsets = 1
SPECIFICATION FairSpec
INVARIANTS
    RolledOutAtRest
    ProcessedMeansMerged
PROPERTIES
    NothingTaken
    DeploymentsFollow
    ConfigsProcessed
CHECK_DEADLOCK FALSE
