SPECIFICATION FairSpec

CONSTANTS
    Configs = {"a1", "a2"}
    Applied = {"a1"}
    Regexes = {"r"}
    MaxValue = 1
    MaxEvents = 2

INVARIANTS
    ProcessedMeansMapped
    NoEntryWithoutResource
    DeployedWithDescriptors

PROPERTIES
    OthersKept
    ResourcesSettle
    AkhqFollows

CHECK_DEADLOCK FALSE
