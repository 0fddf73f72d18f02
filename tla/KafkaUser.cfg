CONSTANTS
    Asked = {"manual", "generated", "detached", "unsupported", "bare", "foreign"}
    Authorization = TRUE
    MaxEdits = 3
    MaxVersions = 2
    MaxFaults = 2
SPECIFICATION FairSpec
INVARIANTS
    
    SuccessMeansApplied
    NoOrphan
PROPERTY
    EventuallyApplied
CHECK_DEADLOCK FALSE
