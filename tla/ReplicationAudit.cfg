CONSTANTS
    Topics = {t1, t2, s}
    ServiceTopics = {s}
    Absent = Absent
    MaxMessages = 2
    MaxOther = 1
    MaxFaults = 1
SPECIFICATION FairSpec
INVARIANT
    PassMeansCopied
PROPERTIES
    AuditKeepsPromise
    StopsPolling
CHECK_DEADLOCK FALSE
