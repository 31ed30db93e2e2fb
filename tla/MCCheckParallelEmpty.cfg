CONSTANTS
    AllKeys = {"x", "y"}
    MinOps = 0
    MaxOps = 1
    MaxTime = 4
    Histories <- MCHistories
SPECIFICATION Spec
PROPERTY OkIffEachPartition
CHECK_DEADLOCK FALSE
