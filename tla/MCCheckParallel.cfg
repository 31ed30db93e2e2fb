CONSTANTS
    AllKeys = {"x", "y"}
    MinOps = 1
    MaxOps = 3
    MaxTime = 4
    Histories <- MCHistories
SPECIFICATION Spec
INVARIANT PartitionsSuffice
INVARIANT VerdictCorrect
INVARIANT LongestNotRaced
PROPERTY Answers
PROPERTY GoroutinesEnd
