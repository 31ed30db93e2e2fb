CONSTANTS
    N = 3
    MaxTerm = 2
    MaxIters = 2
SPECIFICATION Spec
INVARIANT AlarmIsReal
PROPERTY NewestLeader
PROPERTY TermReached
PROPERTY NoLeaderMissed
CHECK_DEADLOCK FALSE
