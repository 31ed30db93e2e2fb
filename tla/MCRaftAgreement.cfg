CONSTANTS
    N = 2
    Instances <- MCInstances
    Host <- MCHost
    Indexes = {1, 2}
    Commands = {a, b}
    Nil = Nil
SPECIFICATION Spec
SYMMETRY Symmetry
INVARIANT LogsAgree
INVARIANT LogsGapFree
INVARIANT CountSound
INVARIANT NotResubmitted
INVARIANT RecountEnough
PROPERTY OneMeansAgreement
PROPERTY WaitMeansCommitted
CHECK_DEADLOCK FALSE
