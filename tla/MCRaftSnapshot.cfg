CONSTANTS
    Nil = Nil
    ServerNames <- MCServerNames
    Objs <- MCObjs
    Ends <- MCEnds
    N = 1
    MaxGen = 1
    Clerks = {}
    Calls = {c1}
SPECIFICATION RaftSpec
INVARIANT PersistentStateSaved
