CONSTANTS
    Nil = Nil
    ServerNames <- MCServerNames
    Objs <- MCObjs
    Ends <- MCEnds
    N = 2
    MaxGen = 1
    Clerks = {}
    Calls = {c1}
SPECIFICATION RaftSpec
INVARIANT EnabledIffConnected
INVARIANT RaftDurability
INVARIANT PersisterNotShared
