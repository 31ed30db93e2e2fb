CONSTANTS
    Nil = Nil
    ServerNames <- MCServerNames
    Objs <- MCObjs
    Ends <- MCEnds
    N = 3
    MaxGen = 2
    Clerks = {k1}
    Calls = {}
SPECIFICATION KvSpec
INVARIANT DeadInstancesIsolated
INVARIANT LinksSymmetric
PROPERTY LeaderInMinority
