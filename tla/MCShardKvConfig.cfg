CONSTANTS
    Nil = Nil
    ServerNames <- MCServerNames
    Objs <- MCObjs
    Ends <- MCEnds
    N = 3
    MaxGen = 2
    Masters = {0}
    GroupOf <- MCGroupOf
    Clerks = {k1, mck}
    mck = mck
    Restarted = {1}
    EndMakers <- MCEndMakers
    Calls = {c1}
SPECIFICATION ShardKvSpec
INVARIANT Durability
INVARIANT GroupConnected
PROPERTY RoutedToLatest
