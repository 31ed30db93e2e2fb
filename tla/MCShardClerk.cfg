CONSTANTS
    Keys <- MCKeys
    NShards = 2
    Gids = {100, 101}
    N = 2
    NMasters = 2
    MaxNum = 2
    MaxMoves = 1
    Nil = Nil
SPECIFICATION Spec
PROPERTY ReturnsExecuted
PROPERTY QueryFresh
PROPERTY OperationReturns
