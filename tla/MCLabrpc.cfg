CONSTANTS
    Calls = {c1}
    Ends = {e1}
    ServerNames = {s1}
    Objs = {o1, o2}
    Nil = Nil
SPECIFICATION NetworkSpec
INVARIANT TypeOK
INVARIANT EchHasReceiver
INVARIANT OkMeansExecutedOnce
PROPERTY ContractSpec
PROPERTY CallReturns
PROPERTY DeadServerUnblocks
PROPERTY HandlerGoroutineExits
