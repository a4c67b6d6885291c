CONSTANTS
    k1 = k1
    k2 = k2
    k3 = k3
    Key = {k1, k2, k3}
    Val = {False, v}
    False = False
    Id <- MCId
    HashSize = 2
    NoEntry = NoEntry
    Freed = Freed
    MaxCells = 4
SPECIFICATION TablesSpec
INVARIANTS VisitsOnce MapFollowsWalk AssocFindsEveryKey
PROPERTIES RefinesMap AssocOthersKeep
CHECK_DEADLOCK FALSE
