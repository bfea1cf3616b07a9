SPECIFICATION Spec
CONSTANTS
    c1 = c1
    market = market
    Conns <- MCOneConn
    Types <- MCOneType
    depot = depot
    c2 = c2
    Adds <- MCAdds
    MaxLevel = 3
    NeedWood <- MCNeedWood
    DrawCost = 1
    Limit = 2
    Firsts = 1
    BaseYield <- MCBase
    StartGold = 1
    StartWood = 3
    Trades <- MCTrades
    QueueCap = 2
    MaxOps = 4
    MaxRestarts = 0
INVARIANT SpentIsStored
CHECK_DEADLOCK FALSE
