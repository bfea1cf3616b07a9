SPECIFICATION Spec
CONSTANTS
    c1 = c1
    c2 = c2
    market = market
    depot = depot
    Conns <- MCConns
    Types <- MCTypes
    Adds <- MCAdds
    MaxLevel = 3
    NeedWood <- MCNeedWood
    DrawCost = 1
    Limit = 2
    Firsts = 1
    BaseYield <- MCBase
    StartGold = 1
    StartWood = 3
    Trades <- MCTrades
    QueueCap = 2
    MaxOps = 4
    MaxRestarts = 1
SYMMETRY MCSymmetry
INVARIANTS TypeOK NoFreeUpgrade
CHECK_DEADLOCK FALSE
