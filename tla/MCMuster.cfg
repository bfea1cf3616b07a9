SPECIFICATION Spec
CONSTANTS
    c1 = c1
    strong = strong
    weak = weak
    None = None
    Conns <- MCConns
    Armies <- MCArmies
    Positions <- MCPosition
    Generals <- MCGenerals
    CfgOf <- MCCfgOf
    CapOf <- MCCapOf
    Cost <- MCCost
    CityCost = 2
    JiaoChang = 2
    TongShuaiTing = 2
    Counts <- MCCounts
    MaxRequests = 4
    MaxMarches = 1
INVARIANTS TypeOK NoUnpaidSoldiers WithinCap
CHECK_DEADLOCK FALSE
