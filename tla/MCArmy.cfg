SPECIFICATION Spec
CONSTANTS
    r1 = r1
    r2 = r2
    a1 = a1
    p1 = p1
    h1 = h1
    h2 = h2
    NoRole = NoRole
    Origin = Origin
    Roles = {r1, r2}
    Armies = {a1, a2}
    Lands = {p1}
    Cities = {h1, h2}
    OwnerOf <- MCOwnerOf
    UnionOf <- MCUnionOf
    CityOf <- MCCityOf
    InitFrom <- MCInitFrom
    InitOwner <- MCInitOwner
    MaxAssigns = 3
    MaxOrders = 2
    MaxSeconds = 2
    Targets = {p1, h2}
    HoldLimit = 1
    Cap = 3
INVARIANTS TypeOK 
PROPERTIES ConquestClearsLand GivenUpIsLeft
CHECK_DEADLOCK FALSE
