SPECIFICATION Spec
CONSTANTS
    u1 = u1
    u2 = u2
    c1 = c1
    c2 = c2
    p1 = p1
    p2 = p2
    p3 = p3
    NoConn = NoConn
    Users <- MCUsers
    Conns <- MCConns
    Places <- MCPlaces
    Near <- MCNear
    MaxRoles = 2
    MaxCities = 4
    MaxEntries = 5
    MaxFaults = 2
    MaxRestarts = 1
SYMMETRY MCSymmetry
CHECK_DEADLOCK FALSE
INVARIANTS
    TypeOK
    EntryIsAllOrNothing
    EnteredIsInMemory
