SPECIFICATION Spec
CONSTANTS
    Conns = {c1, c2}
    NoConn = NoConn
    Roles = {1, 2}
    Unions = {1, 2}
    Cap = 1
    MaxRequests = 5
INVARIANTS
    TypeOK
    UnionIndexAgrees
PROPERTIES
    LogoutSparesNewLogin
    
