SPECIFICATION OverlapSpec
CONSTANTS
    Roles = {r1, r2, r3}
    Unions = {u1}
    NoRole = NoRole
    NoUnion = NoUnion
    MemberLimit = 2
    MaxInFlight = 2
    MaxListed = 3
SYMMETRY Symmetry
INVARIANTS ChairmanStaysListed BoundByConsent
 
