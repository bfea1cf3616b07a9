SPECIFICATION Spec
CONSTANTS
    Roles = {r1, r2, r3}
    Unions = {u1, u2}
    NoRole = NoRole
    NoUnion = NoUnion
    MemberLimit = 2
SYMMETRY Symmetry
INVARIANTS TypeOK MembershipAgrees WithinLimit OfficersAreMembers MembersConsented
PROPERTIES MembershipChangesAreLegal KeepsPromise
