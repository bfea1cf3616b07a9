SPECIFICATION Spec
CONSTANTS
    r1 = r1
    r2 = r2
    c1 = c1
    c2 = c2
    NoRole = NoRole
    Roles <- MCRoles
    Cells <- MCCells
    SysBuilds <- MCSysBuilds
    UnionOf <- MCUnionOf
    BuildLimit = 1
    FortressLimit = 1
    MaxLevel = 2
    WarFree = 1
    GiveUpTime = 2
    BuildTime = 1
    Window = 1
    MaxTime = 5
    MaxDown = 1
    MaxRestarts = 1
INVARIANTS TypeOK   
 
CHECK_DEADLOCK FALSE
