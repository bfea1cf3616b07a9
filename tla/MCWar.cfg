SPECIFICATION WarSpec
CONSTANTS
    Positions <- MCPositions
    Foes <- MCFoes
    Queues <- MCQueues
    MaxSoldiers = 3
    BaseForce <- MCForce
    BaseDefense <- MCDefense
    Growth = 1
    HarmRatio <- MCHarmRatio
    HarmUnit = 300
    Levels <- MCLevels
    MaxRound = 3
CHECK_DEADLOCK FALSE
INVARIANTS
    WarTypeOK
    ExperienceIsKills
    OutcomeIsEarned
