\* A Feral drive that spends 2 of 11 units a cycle: killed once, any failure, two lives.
CONSTANTS
    Capacity = 11
    Cost = 2
    ReplicateBelow = 40
    ThrottleStart = 50
    ThrottleFloor = 5
    Aggressive = TRUE
    KillAt = 4
    MaxCopies = 2
    Faulty = TRUE
    None = None
    Window = 3
    Horizon = 2
    MaxCycles = 6
    MaxRuns = 3
    MaxLives = 2
SPECIFICATION FairSpec
INVARIANTS TypeOK ExhaustedHasCheckpoint ReplicatedMeansStored OneReplication
    ForecastsKept JudgedAtFirstChance SteadyDrainForeseen AlarmLearnt
PROPERTIES RunReturns
CHECK_DEADLOCK FALSE
