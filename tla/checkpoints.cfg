SPECIFICATION CkFairSpec
CONSTANTS
    i1 = i1
    i2 = i2
    Instances <- mc_Instances
    Databases <- mc_Databases
    Interval = 2
    Skew <- mc_Skew
    MaxSkew = 1
    MaxFaults = 2
    Horizon = 4
    Nobody = Nobody
    Never = Never
INVARIANTS OneCheckpointAtATime
PROPERTIES SpacedOut CheckpointedAgain
