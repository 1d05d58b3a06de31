CONSTANTS
    j1 = j1
    j2 = j2
    Jobs = {j1}
    Body <- MCBody
    Cap = 1
    MaxJobsPerTick = 2
    ProgressInterval = 2
    CheckpointInterval = 3
    MaxFaults = 0
    MaxCrashes = 1
SPECIFICATION FairSpec
PROPERTY EveryJobSettles
