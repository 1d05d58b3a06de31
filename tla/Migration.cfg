CONSTANTS
    r1 = r1
    r2 = r2
    r3 = r3
    null = null
    default = default
    v1 = v1
    Rows <- MCRows
    Values <- MCValues
    Default = default
    BatchSize = 2
    MaxFaults = 2
    MaxKills = 2
    MaxWrites = 3
SPECIFICATION Spec
INVARIANT TypeOK
 
INVARIANT PhaseTruthful
CHECK_DEADLOCK FALSE
