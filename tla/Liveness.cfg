CONSTANTS
    Keys = {k1, k2}
    Contents = {a}
    NoContent = NoContent
    Operations = {"update"}
    MaxAttempts = 2
    BatchSize = 1
    Faults = {"replay", "fanout", "undo"}
    MaxRows = 2
    MaxTransients = 1
    MaxCrashes = 1
SPECIFICATION FairSpec
PROPERTY EveryRowSettles
