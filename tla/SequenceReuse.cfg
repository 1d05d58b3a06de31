CONSTANTS
    Keys = {k1}
    Contents = {a}
    NoContent = NoContent
    Operations = {"update"}
    MaxAttempts = 2
    BatchSize = 2
    Faults = {"prune"}
    MaxRows = 2
    MaxTransients = 1
    MaxCrashes = 1
SPECIFICATION HistSpec
PROPERTY SequenceMonotonic
