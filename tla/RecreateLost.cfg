CONSTANTS
    Keys = {k1}
    Contents = {a, b}
    NoContent = NoContent
    Operations = {"create", "update", "delete"}
    MaxAttempts = 2
    BatchSize = 2
    Faults = {}
    MaxRows = 4
    MaxTransients = 1
    MaxCrashes = 0
SPECIFICATION Spec
SYMMETRY ContentSymmetry
INVARIANT AckedWriteSurvives
