CONSTANTS
    Keys = {k1}
    Contents = {a, b}
    NoContent = NoContent
    Operations = {"update"}
    MaxAttempts = 1
    BatchSize = 2
    Faults = {"commit", "fanout", "replay", "flip", "unknown"}
    MaxRows = 3
    MaxTransients = 1
    MaxCrashes = 1
SPECIFICATION Spec
SYMMETRY ContentSymmetry
INVARIANT Converged
INVARIANT DispatchOwnsRow
