CONSTANTS
    Keys = {k1}
    Contents = {a}
    NoContent = NoContent
    Operations = {"create", "update", "delete"}
    MaxAttempts = 1
    BatchSize = 2
    Faults = {"commit", "unreadable", "unknown", "replay", "requeue", "prune", "transient"}
    MaxRows = 2
    MaxTransients = 1
    MaxCrashes = 1
SPECIFICATION Spec
INVARIANT TypeOK
INVARIANT NoOrphanClaim
PROPERTY RevisionOnlyUp
PROPERTY Lifecycle
