CONSTANTS
    n1 = n1
    n2 = n2
    t1 = t1
    e1 = e1
    e2 = e2
    Calls = {n1, n2, t1, e1, e2}
    Keys = {1, 2, 3, 4}
    Nobody = Nobody
    Kind <- MCKind
    Ids <- MCIds
    Scenarios = {{n1, n2, t1}, {n1, e1, e2}}
    MaxWait = 2
SPECIFICATION FairSpec
INVARIANT TypeOK
INVARIANT Exclusive
INVARIANT BoundedWait
INVARIANT RefusedByAnother
PROPERTY Implements
PROPERTY EveryCallReturns
