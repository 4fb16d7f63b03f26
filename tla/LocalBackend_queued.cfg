SPECIFICATION UsedSpec
CONSTANTS
    Keys = {k1, k2, k3}
    Capacity = 2
    MaxOps = 5
INVARIANTS NoPutRaises WithinLimit PoolConserved
PROPERTIES EvictsLeastRecent ImplementsCache
