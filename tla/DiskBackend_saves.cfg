SPECIFICATION DiskSpec
CONSTANTS
    Keys = {k1, k2, k3, k4}
    Capacity = 2
    MaxOps = 5
INVARIANTS BuffersConserved SavesReadTheirData FileIntact
