CONSTANTS
    k1 = k1
    k2 = k2
    k3 = k3
    v1 = v1
    v2 = v2
    Keys = {k1, k2, k3}
    Values = {v1, v2}
    None = none
    Hash <- Hashes
    MaxBuckets = 4
    ReallocFails = {0, 1}
    OtherKeys = {k1, k3}
    MaxPairs = 2
SPECIFICATION Spec
SYMMETRY ValuesAlike
INVARIANTS TypeOK WellPlaced MergesOther EqualExact
PROPERTIES ImplementsMap
