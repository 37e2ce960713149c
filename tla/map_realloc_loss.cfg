CONSTANTS
    k1 = k1
    k2 = k2
    k3 = k3
    v1 = v1
    v2 = v2
    Keys = {k1, k2, k3}
    Values = {v1, v2}
    None = none
    Hash <- HashesApart
    MaxBuckets = 4
    ReallocFails = {0, 1, 2, 3}
    OtherKeys = {}
    MaxPairs = 0
SPECIFICATION Spec
PROPERTIES RefusedSetKeepsMap
