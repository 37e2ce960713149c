CONSTANTS
    ThrdCount = 3
    Controllers = {m}
    Main = m
    Nobody = nobody
    Ops <- AllOps
    LegacyCV = FALSE
    MayFail <- CreateFailure
    MaxTasks = 2
    MaxSpurious = 0
SPECIFICATION Spec
INVARIANTS StartupCreatesAll
CHECK_DEADLOCK FALSE
