\* Two controllers, the whole interface, pushes that fail, spurious wakeups.
CONSTANTS
    ThrdCount = 2
    Controllers = {m, c}
    Main = m
    Nobody = nobody
    Ops <- AllOps
    LegacyCV = FALSE
    MayFail <- MallocFails
    MaxTasks = 3
    MaxSpurious = 1
SPECIFICATION Spec
INVARIANTS TypeOK ActiveExact ExactlyOnce NoLostWakeup NobodyStuck
PROPERTIES WaitAllTaskSound JoinDrains ImplementsTaskPool
