\* One controller, three threads: progress, under fair scheduling.
CONSTANTS
    ThrdCount = 3
    Controllers = {m}
    Main = m
    Nobody = nobody
    Ops <- AllOps
    LegacyCV = FALSE
    MayFail <- NoFailure
    MaxTasks = 2
    MaxSpurious = 1
SPECIFICATION FairSpec
PROPERTIES CallsReturn ImplementsTaskPoolFairly
