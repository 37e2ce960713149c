\* The semaphore condition variable, with the calls of client_thread.c, and threads
\* that cannot be created.  When a handle that was never written is joined the system
\* stops.
CONSTANTS
    ThrdCount = 3
    Controllers = {m}
    Main = m
    Nobody = nobody
    Ops <- ClientOps
    LegacyCV = TRUE
    MayFail <- CreateFailure
    MaxTasks = 2
    MaxSpurious = 0
SPECIFICATION FairSpec
INVARIANTS NoLostWakeup NobodyStuck
PROPERTIES CallsReturn
CHECK_DEADLOCK FALSE
