\* As loop_safety, but nothing fails and the connections are ready twice.
CONSTANTS
    Clients = {c1, c2, c3}
    None = none
    ListenFd = 3
    Fds = {4, 5, 6}
    MaxConn = 3
    SetSize = 7
    Turns = 2
    Mechanisms <- LevelLoops
    MaxIntr = 1
    Faults = FALSE
    Silent = {c1}
SPECIFICATION Spec
INVARIANTS AllWatched
PROPERTIES ClientsServed
CHECK_DEADLOCK FALSE
