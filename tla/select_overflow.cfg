CONSTANTS
    Clients = {c1, c2}
    None = none
    ListenFd = 3
    Fds = {4, 5}
    MaxConn = 3
    SetSize = 5
    Turns = 1
    Mechanisms <- Select
    MaxIntr = 0
    Faults = FALSE
    Silent = {}
SPECIFICATION SafetySpec
INVARIANTS SelectFits
CHECK_DEADLOCK FALSE
