\* Four clients, three descriptors, two slots for poll.  When every
\* client has come and gone the server waits.
CONSTANTS
    Clients = {c1, c2, c3, c4}
    None = none
    ListenFd = 3
    Fds = {4, 5, 6}
    MaxConn = 3
    SetSize = 7
    Turns = 1
    Mechanisms <- AllLoops
    MaxIntr = 1
    Faults = TRUE
    Silent = {}
SPECIFICATION SafetySpec
INVARIANTS TypeOK OwnContext AllWatched ContextFound
PROPERTIES WholeRound
SYMMETRY Permuted
CHECK_DEADLOCK FALSE
