\* Every loop; the client may be killed, the connection reset and the server short of
\* resources at any step.  The connection ends, so the system stops.
CONSTANTS
    Total = 10
    BufSize = 3
    PipeCap = 3
    Mechanisms <- AllMechanisms
    MaxIntr = 1
SPECIFICATION Spec
INVARIANTS TypeOK EchoInOrder ClosedAfterEcho ServerAwake NoMutualWait
PROPERTIES ServerReleases ImplementsEchoSafely ImplementsEcho
CHECK_DEADLOCK FALSE
