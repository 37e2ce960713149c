\* Two clients; datagrams are lost, overtake each other and are duplicated.  When the
\* clients have ended the server waits.
CONSTANTS
    Clients = {c1, c2}
    None = none
    Rounds = 2
    MaxDups = 1
    Faults = TRUE
SPECIFICATION Spec
INVARIANTS TypeOK OwnAnswer InStep Owed
PROPERTIES Finishes
CHECK_DEADLOCK FALSE
