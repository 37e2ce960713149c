CONSTANTS
    DefaultSize = 2
    MaxSize = 8
    Values = {v1, v2}
    Blank = blank
    None = none
SPECIFICATION Spec
INVARIANTS TypeOK
PROPERTIES ImplementsSequence
