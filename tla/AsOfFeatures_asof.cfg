\* Every file of four matches of three teams on three days.
SPECIFICATION Spec
CONSTANTS
    a = a
    b = b
    c = c
    alias = alias
    Team = {a, b, c}
    Matches = 4
    LastDay = 3
    FormLength = 2
    Kind = {"full"}
    Resolve <- AsInFile
SYMMETRY Symmetry
CHECK_DEADLOCK FALSE
INVARIANT TypeOK
INVARIANT AsOfIsRebuilt
INVARIANT FormIsLatest
INVARIANT TrainingRowIsLive
