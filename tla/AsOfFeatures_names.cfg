\* The matcher resolves one team to another name than the file's.
SPECIFICATION Spec
CONSTANTS
    a = a
    b = b
    c = c
    alias = alias
    Team = {a, b, c}
    Matches = 3
    LastDay = 2
    FormLength = 2
    Kind = {"full"}
    Resolve <- OneAliased
CHECK_DEADLOCK FALSE
INVARIANT TrainingRowIsLive
