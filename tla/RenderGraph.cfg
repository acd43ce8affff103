CONSTANTS
    NumberOfPasses = 3
    Attachments = {a}
    MaxStatements = 2
    NoPass = NoPass

SPECIFICATION GraphSpec

INVARIANTS LoadsHaveOneStore PreservedOnAPath
CHECK_DEADLOCK FALSE
