SPECIFICATION Spec
CONSTANTS
    Run = {w1, w2}
    Allowed = {"due"}
    Other = "other"
    Status = {"open", "wontfix"}
    Operator = {o1}
    Nothing = Nothing
    MaxTasks = 3
    MaxChanges = 2
    MaxTraces = 2
    MaxComments = 1
INVARIANTS
    FlagsHaveReasons
    RunsCanBeDeleted
PROPERTY
    FlagsGoOffWithTheReason
SYMMETRY Symmetry
CHECK_DEADLOCK FALSE
