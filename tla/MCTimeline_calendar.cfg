SPECIFICATION TimelineSpec
CONSTANTS
    Holidays = {2}
    LastMondays = {7}
    NoTime = NoTime
    MinSlack = 3
    Instants <- MCInstants
    PredEnds <- MCPredEnds
    WorkSizes = {3, 8, 30}
    Tails = {1}
    MaxTasks = 3
INVARIANTS
    WorkIsApart
    WorkIsDone
PROPERTIES
    NoSlotIsSkipped
CHECK_DEADLOCK FALSE
