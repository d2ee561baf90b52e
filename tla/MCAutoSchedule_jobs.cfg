SPECIFICATION FairSpec
CONSTANTS
    Batch <- MCBatch
    GroupOf <- MCGroupOf
    Headers <- MCHeaders
    InStock = {}
    DueOf <- MCDueOf
    Places <- MCPlaces
    MaxMachines = 1
    MAX_RETRIES = 1
    NewStatuses = {"planned", "in_progress"}
    Kept = Kept
INVARIANTS
    PlanIsSound
    ScheduledBatchesHaveTasks
PROPERTIES
    BoostHelpsOrLeavesNoTrace
    EveryJobEnds
