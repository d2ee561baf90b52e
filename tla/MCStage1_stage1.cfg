CONSTANTS
    Order <- MCOrder
    SqOf <- MCSqOf
    QtyOf <- MCQtyOf
    DrumOf <- MCQtyOf
    CoresOf <- MCCores
    DueOf <- MCDueOf
    Route <- MCRoute
    Cored = {1}
    LotOf <- MCLotOf
    Covers <- MCCovers
    LossLimit = 8
    GapDays = 3
    Files <- MCFiles
    Surveys <- MCSurveys
    Windows <- MCWindows
    Late <- MCLate
    Matching <- MCMatching
    NewStatuses = {"completed"}
    Lengths = {1}
    Bound <- MCBound
    MaxRequests = 4
    Nothing = Nothing
SPECIFICATION Spec
INVARIANTS ReferencesHold
PROPERTIES StartedWorkIsKept OrdersAreKept RunsStayAsTheyWere StockIsPromisedOnce
CHECK_DEADLOCK FALSE
