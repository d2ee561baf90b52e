SPECIFICATION Spec
CONSTANTS
    Order = {1, 2, 3, 4}
    Header = {11, 12, 13}
    Groups = {"g1", "g2", "g1_B"}
    Suffixed <- MCSuffixed
    Begin <- MCBegin
    LenOf <- MCLenOf
    LotSize = 10
    Stock = {101}
    StockLen <- MCStockLen
    Places <- MCPlaces
    NewStatuses = {"planned", "in_progress"}
    MaxUpdates = 1
    Nothing = Nothing
INVARIANT
    UnassignedAsAWhole
PROPERTIES
    EnoughIsMade
    RematchNeverCosts
