\* One request at a time; only bulk update and revert.
CONSTANTS
    t1 = t1  t2 = t2  e1 = e1  e2 = e2  l1 = l1  s1 = s1  s2 = s2
    Task = {t1, t2}
    Equipment = {e1, e2}
    LineOf <- TwoLines
    NoLine = NoLine
    DueTasks = {}
    NoRow = NoRow
    Session = {s1}
    Endpoints = {"bulk_update", "revert"}
    Slots <- ThreeSlots
    Keep = Keep
    Fits <- AllFit
    CascadeV2 = TRUE
    MaxChangeSets = 2
    b1 = b1  b2 = b2
    BatchOf <- Apart
    CreatedAt <- Created
    Batch <- Batches
    Machine <- Machines1
    Null = Null
    DayTicks = 1
SPECIFICATION Spec
INVARIANTS MachineRunsOneTask UndoInv FreeMachinesTakeTheTask
PROPERTIES ImplementsUndoStack DiffShowsTheUndo
SYMMETRY Machines2
