\* Four tasks with a near horizon, few waves and few pushes; one has a due date; the second hour is a break.
CONSTANTS
    t1 = t1  t2 = t2  t3 = t3  t4 = t4  e1 = e1  e2 = e2  e3 = e3  l1 = l1
    Task = {t1, t2, t3, t4}
    Equipment = {e1, e2}
    LineOf <- FourTasks
    NoLine = NoLine
    DueTasks = {t3}
    NoRow = NoRow
    Plans <- UnitPlans
    Requests <- Stretched
    MaxWaves = 3
    HardTaskLimit = 3
    Margin = 3
    Rest = {1}
SPECIFICATION Spec
INVARIANTS AutoResolvedIsSound PullsMeetOverRest
PROPERTY Terminates
