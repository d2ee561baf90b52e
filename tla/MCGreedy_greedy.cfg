SPECIFICATION Spec
CONSTANTS
    Holidays = {4}
    LastMondays = {7}
    NoTime = NoTime
    MinSlack = 3
    Machines <- MCMachines
    WireOf <- MCWireOf
    Group <- MCGroup
    Info <- MCInfo
    DrumWorks <- MCDrumWorks
    Bases <- MCBases
    Never = 99999
    Winding = 1
    CompoundSetup = 1
    ColorChange = 4
    Seeds <- MCSeeds
    WithJit = TRUE
    MaxPasses = 5
    Enabled <- MCEnabled
    Unreadable = {"8-2"}
    Params <- MCParams
    Note <- MCNote
    HoursADay <- MCHours
    B100Codes = {}
    Today = 0
INVARIANTS
    FirstDrumFirst
    AssemblyWaitsForItsCores
    CheckerAgrees
CHECK_DEADLOCK FALSE
