SPECIFICATION CpSpec
CONSTANTS
    Holidays = {}
    LastMondays = {}
    NoTime = NoTime
    MinSlack = 3
    Machines <- MCMachines
    WireOf <- MCWireOf
    Group <- MCGroup
    Info <- MCInfo
    DrumWorks = {}
    Bases = {}
    Never = 99999
    Winding = 1
    CompoundSetup = 1
    ColorChange = 4
    Seeds <- MCSeeds
    Work <- MCWork
    Base <- MCBase
    Started <- MCStarted
    Step = 14
    Buffer = 4
    MaxHorizon = 6
    Weights <- MCWeights
    Assignments <- MCAssignments
    None = None
INVARIANTS
    NoMachineTwice
    FirstDrumBefore
    EveryDrumOnce
    PhasesKeepEarlierOnes
CHECK_DEADLOCK FALSE
