SPECIFICATION Spec
CONSTANTS
    Constraint = {"setup", "weight"}
    Seed <- MCSeed
    Patches <- MCPatches
    Tag = {"pilot"}
    Session = {s1, s2}
    Second = 4
    MaxStamps = 4
    Nobody = Nobody
    Nothing = Nothing
INVARIANTS
    RunsHaveTheirKeys
    BaselineIsASnapshot
    EveryValueIsOnRecord
CHECK_DEADLOCK FALSE
