\* One request at a time: two cycles, one cloned from the other, two cases.
CONSTANTS
    Clients = {c1}
    Cycles = {y1, y2}
    TestCases = {k1, k2}
    CycleTests = {t1, t2, t3}
    Attempts = {a1}
    Steps = {1}
    NumVersions = 1
    StepsOf <- SingleStepOf
    RequiredOf <- SingleStepOf
    StepInputs = {}
    OverrideInputs = {}
    MaxCycleVersion = 4
    MaxCorrections = 0
SPECIFICATION Spec
SYMMETRY Ids
CHECK_DEADLOCK FALSE
INVARIANTS
    CaseOncePerCycle
    RunningTestsSnapshotted
