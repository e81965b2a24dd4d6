\* Two cycles, one of a release, two cases and two attempts.
CONSTANTS
    k1 = k1
    k2 = k2
    r1 = r1
    r2 = r2
    y1 = y1
    g1 = g1
    d1 = d1
    Clients = {c1}
    Cycles = {y1, y2}
    TestCases = {k1, k2}
    CycleTests = {t1, t2}
    Attempts = {a1, a2}
    Steps = {1}
    NumVersions = 1
    StepsOf <- SingleStepOf
    RequiredOf <- SingleStepOf
    StepInputs = {}
    OverrideInputs = {"PASSED", "FAILED"}
    MaxCycleVersion = 2
    MaxCorrections = 0
    Requirements = {r1, r2}
    Defects = {d1}
    Groups = {g1}
    GroupOf <- OnlyFirst
    Repositories <- SomeRepositories
SPECIFICATION ReportSpec
SYMMETRY Symmetric
CHECK_DEADLOCK FALSE
INVARIANTS
    SurfacesAgree
    DrillDownAgrees
    
