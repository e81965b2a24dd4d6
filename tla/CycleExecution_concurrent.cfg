\* Two requests in flight: what no interleaving can break.
CONSTANTS
    Clients = {c1, c2}
    Cycles = {y1}
    TestCases = {k1}
    CycleTests = {t1}
    Attempts = {a1, a2}
    Steps = {1, 2}
    NumVersions = 2
    StepsOf <- OneStepOf
    RequiredOf <- OneStepOf
    StepInputs = {"failed"}
    OverrideInputs = {"BLOCKED"}
    MaxCycleVersion = 3
    MaxCorrections = 1
SPECIFICATION Spec
SYMMETRY Interchangeable
CHECK_DEADLOCK FALSE
INVARIANTS
    EvidencePinned
    FollowUpsHaveHistory
    AttemptsInActivatedCycles
    IInv
PROPERTIES
    ClosedStaysClosed
