\* One request at a time.
CONSTANTS
    Clients = {c1}
    Cycles = {y1}
    TestCases = {k1}
    CycleTests = {t1}
    Attempts = {a1, a2}
    Steps = {1, 2}
    NumVersions = 2
    StepsOf <- TwoStepsOf
    RequiredOf <- OptionalInFirst
    StepInputs = {"passed", "failed"}
    OverrideInputs = {"BLOCKED"}
    MaxCycleVersion = 5
    MaxCorrections = 1
SPECIFICATION Spec
SYMMETRY Ids
CHECK_DEADLOCK FALSE
INVARIANTS
    OneOpenAttempt
    NoOpenAttemptInCompletedCycle
    AttemptRunsItsVersion
    ResultAgreesWithEvidence
PROPERTIES
    
    
    ImplementsLedger
