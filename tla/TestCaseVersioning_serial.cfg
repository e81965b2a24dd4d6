\* One request at a time.
CONSTANTS
    Clients = {c1}
    Titles = {n1, n2}
    StepLists = {s1, s2, empty}
    Unusable = {empty}
    Omitted = omitted
    NumVersions = 3
    MaxRevision = 12
SPECIFICATION Spec
SYMMETRY Interchangeable
CHECK_DEADLOCK FALSE
INVARIANTS
    OneApproved
    ApprovedReviewable
    TitleMirrors
PROPERTIES
    ContentFixed
