\* Two requests in flight: what no interleaving can break.
CONSTANTS
    Clients = {c1, c2}
    Titles = {n1}
    StepLists = {s1, empty}
    Unusable = {empty}
    Omitted = omitted
    NumVersions = 3
    MaxRevision = 7
SPECIFICATION Spec
SYMMETRY Interchangeable
CHECK_DEADLOCK FALSE
INVARIANTS
    CurrentIsNewest
    SelectableHasApproved
    IInv
