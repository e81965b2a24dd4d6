\* Two requests in flight; a project deleted and created again; two members.
CONSTANTS
    Clients = {c1, c2}
    Users = {root, u1}
    SysAdmins = {root}
    Projects = {p1, p2}
    KeyOf <- SameKey
    Rows = {m1, m2, m3}
    Asks = {r1, r2}
    GivenRoles = {"tester"}
    MaxSeq = 3
SPECIFICATION Spec
SYMMETRY Interchangeable
CHECK_DEADLOCK FALSE
INVARIANTS
    IInv
    ApprovedWereMembers
PROPERTIES
    KeysNotReused
    DecisionFinal
