\* Two requests in flight, two links, and the rows of one family.
CONSTANTS
    q1 = q1
    v1 = v1
    d1 = d1
    s1 = s1
    p1 = p1
    Clients = {c1, c2}
    Requirements = {q1}
    Releases = {v1}
    Defects = {d1}
    Scenarios = {s1}
    Plans = {p1}
    Families <- SomeFamilies
    TestCases = {k1}
    Links = {l1, l2}
SPECIFICATION Spec
SYMMETRY Interchangeable
CHECK_DEADLOCK FALSE
INVARIANTS
    IInv
    LinksResolve
