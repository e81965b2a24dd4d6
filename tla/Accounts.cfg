\* Two requests in flight, two accounts, two sign-ins; the first wrong password locks.
CONSTANTS
    Clients = {c1, c2}
    Users = {u1, u2}
    Sessions = {s1, s2}
    Threshold = 1
SPECIFICATION Spec
SYMMETRY Interchangeable
CHECK_DEADLOCK FALSE
INVARIANTS
    IInv
    LiveSessionsCurrent
    AdminRemains
PROPERTIES
    ActingUndisturbed
