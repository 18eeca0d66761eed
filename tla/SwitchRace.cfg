CONSTANTS
    Requests = {r1}
    Users = {u1, u2}
    Pairs = {p1}
    Calls = {c1, c2}
    TTL = 1
    Window = 0
    MaxEpoch = 1
SPECIFICATION Spec
SYMMETRY Symmetry
INVARIANTS SpentOnce LateDecisionIsWorthless
PROPERTIES DecidedOnce KeepsThePromise
