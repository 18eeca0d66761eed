CONSTANTS
    Requests = {r1, r2}
    Users = {u1, u2}
    Pairs = {}
    Calls = {c1}
    TTL = 1
    Window = 1
    MaxEpoch = 3
SPECIFICATION Spec
SYMMETRY Symmetry
INVARIANTS SignedBySeasoned SwitchInv
PROPERTIES OffByTwoForThisOn
