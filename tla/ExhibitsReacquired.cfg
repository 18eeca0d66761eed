CONSTANTS
    Exhibits = {1, 2, 3}
    Lodged = {1, 2}
    Cases = {k1}
    CaseOf <- OneCase
    Due = {k1}
    BytesOf <- TwoAlike
    Requests = {r1}
    Batch <- Both
    Calls = {p1, p2}
    Named = {}
    MaxFaults = 0
SPECIFICATION Spec
SYMMETRY Symmetry
CHECK_DEADLOCK FALSE
INVARIANTS ReusedIsLive
