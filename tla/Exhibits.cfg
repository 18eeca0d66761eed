CONSTANTS
    Exhibits = {1, 2, 3}
    Lodged = {1}
    Cases = {k1}
    CaseOf <- OneCase
    Due = {k1}
    BytesOf <- TwoAlike
    Requests = {r1}
    Batch <- Both
    Calls = {p1, p2}
    Named = {1}
    MaxFaults = 1
SPECIFICATION Spec
SYMMETRY Symmetry
CHECK_DEADLOCK FALSE
INVARIANTS HeldIsThere RowIsTrue AlarmIsTrue OneInFlight CountedOnce SpentTogether 
PROPERTIES HoldBeatsPurge
