CONSTANTS
    Calls = {c1, c2}
    v1 = v1
    v2 = v2
    Values = {v1, v2}
    Entities = {n1, n2}
    Texts = {t1}
    HitsOf <- OneHit
    MaxPastes = 1
SPECIFICATION Spec
SYMMETRY Symmetry
CHECK_DEADLOCK FALSE
INVARIANTS ElementKeepsItsRecord
