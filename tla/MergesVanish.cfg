CONSTANTS
    Nodes = {n1, n2, n3}
    Ties = {}
    Merges = {m1, m2}
    Calls = {c1, c2}
    Hidden = {}
    MaxTime = 2
    Mergeable <- AnyPair
    Kind <- OneKind
SPECIFICATION Spec
SYMMETRY Symmetry
CHECK_DEADLOCK FALSE
INVARIANTS NobodyVanishes
