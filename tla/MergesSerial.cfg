CONSTANTS
    Nodes = {n1, n2, n3}
    Ties = {e1, e2}
    Merges = {m1, m2, m3}
    Calls = {c1}
    Hidden = {"vouch"}
    MaxTime = 3
    Mergeable <- AnyPair
    Kind <- OneKind
SPECIFICATION Spec
SYMMETRY Symmetry
CHECK_DEADLOCK FALSE
INVARIANTS Restored RetiredStaysOut RedirectIsLedger NobodyVanishes
