CONSTANTS
    Writers = {w1, w2}
    MaxNumber = 5
    MaxTampering = 2
SPECIFICATION Spec
SYMMETRY Symmetry
CHECK_DEADLOCK FALSE
INVARIANTS NoFalseAlarm NumberOrderIsChainOrder AnchorVouches
PROPERTIES RemovalShows
