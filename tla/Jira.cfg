CONSTANTS
    d1 = d1  d2 = d2  d3 = d3  a = a  b = b  w1 = w1  w2 = w2
    Deliveries = {d1, d2}
    Events = {a, b}
    Works = {w1}
    EventOf <- OneEach
    WorkOf <- OneWork
    Tlp <- SecondHigher
    Ceiling = 2
    MaxAttempts = 2
    ReconcilePerPass = 1
    MaxLinks = 3
    MaxIssues = 2
    MaxTrouble = 1
SPECIFICATION FairSpec
CHECK_DEADLOCK FALSE
INVARIANTS OneIssuePerRef SentIsThere
PROPERTIES NoSecondPost EveryDeliverySettles
