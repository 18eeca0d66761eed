\* Two requests that ask, cancel, sweep and run the act themselves, and a collector.
CONSTANTS
    Acts = {a1, a2}
    Keys = {k1}
    Personas = {x1}
    PersonaOf <- OnePersona
    Clients = {c1, c2}
    Collectors = {r1}
    Inline = TRUE
    TTL = 2
    Stale = 1
    Busy = 1
    MaxCrashes = 0
    Revocable = {}
    Polls = FALSE
SPECIFICATION Spec
SYMMETRY Symmetry
INVARIANTS IInv AtMostOnce AuditAgrees OnePersonaOneRunner OutcomeIsTrue
PROPERTIES FinishedIsFinal KeepsThePromise
