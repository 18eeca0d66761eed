\* A session that ends, a poll that holds the persona, and the end of every act.
CONSTANTS
    Acts = {a1}
    Keys = {k1}
    Personas = {x1}
    PersonaOf <- OnePersona
    Clients = {c1}
    Collectors = {r1, r2}
    Inline = FALSE
    TTL = 2
    Stale = 1
    Busy = 1
    MaxCrashes = 1
    Revocable = {a1}
    Polls = TRUE
SPECIFICATION FairSpec
INVARIANTS NotRunForAnEndedSession
PROPERTIES EveryActFinishes
