\* A dataset whose first row has a single response.
SPECIFICATION Spec
CONSTANTS
    e1 = e1
    e2 = e2
    c1 = c1
    c2 = c2
    Evaluators = {e1, e2}
    Assigned = {e1, e2}
    Clients = {c1, c2}
    Owner <- OnePageEach
    MaxRows = 2
    Responses <- ShortRowFirst
    MaxImports = 1
    MaxCrashes = 1
INVARIANTS
    EveryPairCompared
CHECK_DEADLOCK FALSE
