\* Two evaluators with one page each, two rows, an import that may replace the responses.
SPECIFICATION Spec
CONSTANTS
    e1 = e1
    e2 = e2
    c1 = c1
    c2 = c2
    Evaluators = {e1, e2}
    Assigned = {e1, e2}
    Clients = {c1, c2}
    Owner <- OnePageEach
    MaxRows = 2
    Responses <- PairsOnly
    MaxImports = 2
    MaxCrashes = 1
SYMMETRY Symmetries
INVARIANTS
    TypeOK
    OneResultEach
    RankingsWhole
    QueueComplete
PROPERTY BookSpec
CHECK_DEADLOCK FALSE
