\* Two sequential evaluators, one admin who activates and one who pauses.
SPECIFICATION Spec
CONSTANTS
    e1 = e1
    e2 = e2
    s1 = s1
    s2 = s2
    Evaluators = {e1, e2}
    Requests = {s1, s2}
    Owner <- OneSlotEach
    Activators = {adminA}
    Pausers = {adminP}
    MaxRows = 2
    MaxCrashes = 1
SYMMETRY Symmetries
INVARIANTS
    TypeOK
    ServedInOrder
    NoFinalOverwritten
    CompletionJustified
PROPERTIES
    SettledStays
    OutsidersShutOut
    LedgerSpec
CHECK_DEADLOCK FALSE
