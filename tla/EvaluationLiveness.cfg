\* Two sequential evaluators; a task that is activated once and never paused.
SPECIFICATION FairSpec
CONSTANTS
    e1 = e1
    e2 = e2
    s1 = s1
    s2 = s2
    Evaluators = {e1, e2}
    Requests = {s1, s2}
    Owner <- OneSlotEach
    Activators = {adminA}
    Pausers = {}
    MaxRows = 2
    MaxCrashes = 1
PROPERTIES
    AutoCompletes
CHECK_DEADLOCK FALSE
