\* One evaluator whose page refetches the next item while a submit is in flight.
SPECIFICATION Spec
CONSTANTS
    e1 = e1
    e2 = e2
    s1 = s1
    s2 = s2
    Evaluators = {e1}
    Requests = {s1, s2}
    Owner <- TwoSlotsOfOne
    Activators = {adminA}
    Pausers = {}
    MaxRows = 1
    MaxCrashes = 0
PROPERTIES
    FinalStaysFinal
CHECK_DEADLOCK FALSE
