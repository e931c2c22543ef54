SPECIFICATION XFairSpec
CONSTANTS
    Exports = {x, y}
    Changes = 1
    Downloads = {}
    ExportTries = 2
    ExportStalls = 1
    ExportFaults = 1
    Restarts = 0
PROPERTIES
    PendingPickedUp
CHECK_DEADLOCK FALSE
