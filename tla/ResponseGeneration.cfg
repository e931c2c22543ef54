\* One upload of two rows, one request to generate, a fault and a restart at any moment.
SPECIFICATION GFairSpec
CONSTANTS
    Uploaders = {u}
    Reprocessors = {}
    Slots = {1}
    Files = 1
    FileRows <- TwoRowFile
    Responding = {}
    Attempts = 1
    MaxStalls = 1
    MaxFaults = 1
    MaxCrashes = 1
    Comparing = FALSE
    Requesters = {q}
    GenSlots = {1}
    GenAttempts = 2
    MaxRow = 2
INVARIANTS
    GTypeOK
    OneAnswerEach
    EarlyReadyHeals
PROPERTIES
    GapsFilled
CHECK_DEADLOCK FALSE
