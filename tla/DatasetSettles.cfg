\* One upload, two faults of the storage or Redis and one restart, at any moment.
SPECIFICATION FairSpec
CONSTANTS
    Uploaders = {u}
    Reprocessors = {}
    Slots = {1, 2}
    Files = 1
    FileRows <- OneFile
    Responding = {1}
    Attempts = 2
    MaxStalls = 1
    MaxFaults = 2
    MaxCrashes = 1
    Comparing = FALSE
INVARIANTS
    ReadyIsBacked
    ReadyHasResponses
PROPERTIES
    Settles
CHECK_DEADLOCK FALSE
