\* One uploader, one admin who reprocesses, two files, room for two jobs.
SPECIFICATION Spec
CONSTANTS
    Uploaders = {u}
    Reprocessors = {p}
    Slots = {1, 2}
    Files = 2
    FileRows <- TwoFiles
    Responding = {1}
    Attempts = 2
    MaxStalls = 0
    MaxFaults = 1
    MaxCrashes = 0
    Comparing = TRUE
INVARIANTS
    TypeOK
    FaultlessNeverFails
CHECK_DEADLOCK FALSE
