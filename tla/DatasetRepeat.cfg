\* A reprocess after an evaluator has compared two responses of the dataset.
SPECIFICATION Spec
CONSTANTS
    Uploaders = {u}
    Reprocessors = {p}
    Slots = {1, 2}
    Files = 1
    FileRows <- OneFile
    Responding = {1}
    Attempts = 2
    MaxStalls = 1
    MaxFaults = 0
    MaxCrashes = 0
    Comparing = TRUE
INVARIANTS
    SafeToRepeat
CHECK_DEADLOCK FALSE
