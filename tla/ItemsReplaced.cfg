\* Two files of two rows, uploaded one after the other; no fault, nobody else.
SPECIFICATION RSpec
CONSTANTS
    Lengths <- TwoRowsEach
    Prompters = {p}
    Cloners = {}
    BatchSize = 1
    MaxIndexes = 3
    Nothing = nothing
INVARIANTS
    ItemsReplaced
CHECK_DEADLOCK FALSE
