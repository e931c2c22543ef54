SPECIFICATION Services
CONSTANTS
    Exports = {x}
    Changes = 2
    Downloads = {d}
    ExportTries = 3
    ExportStalls = 1
    ExportFaults = 2
    Restarts = 1
    Keys = {"agreement", "dashboard"}
    Readers = {g}
    Worker = w
    MaxSubmitted = 2
    CacheFaults = 1
    Raters = {a, b, c}
    Marks <- TaskMarks
    KeyTokens = 5
    Chars = {0, 20, 150, 3000}
    Lengths <- OneFile
    Prompters = {p1, p2}
    Cloners = {c}
    BatchSize = 1
    MaxIndexes = 3
    Nothing = nothing
    Tabs = {t}
    Calls = {1, 2}
    Orgs = {new}
    Newest = new
    MaxPairs = 5
    MaxLoads = 1
    NetFaults = 1
    Founder = f
    Invitee = v
    Requests = {1, 2}
    Asks <- TwoAdmins
    Accepts = {p}
    MaxMembers = 3
    Invitations = {1, 2}
INVARIANTS
    ServicesTypeOK
    RatesCohere
    DisputesMatch
    CohenIsKappa
    FleissOfEvenRows
    MoreCoverageNeverWorse
    HighRiskNeverGood
    RowsContiguous
    CloneComplete
    OwnRotationKept
    UsedOnce
    AdminRemains
PROPERTIES
    OfferSpec
    QueuedGetsReady
    CatchesUp
    RevokedGivesNone
    RoleMeantForIt
CHECK_DEADLOCK FALSE
