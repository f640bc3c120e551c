\* Two overlapping requests on the actions of one key, PostgreSQL.
SPECIFICATION Spec
CONSTANTS
    r1 = r1
    r2 = r2
    r3 = r3
    r4 = r4
    r5 = r5
    a1 = a1
    a2 = a2
    k1 = k1
    hello = hello
    goodbye = goodbye
    urgent = urgent
    later = later
    omar = omar
    none = none
    Requests <- TwoRequests
    Ids <- TwoActions
    Keys <- OneKey
    Contents <- TwoTexts
    Labels <- TwoLabels
    MaxLabels = 1
    Owners <- OneOwner
    ExpiryTimes <- OneExpiry
    MaxClock = 2
    ForeignKeys = TRUE
    None = none
SYMMETRY MCSymmetry
INVARIANTS
    CleanupSucceeds
CHECK_DEADLOCK FALSE
