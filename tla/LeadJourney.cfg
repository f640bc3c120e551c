\* Three overlapping requests of any kind on one lead, two restarts.
SPECIFICATION Spec
CONSTANTS
    r1 = r1
    r2 = r2
    r3 = r3
    r4 = r4
    lead1 = lead1
    nadia = nadia
    omar = omar
    nobody = nobody
    Requests <- ThreeRequests
    Leads <- OneLead
    FactSets <- MCFactSets
    Members <- TwoMembers
    MaxRestarts = 2
    Nobody = nobody
SYMMETRY MCSymmetry
INVARIANTS
    StatusTellsProgress
    UnqualifiedIsNotContacted
    AssignmentIsWhole
PROPERTIES
    StageFollowsMatrix
CHECK_DEADLOCK FALSE
