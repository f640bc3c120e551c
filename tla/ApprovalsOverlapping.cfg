\* Four requests that overlap in any order, with one crash.
SPECIFICATION Spec
CONSTANTS
    r1 = r1
    r2 = r2
    r3 = r3
    r4 = r4
    owner = owner
    admin = admin
    alice = alice
    bob = bob
    null = null
    None = null
    Requests <- FourRequests
    Actors <- OneActor
    Members <- TwoMembers
    MaxCrashes = 1
    Overlap = TRUE
SYMMETRY PeopleSymmetry
CHECK_DEADLOCK FALSE
INVARIANTS
    SendsAreAccountedFor
    MessageMatchesStatus
    NoteFitsDecision
PROPERTIES
    DecisionsAreNotUndone
    ImplementsLifecycle
