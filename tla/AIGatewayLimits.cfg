\* Three calls of two workspaces that overlap in any order.
SPECIFICATION Spec
CONSTANTS
    c1 = c1
    c2 = c2
    c3 = c3
    w1 = w1
    w2 = w2
    null = null
    Absent = null
    Calls <- ThreeCalls
    Workspaces <- TwoWorkspaces
    Deployments <- MCDeployments
    Assignments <- MCAssignments
    Requests <- MCRequests
    Reports <- MCReports
    MaxStops = 1
SYMMETRY CallSymmetry
CHECK_DEADLOCK FALSE    \* every call of the instance may have ended
INVARIANTS
    TierWithinPolicy
    AccountedOnce
    BudgetsHold
PROPERTY
    FailureClosesSpendLimited
