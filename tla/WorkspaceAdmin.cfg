\* Two overlapping requests of any kind and an inbound event.
SPECIFICATION Spec
CONSTANTS
    r1 = r1
    r2 = r2
    r3 = r3
    mona = mona
    lena = lena
    u1 = u1
    u2 = u2
    mail_m = mail_m
    mail_l = mail_l
    mail_n = mail_n
    w1 = w1
    w2 = w2
    w3 = w3
    acme = acme
    bazar = bazar
    chic = chic
    a1 = a1
    a2 = a2
    i1 = i1
    none = none
    Requests <- TwoRequests
    Users <- FourUsers
    Emails <- ThreeEmails
    Workspaces <- ThreeWorkspaces
    Slugs <- ThreeSlugs
    AskedRoutes <- ChangingRoutes
    MaxInactive = 1
    Seed <- MCSeed
    None = none
    Accounts <- TwoAccounts
    FirstAccount = a1
    FirstWorkspace = w1
    History <- MCHistory
    InboundCalls <- OneEvent
    Retention = 1
    BatchSize = 2
    MaxClock = 2
SYMMETRY MCSymmetry
INVARIANTS
    LifecycleFollowsAudit
    NothingRetiredLetsIn
    CleanupCountsExact
    CreationIsWhole
    InstructionsByManagers
PROPERTIES
    RecentEventsKept
CHECK_DEADLOCK FALSE
