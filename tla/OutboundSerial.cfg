\* Four requests, one after the other, each told something first; one reader.
SPECIFICATION ReadSpec
CONSTANTS
    r1 = r1
    r2 = r2
    r3 = r3
    r4 = r4
    r5 = r5
    timeout = timeout
    rejected = rejected
    null = null
    Requests <- FourRequests
    MaximumAttempts = 2
    FailureKinds <- MCFailureKinds
    DeniedKinds <- MCDeniedKinds
    AmbiguousKinds <- MCAmbiguousKinds
    NoFailure = null
    NotBefore = 1
    ExpiresAt = 2
    MaxClock = 2
    MaxArchivings = 2
    Overlap = FALSE
    Strategy = "exponential"
    RetryDelay = 1
    MaximumDelay = 1
    ReadLimit = 2
SYMMETRY RequestSymmetry
CONSTRAINT OneReadAtATime
INVARIANTS
    SerialRecords
    ToldIsTrue
    HistoryExplains
PROPERTY
    ImplementsLifecycle
