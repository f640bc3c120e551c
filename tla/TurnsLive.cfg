\* Every turn ends; sessions may survive a failed reload.
SPECIFICATION FairSpec
CONSTANTS
    t1 = t1
    t2 = t2
    t3 = t3
    t4 = t4
    key = key
    event = event
    price = price
    order = order
    discount = discount
    null = null
    Turns <- ThreeTurns
    DirectKeys <- OneKey
    EventIds <- Nothing
    NoKey = null
    Contents <- OneContent
    Reasons <- OneReason
    NoReason = null
    NoTurn = null
    NoReceipt = null
    SessionSurvivesReload = TRUE
PROPERTIES
    ImplementsLedger
    TurnsEnd
CHECK_DEADLOCK FALSE    \* every turn of the instance may have ended
