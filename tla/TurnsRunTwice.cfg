\* A keyed turn is stored again after its receipt was given back.
SPECIFICATION Spec
CONSTANTS
    t1 = t1
    t2 = t2
    t3 = t3
    t4 = t4
    key = key
    event = event
    price = price
    order = order
    discount = discount
    null = null
    Turns <- TwoTurns
    DirectKeys <- OneKey
    EventIds <- Nothing
    NoKey = null
    Contents <- OneContent
    Reasons <- OneReason
    NoReason = null
    NoTurn = null
    NoReceipt = null
    SessionSurvivesReload = TRUE
INVARIANT
    StoredOnce
CHECK_DEADLOCK FALSE    \* every turn of the instance may have ended
