\* A retried event is acknowledged although the first delivery failed.
SPECIFICATION Spec
CONSTANTS
    t1 = t1
    t2 = t2
    t3 = t3
    t4 = t4
    key = key
    event = event
    price = price
    order = order
    discount = discount
    null = null
    Turns <- TwoTurns
    DirectKeys <- OneKey
    EventIds <- OneEvent
    NoKey = null
    Contents <- OneContent
    Reasons <- OneReason
    NoReason = null
    NoTurn = null
    NoReceipt = null
    SessionSurvivesReload = FALSE
INVARIANT
    DuplicatesWereHandled
CHECK_DEADLOCK FALSE    \* every turn of the instance may have ended
