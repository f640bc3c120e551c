\* Turns of one lead: one key, one event, and turns without either;
\* sessions may survive a failed reload.
SPECIFICATION Spec
CONSTANTS
    t1 = t1
    t2 = t2
    t3 = t3
    t4 = t4
    key = key
    event = event
    price = price
    order = order
    discount = discount
    null = null
    Turns <- ThreeTurns
    DirectKeys <- OneKey
    EventIds <- OneEvent
    NoKey = null
    Contents <- TwoContents
    Reasons <- OneReason
    NoReason = null
    NoTurn = null
    NoReceipt = null
    SessionSurvivesReload = TRUE
SYMMETRY TurnSymmetry
INVARIANTS
    TypeOK
    KeysRunOnce
    EventsRunOnce
    ReplaysAreCanonical
    OneActiveHandoff
CHECK_DEADLOCK FALSE    \* every turn of the instance may have ended
