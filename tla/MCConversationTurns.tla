------------------------- MODULE MCConversationTurns -------------------------
(* Small instances of ConversationTurns for TLC.                           *)
EXTENDS ConversationTurns, TLC

CONSTANTS t1, t2, t3, t4,      \* turns
          key, event,          \* an idempotency key, an event identifier
          price, order,        \* what the customer writes
          discount,            \* a reason to hand over
          null

TwoTurns   == {t1, t2}
ThreeTurns == {t1, t2, t3}
FourTurns  == {t1, t2, t3, t4}

OneKey      == {key}
OneEvent    == {event}
OneContent  == {price}
TwoContents == {price, order}
OneReason   == {discount}
Nothing     == {}

TurnSymmetry == Permutations(Turns)
=============================================================================
