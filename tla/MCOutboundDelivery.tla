-------------------------- MODULE MCOutboundDelivery --------------------------
(* Small instances of OutboundDelivery for TLC.                            *)
EXTENDS OutboundDelivery, TLC

CONSTANTS r1, r2, r3, r4, r5,      \* requests
          timeout, rejected,       \* a failure that is retried, one that is not
          null

TwoRequests   == {r1, r2}
ThreeRequests == {r1, r2, r3}
FourRequests  == {r1, r2, r3, r4}
FiveRequests  == {r1, r2, r3, r4, r5}

MCFailureKinds   == {timeout, rejected}
MCDeniedKinds    == {rejected}
MCAmbiguousKinds == {timeout}

RequestSymmetry == Permutations(Requests)
=============================================================================
