--------------------------- MODULE MCOutboundUpkeep ---------------------------
(* Small instances of OutboundUpkeep for TLC.                              *)
EXTENDS OutboundUpkeep, TLC

CONSTANTS r1, r2, r3, r4, r5, a1, a2, k1, hello, goodbye, urgent, later, omar, none

TwoRequests   == {r1, r2}
ThreeRequests == {r1, r2, r3}
FourRequests  == {r1, r2, r3, r4}
FiveRequests  == {r1, r2, r3, r4, r5}
OneAction  == {a1}
TwoActions == {a1, a2}
OneKey  == {k1}
OneText == {hello}
TwoTexts == {hello, goodbye}
TwoLabels == {urgent, later}
OneOwner == {omar}
OneExpiry == {1}

MCSymmetry == Permutations(Requests) \cup Permutations(Ids) \cup Permutations(Labels)
=============================================================================
