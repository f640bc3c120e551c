---------------------------- MODULE MCOutboundReads ----------------------------
(* Small instances of OutboundReads for TLC.                               *)
EXTENDS OutboundReads, TLC

CONSTANTS r1, r2, r3, r4, r5,      \* requests
          timeout, rejected,       \* a failure that is retried, one that is not
          null

TwoRequests   == {r1, r2}
ThreeRequests == {r1, r2, r3}
FourRequests  == {r1, r2, r3, r4}
FiveRequests  == {r1, r2, r3, r4, r5}

MCFailureKinds   == {timeout, rejected}
MCDeniedKinds    == {rejected}
MCAmbiguousKinds == {timeout}

(* What is asked a second time adds no behaviour, an answer depends        *)
(* neither on timelines nor on archiving, and a timeline not on the        *)
(* account: the search follows one read at a time, an answer among three   *)
(* requests until its own has ended, a timeline until it is whole.         *)
OneReadAtATime ==
    /\ told.to # {} => /\ IsComposed /\ AuditCount("archived") = 0
                       /\ \E q \in Requests \ told.to : pc[q] = "new"
    /\ \A r \in told.to : pc[r] \notin {"refused", "done", "lost"}
    /\ IF IsComposed THEN timeline.entries = {} ELSE account

RequestSymmetry == Permutations(Requests)
=============================================================================
