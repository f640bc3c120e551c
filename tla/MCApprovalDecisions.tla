------------------------- MODULE MCApprovalDecisions -------------------------
(* Small instances of ApprovalDecisions for TLC.                           *)
EXTENDS ApprovalDecisions, TLC

CONSTANTS r1, r2, r3, r4,     \* requests
          owner, admin,       \* memberships that may decide and assign
          alice, bob,         \* memberships that may be made responsible
          null

TwoRequests   == {r1, r2}
ThreeRequests == {r1, r2, r3}
FourRequests  == {r1, r2, r3, r4}
OneActor      == {owner}
TwoActors     == {owner, admin}
OneMember     == {alice}
TwoMembers    == {alice, bob}

PeopleSymmetry == Permutations(Requests) \cup Permutations(Actors) \cup Permutations(Members)
=============================================================================
