----------------------------- MODULE MCLeadJourney -----------------------------
(* Small instances of LeadJourney for TLC.                                 *)
EXTENDS LeadJourney, TLC

CONSTANTS r1, r2, r3, r4, lead1, nadia, omar, nobody

ThreeRequests == {r1, r2, r3}
FourRequests  == {r1, r2, r3, r4}
OneLead == {lead1}
TwoMembers == {nadia, omar}

(* Unqualified in both modes; qualified in demo mode only; in both.        *)
MCFactSets == {{}, {"website", "job_title"}, {"contact", "website"}}

MCSymmetry == Permutations(Requests) \cup Permutations(Members)
=============================================================================
