----------------------- MODULE ApprovalDecisionsProofs -----------------------
(***************************************************************************)
(* Proofs about ApprovalDecisions, for any set of requests, actors and     *)
(* members.                                                                *)
(***************************************************************************)
EXTENDS ApprovalDecisions, TLAPS

-----------------------------------------------------------------------------
(* The inductive invariant.                                                *)

Undecided(r) == call[r].phase \in {"loaded", "sent"}

(* One approving request at a time is on the event loop, and only those of *)
(* a lead's approval send.                                                 *)
LoopInv ==
    /\ \A r, s \in Requests :
          Busy(r) /\ Busy(s) /\ call[r].op = "approve" /\ call[s].op = "approve" => r = s
    /\ \A r \in Requests : call[r].phase = "sent" => Sends(r)

(* While an approving request is on the loop nobody else approves: what it *)
(* has found pending can at most be rejected before it commits.            *)
ApproverInv ==
    \A r \in Requests : call[r].op = "approve" /\ Undecided(r) =>
        /\ stored = 0 /\ status \in {"pending", "rejected"}
        /\ note # None => call[note].op = "reject"

(* A decided approval names its decider, and the requests whose decision   *)
(* and note are stored keep what they were called with.                    *)
DeciderInv ==
    /\ (decision = None) = (status = "pending")
    /\ decision # None => /\ call[decision].phase # "new"
                          /\ Decides(decision) /\ status = Verdict(decision)
    /\ note # None => call[note].phase # "new"

SendInv == SendsAreAccountedFor /\ MessageMatchesStatus

CoreInv == /\ TypeOK /\ LoopInv /\ ApproverInv /\ DeciderInv
           /\ SendInv /\ NoteFitsDecision

(* A request that sets an assignment sets a whole one.                     *)
WantedInv ==
    \A r \in Requests : call[r].phase # "new" =>
       /\ call[r].op = "clear" => call[r].wanted = Unassigned
       /\ call[r].op = "assign" => /\ call[r].wanted.to \in Members
                                   /\ call[r].wanted.by \in Actors
                                   /\ call[r].wanted.at = r

(* Alone in flight, a request commits against the row it has loaded.       *)
AloneInv ==
    /\ \A r, s \in Requests : Busy(r) /\ Busy(s) => r = s
    /\ \A r \in Requests : Undecided(r) => status = "pending" /\ call[r].seen = assignment

-----------------------------------------------------------------------------
(* Lemmas about the parts of a step.                                       *)

(* The actions by which a request enters all load the row.                 *)
Enter(r, c) == /\ LoadPending(r, c)
               /\ c \in Calls /\ c.phase = "new"
               /\ c.op = "approve" => LoopFree
               /\ c.op = "clear" => c.wanted = Unassigned
               /\ c.op = "assign" => /\ c.wanted.to \in Members
                                     /\ c.wanted.by \in Actors
                                     /\ c.wanted.at = r

LEMMA EveryEntry ==
    ASSUME NEW r \in Requests,
           Approve(r) \/ Reject(r) \/ AssignApproval(r) \/ ClearApproval(r)
    PROVE  \E c \in Calls : Enter(r, c)
<1> DEFINE Enters == \E c \in Calls : Enter(r, c)
<1>1. ASSUME NEW noted \in BOOLEAN, NEW op \in {"approve", "reject"},
             op = "approve" => LoopFree, LoadPending(r, Call(op, noted, Unassigned))
      PROVE  Enters
  <2>1. Call(op, noted, Unassigned) \in Calls
    BY <1>1 DEF Call, Calls, Phases, Operations, Assignments, Unassigned
  <2>2. Enter(r, Call(op, noted, Unassigned))
    BY <1>1, <2>1 DEF Enter, Call
  <2> QED
    BY <2>1, <2>2
<1>2. ASSUME NEW member \in Members, NEW actor \in Actors,
             LoadPending(r, Call("assign", FALSE, [to |-> member, by |-> actor, at |-> r]))
      PROVE  Enters
  <2> DEFINE c == Call("assign", FALSE, [to |-> member, by |-> actor, at |-> r])
  <2>1. c \in Calls
    BY DEF Call, Calls, Phases, Operations, Assignments, Unassigned
  <2>2. Enter(r, c)
    BY <1>2, <2>1 DEF Enter, Call
  <2> QED
    BY <2>1, <2>2
<1>3. ASSUME ClearApproval(r)
      PROVE  Enters
  <2>1. Call("clear", FALSE, Unassigned) \in Calls
    BY DEF Call, Calls, Phases, Operations, Assignments, Unassigned
  <2>2. Enter(r, Call("clear", FALSE, Unassigned))
    BY <1>3, <2>1 DEF Enter, Call, ClearApproval
  <2> QED
    BY <2>1, <2>2
<1> QED
  BY <1>1, <1>2, <1>3 DEF Approve, Reject, AssignApproval

(* How a request enters: pending rows are loaded, others refused.          *)
LEMMA EntryStep ==
    ASSUME TypeOK, NEW r \in Requests, NEW c \in Calls, Enter(r, c)
    PROVE  /\ call[r].phase = "new"
           /\ \A s \in Requests : s # r => call'[s] = call[s]
           /\ call'[r].op = c.op /\ call'[r].wanted = c.wanted
           /\ call'[r].phase \in {"loaded", "refused"}
           /\ call'[r].phase = "loaded" => status = "pending" /\ call'[r].seen = assignment
           /\ call' \in [Requests -> Calls]
<1>1. call \in [Requests -> Calls] /\ assignment \in Assignments
  BY DEF TypeOK
<1>2. CASE status = "pending"
  <2> DEFINE d == [c EXCEPT !.phase = "loaded", !.seen = assignment]
  <2>1. d \in Calls /\ d.op = c.op /\ d.wanted = c.wanted /\ d.phase = "loaded" /\ d.seen = assignment
    BY <1>1 DEF Calls, Phases, InFlight
  <2>2. call' = [call EXCEPT ![r] = d]
    BY <1>2 DEF Enter, LoadPending
  <2> QED
    BY <1>1, <1>2, <2>1, <2>2 DEF Enter, LoadPending
<1>3. CASE status # "pending"
  <2> DEFINE d == [c EXCEPT !.phase = "refused"]
  <2>1. d \in Calls /\ d.op = c.op /\ d.wanted = c.wanted /\ d.phase = "refused"
    BY DEF Calls, Phases, InFlight
  <2>2. call' = [call EXCEPT ![r] = d]
    BY <1>3 DEF Enter, LoadPending
  <2> QED
    BY <1>1, <1>3, <2>1, <2>2 DEF Enter, LoadPending
<1> QED
  BY <1>2, <1>3

(* A request that moves on keeps what it was called with.                  *)
LEMMA MoveStep ==
    ASSUME TypeOK, NEW r \in Requests, NEW phase \in Phases, MoveTo(r, phase)
    PROVE  /\ call' \in [Requests -> Calls]
           /\ call'[r].phase = phase
           /\ \A s \in Requests : /\ s # r => call'[s].phase = call[s].phase
                                  /\ call'[s].op = call[s].op
                                  /\ call'[s].noted = call[s].noted
                                  /\ call'[s].wanted = call[s].wanted
                                  /\ call'[s].seen = call[s].seen
BY DEF TypeOK, MoveTo, Calls

(* A crash ends the requests in flight and no other.                       *)
LEMMA CrashStep ==
    ASSUME TypeOK, Crash
    PROVE  /\ call' \in [Requests -> Calls]
           /\ \A s \in Requests : /\ call'[s].phase = IF Busy(s) THEN "lost" ELSE call[s].phase
                                  /\ call'[s].op = call[s].op
                                  /\ call'[s].noted = call[s].noted
                                  /\ call'[s].wanted = call[s].wanted
                                  /\ call'[s].seen = call[s].seen
<1>1. call \in [Requests -> Calls]
  BY DEF TypeOK
<1>2. \A s \in Requests : call[s] \in Calls /\ [call[s] EXCEPT !.phase = "lost"] \in Calls
  BY <1>1 DEF Calls, Phases
<1>3. call' = [s \in Requests |-> IF Busy(s) THEN [call[s] EXCEPT !.phase = "lost"] ELSE call[s]]
  BY DEF Crash
<1> QED
  BY <1>1, <1>2, <1>3 DEF Calls

-----------------------------------------------------------------------------
(* The invariant holds at first and is preserved.                          *)

LEMMA InitCore == Init => CoreInv
<1> SUFFICES ASSUME Init PROVE CoreInv
  OBVIOUS
<1>1. Call("clear", FALSE, Unassigned) \in Calls
  BY DEF Call, Calls, Phases, Operations, Assignments, Unassigned
<1>2. \A r \in Requests : call[r].phase = "new"
  BY DEF Init, Call
<1>3. TypeOK
  <2>1. call \in [Requests -> Calls]
    BY <1>1 DEF Init
  <2>2. assignment \in Assignments
    BY DEF Init, Assignments, Unassigned
  <2>3. 0 \in 0 .. MaxCrashes
    BY ApprovalAssumptions DEF ApprovalAssumptions
  <2> QED
    BY <2>1, <2>2, <2>3 DEF Init, TypeOK
<1>4. LoopInv /\ ApproverInv /\ DeciderInv
  BY <1>2 DEF Init, LoopInv, ApproverInv, DeciderInv, Busy, InFlight, Undecided
<1>5. ~ \E r \in Requests : call[r].phase = "sent"
  BY <1>2
<1>6. SendInv /\ NoteFitsDecision
  BY <1>5 DEF Init, SendInv, SendsAreAccountedFor, MessageMatchesStatus, NoteFitsDecision
<1> QED
  BY <1>3, <1>4, <1>6 DEF CoreInv

(* A request enters: nothing but its own call changes.                     *)
LEMMA EntryCore ==
    ASSUME CoreInv, NEW r \in Requests, NEW c \in Calls, Enter(r, c)
    PROVE  CoreInv'
<1> USE DEF Busy, InFlight
<1>0. TypeOK
  BY DEF CoreInv
<1>1. /\ call[r].phase = "new"
      /\ \A s \in Requests : s # r => call'[s] = call[s]
      /\ call'[r].op = c.op
      /\ call'[r].phase \in {"loaded", "refused"}
      /\ call'[r].phase = "loaded" => status = "pending"
      /\ call' \in [Requests -> Calls]
  BY <1>0, EntryStep
<1>2. /\ UNCHANGED <<ofLead, status, decision, note, assignment, stored, sends, wasted, crashes>>
      /\ c.op = "approve" => LoopFree
  BY DEF Enter, LoadPending, row
<1>3. TypeOK'
  BY <1>0, <1>1, <1>2 DEF TypeOK
<1>4. LoopInv'
  BY <1>1, <1>2 DEF CoreInv, LoopInv, LoopFree, Sends
<1>5. note # None => decision # None /\ status # "pending"
  BY DEF CoreInv, DeciderInv, NoteFitsDecision
<1>6. decision # r /\ note # r
  BY <1>1, ApprovalAssumptions DEF CoreInv, DeciderInv
<1>7. /\ decision # None => decision \in Requests /\ call'[decision] = call[decision]
      /\ note # None => note \in Requests /\ call'[note] = call[note]
  BY <1>0, <1>1, <1>6 DEF TypeOK
<1>11. ApproverInv'
  BY <1>1, <1>2, <1>5, <1>7 DEF CoreInv, ApproverInv, Undecided, SendInv, MessageMatchesStatus, TypeOK,
                    SendsAreAccountedFor
<1>8. DeciderInv' /\ NoteFitsDecision'
  BY <1>2, <1>7 DEF CoreInv, DeciderInv, NoteFitsDecision, Decides, Verdict
<1>9. (\E s \in Requests : call'[s].phase = "sent") <=> (\E s \in Requests : call[s].phase = "sent")
  BY <1>1
<1>10. SendInv'
  BY <1>2, <1>9 DEF CoreInv, SendInv, SendsAreAccountedFor, MessageMatchesStatus
<1> QED
  BY <1>3, <1>4, <1>8, <1>10, <1>11 DEF CoreInv

(* The message of an approving request leaves.                             *)
LEMMA SendCore ==
    ASSUME CoreInv, NEW r \in Requests, Send(r)
    PROVE  CoreInv'
<1> USE DEF Busy, InFlight
<1>0. TypeOK
  BY DEF CoreInv
<1>1. /\ call' \in [Requests -> Calls] /\ call'[r].phase = "sent"
      /\ \A s \in Requests : /\ s # r => call'[s].phase = call[s].phase
                             /\ call'[s].op = call[s].op
                             /\ call'[s].noted = call[s].noted
  <2>1. MoveTo(r, "sent") /\ "sent" \in Phases
    BY DEF Send, Phases
  <2> QED
    BY <1>0, <2>1, MoveStep
<1>2. /\ UNCHANGED <<ofLead, status, decision, note, assignment, stored, wasted, crashes>>
      /\ sends' = sends + 1 /\ call[r].phase = "loaded" /\ Sends(r)
  BY DEF Send, row
<1>3. TypeOK'
  BY <1>0, <1>1, <1>2 DEF TypeOK
<1>4. LoopInv'
  BY <1>1, <1>2 DEF CoreInv, LoopInv, Sends
<1>5. ApproverInv'
  BY <1>0, <1>1, <1>2 DEF CoreInv, ApproverInv, TypeOK, Undecided
<1>6. DeciderInv' /\ NoteFitsDecision'
  BY <1>0, <1>1, <1>2 DEF CoreInv, TypeOK, DeciderInv, NoteFitsDecision, Decides, Verdict
<1>7. ~ \E s \in Requests : call[s].phase = "sent"
  BY <1>2 DEF CoreInv, LoopInv, Sends
<1>8. SendInv'
  BY <1>0, <1>1, <1>2, <1>7 DEF CoreInv, SendInv, SendsAreAccountedFor, MessageMatchesStatus, TypeOK
<1> QED
  BY <1>3, <1>4, <1>5, <1>6, <1>8 DEF CoreInv

(* A decision commits.                                                     *)
LEMMA DecisionCore ==
    ASSUME CoreInv, NEW r \in Requests, Commit(r), Decides(r)
    PROVE  CoreInv'
<1> USE DEF Busy, InFlight
<1>0. TypeOK
  BY DEF CoreInv
<1>1. /\ call' \in [Requests -> Calls] /\ call'[r].phase = "committed"
      /\ \A s \in Requests : /\ s # r => call'[s].phase = call[s].phase
                             /\ call'[s].op = call[s].op
                             /\ call'[s].noted = call[s].noted
  <2>1. MoveTo(r, "committed") /\ "committed" \in Phases
    BY DEF Commit, Phases
  <2> QED
    BY <1>0, <2>1, MoveStep
<1>2. /\ UNCHANGED <<ofLead, assignment, sends, wasted, crashes>>
      /\ status' = Verdict(r) /\ decision' = r
      /\ note' = IF call[r].noted THEN r ELSE note
      /\ stored' = IF Sends(r) THEN stored + 1 ELSE stored
      /\ call[r].phase = IF Sends(r) THEN "sent" ELSE "loaded"
  BY DEF Commit, RecordDecision, ReadyToCommit
<1>3. r # None
  BY ApprovalAssumptions DEF ApprovalAssumptions
<1>4. Verdict(r) \in Decided
  BY DEF Verdict, Decided
<1>5. TypeOK'
  BY <1>0, <1>1, <1>2, <1>4 DEF TypeOK
<1>6. LoopInv'
  BY <1>1, <1>2 DEF CoreInv, LoopInv, Sends
<1>7. call[r].op = "approve" => stored = 0
  BY <1>2 DEF CoreInv, ApproverInv, Undecided
<1>8. ApproverInv'
  <2> SUFFICES ASSUME NEW s \in Requests, call'[s].op = "approve", Undecided(s)'
               PROVE  /\ stored' = 0 /\ status' \in {"pending", "rejected"}
                      /\ note' # None => call'[note'].op = "reject"
    BY DEF ApproverInv
  <2>1. s # r /\ call[s].op = "approve" /\ Undecided(s)
    BY <1>1 DEF Undecided
  <2>2. stored = 0 /\ (note # None => call[note].op = "reject")
    BY <2>1 DEF CoreInv, ApproverInv
  <2>3. call[r].op = "reject"
    BY <1>2, <2>1 DEF CoreInv, LoopInv, Undecided, Decides
  <2> QED
    BY <1>0, <1>1, <1>2, <2>2, <2>3 DEF Sends, Verdict, TypeOK
<1>9. DeciderInv' /\ NoteFitsDecision'
  <2>1. DeciderInv'
    BY <1>0, <1>1, <1>2, <1>3, <1>4 DEF CoreInv, TypeOK, DeciderInv, Decides, Verdict, Decided
  <2>2. CASE call[r].noted
    BY <1>1, <1>2, <1>3, <2>1, <2>2 DEF NoteFitsDecision, Decides
  <2>3. CASE ~call[r].noted
    <3>1. note # None => /\ note \in Requests /\ Decides(note) /\ call[note].noted
                         /\ call[r].op = "approve" => call[note].op = "reject"
      BY <1>0, <1>2 DEF CoreInv, NoteFitsDecision, ApproverInv, Undecided, TypeOK
    <3> QED
      BY <1>1, <1>2, <1>3, <2>1, <2>3, <3>1 DEF NoteFitsDecision, Decides
  <2> QED
    BY <2>2, <2>3
<1>10. SendsAreAccountedFor'
  <2>1. CASE Sends(r)
    <3>1. ~ \E s \in Requests : call'[s].phase = "sent"
      BY <1>1, <1>2, <2>1 DEF CoreInv, LoopInv, Sends
    <3>2. \E s \in Requests : call[s].phase = "sent"
      BY <1>2, <2>1
    <3> QED
      BY <1>0, <1>2, <1>7, <2>1, <3>1, <3>2 DEF CoreInv, SendInv, SendsAreAccountedFor, Sends, TypeOK
  <2>2. CASE ~Sends(r)
    <3>1. (\E s \in Requests : call'[s].phase = "sent") <=> (\E s \in Requests : call[s].phase = "sent")
      BY <1>1, <1>2, <2>2
    <3> QED
      BY <1>2, <2>2, <3>1 DEF CoreInv, SendInv, SendsAreAccountedFor
  <2> QED
    BY <2>1, <2>2
<1>11. MessageMatchesStatus'
  <2>1. CASE Sends(r)
    BY <1>0, <1>2, <1>7, <2>1 DEF MessageMatchesStatus, Sends, Verdict
  <2>2. CASE call[r].op = "reject"
    BY <1>2, <2>2 DEF CoreInv, SendInv, MessageMatchesStatus, Sends, Verdict
  <2>3. CASE ~Sends(r) /\ call[r].op = "approve"
    BY <1>0, <1>2, <1>7, <2>3 DEF MessageMatchesStatus, Sends, Verdict
  <2> QED
    BY <2>1, <2>2, <2>3 DEF Decides
<1> QED
  BY <1>5, <1>6, <1>8, <1>9, <1>10, <1>11 DEF CoreInv, SendInv

(* An assignment commits.                                                  *)
LEMMA AssignmentCore ==
    ASSUME CoreInv, NEW r \in Requests, Commit(r), ~Decides(r)
    PROVE  CoreInv'
<1> USE DEF Busy, InFlight
<1>0. TypeOK
  BY DEF CoreInv
<1>1. /\ call' \in [Requests -> Calls] /\ call'[r].phase = "committed"
      /\ \A s \in Requests : /\ s # r => call'[s].phase = call[s].phase
                             /\ call'[s].op = call[s].op
                             /\ call'[s].noted = call[s].noted
  <2>1. MoveTo(r, "committed") /\ "committed" \in Phases
    BY DEF Commit, Phases
  <2> QED
    BY <1>0, <2>1, MoveStep
<1>2. /\ UNCHANGED <<ofLead, status, decision, note, stored, sends, wasted, crashes>>
      /\ SetAssignment(r)
      /\ call[r].phase = "loaded"
  BY DEF Commit, SetAssignment, ReadyToCommit, Sends, Decides
<1>3. assignment' \in Assignments
  <2>1. call[r].wanted \in Assignments /\ call[r].seen \in Assignments /\ assignment \in Assignments
    BY <1>0 DEF TypeOK, Calls
  <2> QED
    BY <1>2, <2>1 DEF SetAssignment, Written, Assignments
<1>4. TypeOK'
  BY <1>0, <1>1, <1>2, <1>3 DEF TypeOK
<1>5. LoopInv' /\ ApproverInv'
  BY <1>0, <1>1, <1>2 DEF CoreInv, LoopInv, ApproverInv, TypeOK, Undecided, Sends
<1>6. DeciderInv' /\ NoteFitsDecision'
  BY <1>0, <1>1, <1>2 DEF CoreInv, TypeOK, DeciderInv, NoteFitsDecision, Decides, Verdict
<1>7. (\E s \in Requests : call'[s].phase = "sent") <=> (\E s \in Requests : call[s].phase = "sent")
  BY <1>1, <1>2
<1>8. SendInv'
  BY <1>2, <1>7 DEF CoreInv, SendInv, SendsAreAccountedFor, MessageMatchesStatus
<1> QED
  BY <1>4, <1>5, <1>6, <1>8 DEF CoreInv

(* A commit raises.                                                        *)
LEMMA FailureCore ==
    ASSUME CoreInv, NEW r \in Requests, CommitFails(r)
    PROVE  CoreInv'
<1> USE DEF Busy, InFlight
<1>0. TypeOK
  BY DEF CoreInv
<1>1. /\ call' \in [Requests -> Calls] /\ call'[r].phase = "failed"
      /\ \A s \in Requests : /\ s # r => call'[s].phase = call[s].phase
                             /\ call'[s].op = call[s].op
                             /\ call'[s].noted = call[s].noted
  <2>1. MoveTo(r, "failed") /\ "failed" \in Phases
    BY DEF CommitFails, Phases
  <2> QED
    BY <1>0, <2>1, MoveStep
<1>2. /\ UNCHANGED <<ofLead, status, decision, note, assignment, stored, sends, crashes>>
      /\ wasted' = IF Sends(r) THEN wasted + 1 ELSE wasted
      /\ call[r].phase = IF Sends(r) THEN "sent" ELSE "loaded"
  BY DEF CommitFails, ReadyToCommit, row
<1>3. TypeOK'
  BY <1>0, <1>1, <1>2 DEF TypeOK
<1>4. LoopInv' /\ ApproverInv'
  BY <1>0, <1>1, <1>2 DEF CoreInv, LoopInv, ApproverInv, TypeOK, Undecided, Sends
<1>5. DeciderInv' /\ NoteFitsDecision'
  BY <1>0, <1>1, <1>2 DEF CoreInv, TypeOK, DeciderInv, NoteFitsDecision, Decides, Verdict
<1>6. SendsAreAccountedFor'
  <2>1. CASE Sends(r)
    <3>1. ~ \E s \in Requests : call'[s].phase = "sent"
      BY <1>1, <1>2, <2>1 DEF CoreInv, LoopInv, Sends
    <3>2. \E s \in Requests : call[s].phase = "sent"
      BY <1>2, <2>1
    <3> QED
      BY <1>0, <1>2, <2>1, <3>1, <3>2 DEF CoreInv, SendInv, SendsAreAccountedFor, TypeOK
  <2>2. CASE ~Sends(r)
    <3>1. (\E s \in Requests : call'[s].phase = "sent") <=> (\E s \in Requests : call[s].phase = "sent")
      BY <1>1, <1>2, <2>2
    <3> QED
      BY <1>2, <2>2, <3>1 DEF CoreInv, SendInv, SendsAreAccountedFor
  <2> QED
    BY <2>1, <2>2
<1>7. MessageMatchesStatus'
  BY <1>2 DEF CoreInv, SendInv, MessageMatchesStatus
<1> QED
  BY <1>3, <1>4, <1>5, <1>6, <1>7 DEF CoreInv, SendInv

(* A request is answered.                                                  *)
LEMMA AnswerCore ==
    ASSUME CoreInv, NEW r \in Requests, Answer(r)
    PROVE  CoreInv'
<1> USE DEF Busy, InFlight
<1>0. TypeOK
  BY DEF CoreInv
<1>1. PICK phase \in {"answered", "failed"} : MoveTo(r, phase)
  BY DEF Answer
<1>2. /\ call' \in [Requests -> Calls] /\ call'[r].phase = phase
      /\ \A s \in Requests : /\ s # r => call'[s].phase = call[s].phase
                             /\ call'[s].op = call[s].op
                             /\ call'[s].noted = call[s].noted
  <2>1. phase \in Phases
    BY DEF Phases
  <2> QED
    BY <1>0, <1>1, <2>1, MoveStep
<1>3. /\ UNCHANGED <<ofLead, status, decision, note, assignment, stored, sends, wasted, crashes>>
      /\ call[r].phase = "committed"
  BY DEF Answer, row
<1>4. TypeOK'
  BY <1>0, <1>2, <1>3 DEF TypeOK
<1>5. LoopInv' /\ ApproverInv'
  BY <1>0, <1>2, <1>3 DEF CoreInv, LoopInv, ApproverInv, TypeOK, Undecided, Sends
<1>6. DeciderInv' /\ NoteFitsDecision'
  BY <1>0, <1>2, <1>3 DEF CoreInv, TypeOK, DeciderInv, NoteFitsDecision, Decides, Verdict
<1>7. (\E s \in Requests : call'[s].phase = "sent") <=> (\E s \in Requests : call[s].phase = "sent")
  BY <1>2, <1>3
<1>8. SendInv'
  BY <1>3, <1>7 DEF CoreInv, SendInv, SendsAreAccountedFor, MessageMatchesStatus
<1> QED
  BY <1>4, <1>5, <1>6, <1>8 DEF CoreInv

(* The process dies.                                                       *)
LEMMA CrashCore ==
    ASSUME CoreInv, Crash
    PROVE  CoreInv'
<1> USE DEF Busy, InFlight
<1>0. TypeOK
  BY DEF CoreInv
<1>1. /\ call' \in [Requests -> Calls]
      /\ \A s \in Requests : /\ call'[s].phase = IF Busy(s) THEN "lost" ELSE call[s].phase
                             /\ call'[s].op = call[s].op
                             /\ call'[s].noted = call[s].noted
  BY <1>0, CrashStep
<1>2. /\ UNCHANGED <<ofLead, status, decision, note, assignment, stored, sends>>
      /\ wasted' = IF \E r \in Requests : call[r].phase = "sent" THEN wasted + 1 ELSE wasted
      /\ crashes' = crashes + 1 /\ crashes < MaxCrashes
  BY DEF Crash, row
<1>3. TypeOK'
  BY <1>0, <1>1, <1>2, ApprovalAssumptions DEF TypeOK, ApprovalAssumptions
<1>4. LoopInv' /\ ApproverInv'
  BY <1>1 DEF LoopInv, ApproverInv, Undecided
<1>5. DeciderInv' /\ NoteFitsDecision'
  BY <1>0, <1>1, <1>2 DEF CoreInv, TypeOK, DeciderInv, NoteFitsDecision, Decides, Verdict
<1>6. ~ \E s \in Requests : call'[s].phase = "sent"
  BY <1>1
<1>7. SendInv'
  BY <1>0, <1>2, <1>6 DEF CoreInv, SendInv, SendsAreAccountedFor, MessageMatchesStatus, TypeOK
<1> QED
  BY <1>3, <1>4, <1>5, <1>7 DEF CoreInv

LEMMA CoreStep == CoreInv /\ [Next]_vars => CoreInv'
<1> SUFFICES ASSUME CoreInv, [Next]_vars PROVE CoreInv'
  OBVIOUS
<1>1. ASSUME NEW r \in Requests, RequestStep(r)
      PROVE  CoreInv'
  <2>1. CASE Approve(r) \/ Reject(r) \/ AssignApproval(r) \/ ClearApproval(r)
    BY <2>1, EveryEntry, EntryCore
  <2>2. CASE Send(r)
    BY <2>2, SendCore
  <2>3. CASE Commit(r)
    BY <2>3, DecisionCore, AssignmentCore
  <2>4. CASE CommitFails(r)
    BY <2>4, FailureCore
  <2>5. CASE Answer(r)
    BY <2>5, AnswerCore
  <2> QED
    BY <1>1, <2>1, <2>2, <2>3, <2>4, <2>5 DEF RequestStep
<1>2. CASE Crash
  BY <1>2, CrashCore
<1>3. CASE UNCHANGED vars
  BY <1>3 DEF vars, row, CoreInv, TypeOK, LoopInv, ApproverInv, DeciderInv, SendInv, NoteFitsDecision,
              SendsAreAccountedFor, MessageMatchesStatus, Undecided, Busy, Decides, Verdict, Sends
<1> QED
  BY <1>1, <1>2, <1>3 DEF Next

-----------------------------------------------------------------------------
(* Theorems about every execution.                                         *)

LEMMA CoreHolds == Spec => []CoreInv
BY InitCore, CoreStep, PTL DEF Spec

(* Every variable has its type: rows, requests and counters stay what      *)
(* approval_decisions.py and operator_assignments.py can store.            *)
THEOREM ApprovalsAreTyped == Spec => []TypeOK
<1>1. CoreInv => TypeOK
  BY DEF CoreInv
<1> QED
  BY CoreHolds, <1>1, PTL

(* However many requests approve a lead's approval, one message is stored, *)
(* and the lead is sent nothing beyond it and the sends of the requests    *)
(* that failed or were lost (ApprovalDecisionService.approve).             *)
THEOREM SendsAreCounted == Spec => []SendsAreAccountedFor
<1>1. CoreInv => SendsAreAccountedFor
  BY DEF CoreInv, SendInv
<1> QED
  BY CoreHolds, <1>1, PTL

(* Status and stored message agree (ApprovalDecisionService.approve).      *)
THEOREM MessagesMatch == Spec => []MessageMatchesStatus
<1>1. CoreInv => MessageMatchesStatus
  BY DEF CoreInv, SendInv
<1> QED
  BY CoreHolds, <1>1, PTL

(* The note of a decided approval is its decider's, or the decider gave    *)
(* none and wrote over, or was itself, a rejection                         *)
(* (ApprovalDecisionService._record_decision).                             *)
THEOREM NotesFitDecisions == Spec => []NoteFitsDecision
<1>1. CoreInv => NoteFitsDecision
  BY DEF CoreInv
<1> QED
  BY CoreHolds, <1>1, PTL

(* No step brings the pending status back or writes one approval over      *)
(* another (_pending_scoped_approval, _set_assignment).                    *)
THEOREM DecisionsStay == Spec => DecisionsAreNotUndone
<1> DEFINE Kept == status # "pending" /\ decision' # decision =>
                      status' # "pending" /\ "rejected" \in {status, status'}
<1>1. ASSUME CoreInv, [Next]_vars
      PROVE  [Kept]_vars
  <2>1. ASSUME NEW r \in Requests, Commit(r), Decides(r)
        PROVE  Kept
    <3>1. status' = Verdict(r) /\ status' # "pending"
      BY <2>1 DEF Commit, RecordDecision, Verdict
    <3>2. CASE call[r].op = "reject"
      BY <3>1, <3>2 DEF Verdict
    <3>3. CASE call[r].op = "approve"
      <4>1. Undecided(r)
        BY <2>1 DEF Commit, ReadyToCommit, Undecided
      <4>2. status \in {"pending", "rejected"}
        BY <1>1, <3>3, <4>1 DEF CoreInv, ApproverInv
      <4> QED
        BY <3>1, <4>2
    <3> QED
      BY <2>1, <3>2, <3>3 DEF Decides
  <2>2. ASSUME NEW r \in Requests, Commit(r), ~Decides(r)
        PROVE  decision' = decision
    BY <2>2 DEF Commit, SetAssignment
  <2>3. ASSUME NEW r \in Requests, RequestStep(r), ~Commit(r)
        PROVE  decision' = decision
    BY <2>3 DEF RequestStep, Approve, Reject, AssignApproval, ClearApproval, LoadPending,
                Send, CommitFails, Answer, row
  <2>4. Crash => decision' = decision
    BY DEF Crash, row
  <2> QED
    BY <1>1, <2>1, <2>2, <2>3, <2>4 DEF Next
<1> QED
  BY CoreHolds, <1>1, PTL DEF Spec, DecisionsAreNotUndone

-----------------------------------------------------------------------------
(* Requests that overlap, and requests that do not.                        *)

LEMMA WantedStep ==
    ASSUME TypeOK, WantedInv, [Next]_vars
    PROVE  WantedInv'
<1>1. ASSUME NEW r \in Requests, NEW c \in Calls, Enter(r, c)
      PROVE  WantedInv'
  <2>1. /\ \A s \in Requests : s # r => call'[s] = call[s]
        /\ call'[r].op = c.op /\ call'[r].wanted = c.wanted
    BY <1>1, EntryStep
  <2> QED
    BY <1>1, <2>1 DEF WantedInv, Enter
<1>2. ASSUME NEW r \in Requests, NEW phase \in Phases, MoveTo(r, phase), call[r].phase # "new"
      PROVE  WantedInv'
  <2>1. \A s \in Requests : /\ s # r => call'[s].phase = call[s].phase
                            /\ call'[s].op = call[s].op
                            /\ call'[s].wanted = call[s].wanted
    BY <1>2, MoveStep
  <2> QED
    BY <1>2, <2>1 DEF WantedInv
<1>3. ASSUME NEW r \in Requests, Send(r) \/ Commit(r) \/ CommitFails(r) \/ Answer(r)
      PROVE  WantedInv'
  <2>1. call[r].phase # "new" /\ \E phase \in Phases : MoveTo(r, phase)
    BY <1>3 DEF Send, Commit, CommitFails, Answer, ReadyToCommit, Phases, InFlight
  <2> QED
    BY <1>2, <2>1
<1>4. CASE Crash
  <2>1. \A s \in Requests : /\ call'[s].phase = IF Busy(s) THEN "lost" ELSE call[s].phase
                            /\ call'[s].op = call[s].op
                            /\ call'[s].wanted = call[s].wanted
    BY <1>4, CrashStep
  <2>2. \A s \in Requests : Busy(s) => call[s].phase # "new"
    BY DEF Busy, InFlight
  <2> QED
    BY <2>1, <2>2 DEF WantedInv
<1>5. CASE UNCHANGED vars
  BY <1>5 DEF vars, WantedInv
<1> QED
  BY <1>1, <1>3, <1>4, <1>5, EveryEntry DEF Next, RequestStep

LEMMA AloneStep ==
    ASSUME Overlap = FALSE, TypeOK, AloneInv, [Next]_vars
    PROVE  AloneInv'
<1> USE DEF Busy, InFlight, Undecided
<1>1. ASSUME NEW r \in Requests, NEW c \in Calls, Enter(r, c)
      PROVE  AloneInv'
  <2>1. /\ \A s \in Requests : s # r => call'[s] = call[s]
        /\ call'[r].phase \in {"loaded", "refused"}
        /\ call'[r].phase = "loaded" => status = "pending" /\ call'[r].seen = assignment
    BY <1>1, EntryStep
  <2>2. \A s \in Requests : ~Busy(s)
    BY <1>1 DEF Enter, LoadPending, Admitted
  <2>3. UNCHANGED <<status, assignment>>
    BY <1>1 DEF Enter, LoadPending, row
  <2> QED
    BY <2>1, <2>2, <2>3 DEF AloneInv
<1>2. ASSUME NEW r \in Requests, Send(r)
      PROVE  AloneInv'
  <2>1. /\ call'[r].phase = "sent"
        /\ \A s \in Requests : /\ s # r => call'[s].phase = call[s].phase
                               /\ call'[s].seen = call[s].seen
    BY <1>2, MoveStep DEF Send, Phases
  <2>2. UNCHANGED <<status, assignment>> /\ call[r].phase = "loaded"
    BY <1>2 DEF Send, row
  <2> QED
    BY <2>1, <2>2 DEF AloneInv
<1>3. ASSUME NEW r \in Requests, Commit(r) \/ CommitFails(r) \/ Answer(r)
      PROVE  AloneInv'
  <2>1. PICK phase \in {"committed", "failed", "answered"} : MoveTo(r, phase)
    BY <1>3 DEF Commit, CommitFails, Answer
  <2>2. /\ call'[r].phase = phase
        /\ \A s \in Requests : s # r => call'[s].phase = call[s].phase
    BY <2>1, MoveStep DEF Phases
  <2>3. Busy(r)
    BY <1>3 DEF Commit, CommitFails, Answer, ReadyToCommit
  <2> QED
    BY <2>2, <2>3 DEF AloneInv
<1>4. CASE Crash
  <2>1. \A s \in Requests : call'[s].phase = IF Busy(s) THEN "lost" ELSE call[s].phase
    BY <1>4, CrashStep
  <2> QED
    BY <2>1 DEF AloneInv
<1>5. CASE UNCHANGED vars
  BY <1>5 DEF vars, row, AloneInv
<1> QED
  BY <1>1, <1>2, <1>3, <1>4, <1>5, EveryEntry DEF Next, RequestStep

(* Every step is a step of the abstract approval, or leaves it as it is.   *)
LEMMA LifecycleStep ==
    ASSUME CoreInv, WantedInv, Overlap = FALSE => AloneInv, [Next]_vars
    PROVE  [Lifecycle!ApprovalNext]_(Lifecycle!approvalVars)
<1> DEFINE Same == UNCHANGED <<status, decision, note, assignment>>
<1>0. TypeOK /\ Overlap \in BOOLEAN
  BY ApprovalAssumptions DEF CoreInv, ApprovalAssumptions
<1>1. ASSUME NEW r \in Requests, Commit(r), Decides(r)
      PROVE  Lifecycle!Decide(r)
  <2>1. Undecided(r) /\ status' = Verdict(r)
    BY <1>1 DEF Commit, RecordDecision, ReadyToCommit, Undecided
  <2>2. status = "pending" \/ (Overlap /\ "rejected" \in {status, status'})
    <3>1. CASE Overlap = FALSE
      BY <2>1, <3>1 DEF AloneInv
    <3>2. CASE Overlap /\ call[r].op = "approve"
      BY <2>1, <3>2 DEF CoreInv, ApproverInv
    <3>3. CASE Overlap /\ call[r].op = "reject"
      BY <2>1, <3>3 DEF Verdict
    <3> QED
      BY <1>0, <1>1, <3>1, <3>2, <3>3 DEF Decides
  <2>3. Verdict(r) \in Lifecycle!Decided
    BY DEF Verdict, Lifecycle!Decided
  <2>4. decision' = r /\ note' \in {note, r} /\ assignment' = assignment
    BY <1>1 DEF Commit, RecordDecision
  <2> QED
    BY <2>1, <2>2, <2>3, <2>4 DEF Lifecycle!Decide
<1>2. ASSUME NEW r \in Requests, Commit(r), ~Decides(r)
      PROVE  Lifecycle!Store(call[r].wanted)
  <2>1. /\ SetAssignment(r) /\ Undecided(r)
        /\ UNCHANGED <<status, decision, note>>
    BY <1>2 DEF Commit, SetAssignment, ReadyToCommit, Undecided
  <2>2. call[r].wanted \in Assignments /\ assignment \in Assignments
    BY <1>0 DEF TypeOK, Calls
  <2>3. CASE Overlap
    <3>1. assignment' \in [to : {assignment.to, call[r].wanted.to},
                           by : {assignment.by, call[r].wanted.by},
                           at : {assignment.at, call[r].wanted.at}]
      BY <2>1 DEF SetAssignment, Written
    <3> QED
      BY <2>1, <2>3, <3>1 DEF Lifecycle!Store
  <2>4. CASE Overlap = FALSE
    <3>1. status = "pending" /\ call[r].seen = assignment
      BY <2>1, <2>4 DEF AloneInv
    <3>2. assignment' = call[r].wanted
      BY <2>1, <2>2, <3>1 DEF SetAssignment, Written, Assignments
    <3> QED
      BY <2>1, <3>1, <3>2 DEF Lifecycle!Store
  <2> QED
    BY <1>0, <2>3, <2>4
<1>3. ASSUME NEW r \in Requests, Commit(r), ~Decides(r)
      PROVE  Lifecycle!Assign(r) \/ Lifecycle!Clear
  <2>1. call[r].wanted \in Assignments /\ call[r].op \in {"assign", "clear"} /\ call[r].phase # "new"
    BY <1>0, <1>3 DEF TypeOK, Calls, Operations, Decides, Commit, ReadyToCommit
  <2>2. CASE call[r].op = "clear"
    <3>1. call[r].wanted = Lifecycle!Unassigned
      BY <2>1, <2>2 DEF WantedInv, Unassigned, Lifecycle!Unassigned
    <3> QED
      BY <1>2, <1>3, <3>1 DEF Lifecycle!Clear
  <2>3. CASE call[r].op = "assign"
    <3>1. call[r].wanted.to \in Members /\ call[r].wanted.by \in Actors /\ call[r].wanted.at = r
      BY <2>1, <2>3 DEF WantedInv
    <3>2. call[r].wanted = [to |-> call[r].wanted.to, by |-> call[r].wanted.by, at |-> r]
      BY <2>1, <3>1 DEF Assignments
    <3>3. Lifecycle!Store([to |-> call[r].wanted.to, by |-> call[r].wanted.by, at |-> r])
      BY <1>2, <1>3, <3>2
    <3> QED
      BY <3>1, <3>3 DEF Lifecycle!Assign
  <2> QED
    BY <2>1, <2>2, <2>3
<1>4. ASSUME NEW r \in Requests, RequestStep(r), ~Commit(r)
      PROVE  Same
  BY <1>4 DEF RequestStep, Approve, Reject, AssignApproval, ClearApproval, LoadPending,
              Send, CommitFails, Answer, row
<1>5. Crash \/ UNCHANGED vars => Same
  BY DEF Crash, vars, row
<1> QED
  BY <1>1, <1>3, <1>4, <1>5 DEF Next, Lifecycle!ApprovalNext, Lifecycle!approvalVars

(* The approval goes through ApprovalLifecycle, whatever requests fail or  *)
(* are lost: without overlaps a single decision with the decider's own     *)
(* note and whole assignments before it, with overlaps a decision that     *)
(* only a rejection replaces and that no assignment touches                *)
(* (approval_decisions.py, operator_assignments.py).                       *)
THEOREM ApprovalsImplementLifecycle == Spec => ImplementsLifecycle
<1> DEFINE Inv == CoreInv /\ WantedInv /\ (Overlap = FALSE => AloneInv)
<1>1. Init => Inv
  BY InitCore DEF Init, Call, WantedInv, AloneInv, Busy, InFlight, Undecided
<1>2. Init => Lifecycle!ApprovalInit
  BY DEF Init, Unassigned, Lifecycle!ApprovalInit, Lifecycle!Unassigned
<1>3. Inv /\ [Next]_vars => Inv'
  BY CoreStep, WantedStep, AloneStep DEF CoreInv
<1>4. Inv /\ [Next]_vars => [Lifecycle!ApprovalNext]_(Lifecycle!approvalVars)
  BY LifecycleStep
<1> HIDE DEF Inv
<1> QED
  BY <1>1, <1>2, <1>3, <1>4, PTL DEF Spec, ImplementsLifecycle, Lifecycle!ApprovalSpec
=============================================================================
