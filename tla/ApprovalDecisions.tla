-------------------------- MODULE ApprovalDecisions --------------------------
(***************************************************************************)
(* The life of one approval request: human decisions                       *)
(* (app/services/approval_decisions.py) and the assignment of a            *)
(* responsible operator (app/services/operator_assignments.py).            *)
(*                                                                         *)
(* Every request reads the row into a session of its own, checks that it   *)
(* is pending, and writes its columns back in one commit; no row is locked *)
(* and no row has a version.  Rejections and assignments run in threads;   *)
(* approvals run on the event loop and never suspend, because the console  *)
(* channel does not, so two approvals never overlap.  An UPDATE writes the *)
(* columns whose value differs from the one the session has loaded.        *)
(***************************************************************************)
EXTENDS Naturals

CONSTANTS
    Requests,      \* the requests that may ever be made for the approval
    Actors,        \* memberships that may decide and assign
    Members,       \* active memberships an approval can be assigned to
    None,          \* NULL
    MaxCrashes,    \* bound: how often the process dies
    Overlap        \* may two requests for the approval be in flight at once?

ASSUME ApprovalAssumptions ==
    /\ None \notin Requests \cup Actors \cup Members
    /\ MaxCrashes \in Nat
    /\ Overlap \in BOOLEAN

VARIABLES
    ofLead,        \* lead_id is set: approving sends the payload
    status,        \* ApprovalRequest.status
    decision,      \* the request whose decided_at and decided_by_* are stored
    note,          \* the request whose reviewer_note is stored
    assignment,    \* the assigned_* columns; "at" names the request that set it
    stored,        \* outbound ConversationMessage rows of the approval
    sends,         \* calls of ConsoleChannel.send
    wasted,        \* sends whose request ended without a commit
    call,          \* what each request does and how far it is
    crashes        \* how often the process died

row == <<status, decision, note, assignment, stored>>
vars == <<ofLead, row, sends, wasted, call, crashes>>

-----------------------------------------------------------------------------
(* The row and the requests.                                               *)

Decided == {"approved", "executed", "rejected"}

Assignments == [to : Members \cup {None}, by : Actors \cup {None}, at : Requests \cup {None}]

Unassigned == [to |-> None, by |-> None, at |-> None]

Operations == {"approve", "reject", "assign", "clear"}

InFlight == {"loaded", "sent", "committed"}

Phases == InFlight \cup {"new", "refused", "answered", "failed", "lost"}

Calls == [phase  : Phases,
          op     : Operations,
          noted  : BOOLEAN,               \* a decision comes with a note
          wanted : Assignments,           \* the assignment the request sets
          seen   : Assignments]           \* the assignment its session loaded

Call(op, noted, wanted) == [phase |-> "new", op |-> op, noted |-> noted,
                            wanted |-> wanted, seen |-> Unassigned]

Busy(r) == call[r].phase \in InFlight

Decides(r) == call[r].op \in {"approve", "reject"}

LoopFreeForAnyone == TRUE            \* faulty: the channel suspends its caller

(* An approval handler keeps the event loop from its first read to its     *)
(* answer.                                                                 *)
LoopFree == \A r \in Requests : ~(Busy(r) /\ call[r].op = "approve")

Admitted == Overlap \/ \A r \in Requests : ~Busy(r)

MoveTo(r, phase) == call' = [call EXCEPT ![r].phase = phase]

-----------------------------------------------------------------------------
Init ==
    /\ ofLead \in BOOLEAN
    /\ status = "pending" /\ decision = None /\ note = None
    /\ assignment = Unassigned
    /\ stored = 0 /\ sends = 0 /\ wasted = 0 /\ crashes = 0
    /\ call = [r \in Requests |-> Call("clear", FALSE, Unassigned)]

(* faulty: the status of the loaded row is not checked                     *)
LoadAnyStatus(r, c) ==
    /\ call[r].phase = "new" /\ Admitted
    /\ call' = [call EXCEPT ![r] = [c EXCEPT !.phase = "loaded", !.seen = assignment]]
    /\ UNCHANGED <<ofLead, row, sends, wasted, crashes>>

(* A request loads the approval; a decided one is refused with a conflict. *)
LoadPending(r, c) ==
    /\ call[r].phase = "new" /\ Admitted
    /\ call' = [call EXCEPT ![r] =
                  IF status = "pending"
                  THEN [c EXCEPT !.phase = "loaded", !.seen = assignment]
                  ELSE [c EXCEPT !.phase = "refused"]]
    /\ UNCHANGED <<ofLead, row, sends, wasted, crashes>>

Approve(r) ==
    /\ LoopFree
    /\ \E noted \in BOOLEAN : LoadPending(r, Call("approve", noted, Unassigned))

Reject(r) == \E noted \in BOOLEAN : LoadPending(r, Call("reject", noted, Unassigned))

AssignApproval(r) ==
    \E member \in Members, actor \in Actors :
       LoadPending(r, Call("assign", FALSE, [to |-> member, by |-> actor, at |-> r]))

ClearApproval(r) == LoadPending(r, Call("clear", FALSE, Unassigned))

(* Approving a lead's approval sends its payload, before anything is       *)
(* written.                                                                *)
Sends(r) == ofLead /\ call[r].op = "approve"

(* faulty: the message is stored in a commit of its own, when it is sent   *)
SendAndStore(r) ==
    /\ call[r].phase = "loaded" /\ Sends(r)
    /\ sends' = sends + 1 /\ stored' = stored + 1
    /\ MoveTo(r, "sent")
    /\ UNCHANGED <<ofLead, status, decision, note, assignment, wasted, crashes>>

Send(r) ==
    /\ call[r].phase = "loaded" /\ Sends(r)
    /\ sends' = sends + 1
    /\ MoveTo(r, "sent")
    /\ UNCHANGED <<ofLead, row, wasted, crashes>>

ReadyToCommit(r) == call[r].phase = IF Sends(r) THEN "sent" ELSE "loaded"

Verdict(r) == IF call[r].op = "reject" THEN "rejected"
              ELSE IF ofLead THEN "executed" ELSE "approved"

(* faulty: a note that is already there is kept                            *)
RecordDecisionKeepingNote(r) ==
    /\ status' = Verdict(r)
    /\ decision' = r
    /\ note' = IF call[r].noted /\ note = None THEN r ELSE note
    /\ stored' = IF Sends(r) THEN stored + 1 ELSE stored
    /\ UNCHANGED assignment

(* All columns of a decision are NULL in a session that loaded a pending   *)
(* row, so all are written, the note only if there is one.                 *)
RecordDecision(r) ==
    /\ status' = Verdict(r)
    /\ decision' = r
    /\ note' = IF call[r].noted THEN r ELSE note
    /\ stored' = IF Sends(r) THEN stored + 1 ELSE stored
    /\ UNCHANGED assignment

(* A column keeps what is stored when the session sees no change in it.    *)
Written(wanted, seen, now) == IF wanted = seen THEN now ELSE wanted

(* faulty: the row is written back as it was loaded                        *)
SetWholeRow(r) ==
    /\ assignment' = call[r].wanted
    /\ status' = "pending" /\ decision' = None /\ note' = None
    /\ UNCHANGED stored

SetAssignment(r) ==
    LET wanted == call[r].wanted  seen == call[r].seen
    IN  /\ assignment' = [to |-> Written(wanted.to, seen.to, assignment.to),
                          by |-> Written(wanted.by, seen.by, assignment.by),
                          at |-> Written(wanted.at, seen.at, assignment.at)]
        /\ UNCHANGED <<status, decision, note, stored>>

Commit(r) ==
    /\ ReadyToCommit(r)
    /\ IF Decides(r) THEN RecordDecision(r) ELSE SetAssignment(r)
    /\ MoveTo(r, "committed")
    /\ UNCHANGED <<ofLead, sends, wasted, crashes>>

(* The commit raises and the session rolls back.                           *)
CommitFails(r) ==
    /\ ReadyToCommit(r)
    /\ wasted' = IF Sends(r) THEN wasted + 1 ELSE wasted
    /\ MoveTo(r, "failed")
    /\ UNCHANGED <<ofLead, row, sends, crashes>>

(* After the commit the row is read again for the answer; that may fail.   *)
Answer(r) ==
    /\ call[r].phase = "committed"
    /\ \E phase \in {"answered", "failed"} : MoveTo(r, phase)
    /\ UNCHANGED <<ofLead, row, sends, wasted, crashes>>

(* The process dies with every request in flight.                          *)
Crash ==
    /\ crashes < MaxCrashes
    /\ crashes' = crashes + 1
    /\ \E r \in Requests : Busy(r)
    /\ wasted' = IF \E r \in Requests : call[r].phase = "sent" THEN wasted + 1 ELSE wasted
    /\ call' = [r \in Requests |-> IF Busy(r) THEN [call[r] EXCEPT !.phase = "lost"] ELSE call[r]]
    /\ UNCHANGED <<ofLead, row, sends>>

RequestStep(r) == \/ Approve(r) \/ Reject(r) \/ AssignApproval(r) \/ ClearApproval(r)
                  \/ Send(r) \/ Commit(r) \/ CommitFails(r) \/ Answer(r)

Next == (\E r \in Requests : RequestStep(r)) \/ Crash

Spec == Init /\ [][Next]_vars

-----------------------------------------------------------------------------
(* Properties of every execution.                                          *)

TypeOK ==
    /\ ofLead \in BOOLEAN
    /\ status \in Decided \cup {"pending"}
    /\ decision \in Requests \cup {None} /\ note \in Requests \cup {None}
    /\ assignment \in Assignments
    /\ stored \in Nat /\ sends \in Nat /\ wasted \in Nat /\ crashes \in 0 .. MaxCrashes
    /\ call \in [Requests -> Calls]

(* A lead is sent the payload of an approval once per stored message and   *)
(* once per approving request that failed or was lost before its commit,   *)
(* and at most one message is stored: two approvals cannot both execute,   *)
(* because no approval starts while another one holds the event loop       *)
(* (ApprovalDecisionService.approve).                                      *)
SendsAreAccountedFor ==
    /\ stored <= 1
    /\ sends = stored + wasted
               + IF \E r \in Requests : call[r].phase = "sent" THEN 1 ELSE 0

(* An executed approval has its message stored, and a stored message has   *)
(* an approval that was executed, or was rejected by a request that had    *)
(* loaded it before: status and message share a commit                     *)
(* (ApprovalDecisionService.approve).                                      *)
MessageMatchesStatus ==
    /\ status = "executed" => stored = 1
    /\ stored > 0 => ofLead /\ status \in {"executed", "rejected"}

(* Whose note a decided approval carries.  A decider's own note is always  *)
(* the one stored; a decider without one keeps the note of a decision it   *)
(* wrote over, and then one of the two is a rejection: an executed row may *)
(* carry the note of the request that rejected it, but two approvals never *)
(* mix (ApprovalDecisionService._record_decision).                         *)
NoteFitsDecision ==
    note # None =>
        /\ decision # None
        /\ Decides(note) /\ call[note].noted
        /\ note # decision => /\ ~call[decision].noted
                              /\ "reject" \in {call[note].op, call[decision].op}

(* Nothing undoes a decision: an assignment that commits late does not     *)
(* bring the pending status back, and one approval never replaces another; *)
(* only a rejection is written over a decision, or written over            *)
(* (_pending_scoped_approval, OperatorAssignmentService._set_assignment).  *)
DecisionsAreNotUndone ==
    [][status # "pending" /\ decision' # decision =>
          /\ status' # "pending"
          /\ "rejected" \in {status, status'}]_vars

Lifecycle == INSTANCE ApprovalLifecycle

(* The approval goes through ApprovalLifecycle, whatever requests fail or  *)
(* are lost on the way: one decision and whole assignments before it when  *)
(* requests do not overlap, and when they do, a decision that only a       *)
(* rejection replaces and assignments of which single columns may be lost  *)
(* (approval_decisions.py, operator_assignments.py).                       *)
ImplementsLifecycle == Lifecycle!ApprovalSpec
=============================================================================
