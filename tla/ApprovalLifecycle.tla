-------------------------- MODULE ApprovalLifecycle --------------------------
(***************************************************************************)
(* What an approval promises.  Requests that do not overlap assign and     *)
(* unassign it as a whole and only while it is pending, and decide it      *)
(* once, with the note of the decider if there is one.  Of requests that   *)
(* overlap, one that rejects may replace a decision or be replaced, a note *)
(* may outlive the decision it came with, and an assignment may lose       *)
(* columns to another one; but what is decided stays decided, and no       *)
(* assignment touches a decision.  ApprovalDecisions is shown to implement *)
(* this.                                                                   *)
(***************************************************************************)
CONSTANTS Requests,    \* the requests that may ever be made for the approval
          Actors,      \* memberships that may decide and assign
          Members,     \* memberships an approval can be assigned to
          None,        \* NULL
          Overlap      \* may requests for the approval overlap?

VARIABLES status,      \* ApprovalRequest.status
          decision,    \* the request whose decision is stored
          note,        \* the request whose reviewer note is stored
          assignment   \* who is responsible, by whom and since when

approvalVars == <<status, decision, note, assignment>>

Decided == {"approved", "executed", "rejected"}

Unassigned == [to |-> None, by |-> None, at |-> None]

ApprovalInit == /\ status = "pending"
                /\ decision = None
                /\ note = None
                /\ assignment = Unassigned

(* A request decides, with a note of its own or without one.               *)
Decide(r) ==
    /\ status = "pending" \/ (Overlap /\ "rejected" \in {status, status'})
    /\ status' \in Decided
    /\ decision' = r
    /\ note' \in {note, r}
    /\ UNCHANGED assignment

(* An assignment is stored, whole, or column by column over another one.   *)
Store(wanted) ==
    /\ \/ status = "pending" /\ assignment' = wanted
       \/ Overlap /\ assignment' \in [to : {assignment.to, wanted.to},
                                     by : {assignment.by, wanted.by},
                                     at : {assignment.at, wanted.at}]
    /\ UNCHANGED <<status, decision, note>>

(* A request makes a member responsible.                                   *)
Assign(r) == \E member \in Members, actor \in Actors :
                Store([to |-> member, by |-> actor, at |-> r])

(* Nobody is responsible any more.                                         *)
Clear == Store(Unassigned)

ApprovalNext == (\E r \in Requests : Decide(r) \/ Assign(r)) \/ Clear

ApprovalSpec == ApprovalInit /\ [][ApprovalNext]_approvalVars
=============================================================================
