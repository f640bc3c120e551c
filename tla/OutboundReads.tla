----------------------------- MODULE OutboundReads -----------------------------
(***************************************************************************)
(* What an operator is told about an outbound action, beside what the      *)
(* delivery service then does with it.  Before a request an operator asks  *)
(* the matching read endpoint: readiness before a delivery or a retry, the *)
(* validation of the transition before a cancellation.  Asking and the     *)
(* request itself are two HTTP requests: others come between them, time    *)
(* passes, the account is switched.  Beside the requests one reader        *)
(* composes the timeline of the action, with one query after the other,    *)
(* each of which sees what is committed by then.                           *)
(*                                                                         *)
(* A read endpoint that answers one request decides on several queries     *)
(* too; only the timeline's are separate steps here.                       *)
(***************************************************************************)
EXTENDS OutboundDelivery

CONSTANTS
    Strategy,       \* OUTBOUND_DELIVERY_RETRY_DELAY_STRATEGY
    RetryDelay,     \* OUTBOUND_DELIVERY_RETRY_DELAY_SECONDS, in instants
    MaximumDelay,   \* OUTBOUND_DELIVERY_RETRY_DELAY_MAX_SECONDS
    ReadLimit       \* MAX_OUTBOUND_ACTION_TIMELINE_LIMIT and the like

ASSUME ReadAssumptions ==
    /\ Strategy \in {"fixed", "exponential"}
    /\ RetryDelay \in Nat /\ MaximumDelay \in Nat /\ RetryDelay <= MaximumDelay
    /\ ReadLimit \in Nat \ {0}

VARIABLES
    failedAt,    \* when the last failure was recorded (failed_at)
    startedAt,   \* started_at of the attempt of each request, 0 without one
    decidedAt,   \* decided_at of the approval
    told,        \* the last answer: to whom, on what, and whether it is fresh
    timeline     \* what the reader has of the timeline it composes

stamps == <<failedAt, startedAt, decidedAt>>
readVars == <<failedAt, startedAt, decidedAt, told, timeline>>

-----------------------------------------------------------------------------
(* The status view: attempts are counted as rows, and the delay counts     *)
(* from the last failure.                                                  *)
RowCount == Len(attempts)

(* OutboundDeliveryRetryDelayPolicy.next_retry_at                          *)
Multiplier(count) == IF Strategy = "fixed" \/ count = 0 THEN 1 ELSE 2 ^ (count - 1)

NextRetryAt(count) == failedAt + Min({RetryDelay * Multiplier(count), MaximumDelay})

RetryIsEligible ==
    /\ RetryAllowed(RowCount, action.failure)
    /\ NextRetryAt(RowCount) <= clock

(* OutboundDeliveryReadinessService.evaluate.  Only a candidate is looked  *)
(* at further: a pending action, or a failed one that may be retried.      *)
IsCandidate == action.status = "pending" \/ (action.status = "failed" /\ RetryIsEligible)

StatusReason == [pending   |-> "none",
                 failed    |-> "retry_not_eligible",
                 cancelled |-> "action_cancelled",
                 expired   |-> "action_expired",
                 delivered |-> "action_delivered"]

ApprovalReason == [pending  |-> "approval_pending",
                   rejected |-> "approval_rejected"]

(* faulty: the approval of the action is not looked at                     *)
BlockingReasonsIgnoringApproval ==
    (IF account THEN {} ELSE {"integration_account_inactive"})
    \cup (IF IsCandidate THEN {} ELSE {StatusReason[action.status]})
    \cup (IF IsCandidate /\ IsExpired THEN {"action_expired"} ELSE {})
    \cup (IF IsCandidate /\ IsBeforeNotBefore THEN {"not_before_not_reached"} ELSE {})

BlockingReasons ==
    (IF account THEN {} ELSE {"integration_account_inactive"})
    \cup (IF IsCandidate THEN {} ELSE {StatusReason[action.status]})
    \cup (IF IsCandidate /\ IsExpired THEN {"action_expired"} ELSE {})
    \cup (IF IsCandidate /\ IsBeforeNotBefore THEN {"not_before_not_reached"} ELSE {})
    \cup (IF IsCandidate /\ ~GateIsOpen THEN {ApprovalReason[approval]} ELSE {})

(* transition_denial_reason, and OutboundActionTransitionValidationService *)
DenialReason(target) ==
    CASE action.status = target -> "transition_noop"
      [] action.status \in {"delivered", "cancelled", "expired"} -> StatusReason[action.status]
      [] OTHER -> "transition_not_allowed"

Validated(target) == IF CanTransition(action.status, target) THEN {} ELSE {DenialReason(target)}

(* OutboundApprovalStatusService.get_for_action, before a decision         *)
ApprovalStatus == IF approval = "pending" THEN {} ELSE {"approval_" \o approval}

Answer(o) == CASE o \in {"deliver", "retry"} -> BlockingReasons
               [] o = "cancel"               -> Validated("cancelled")
               [] OTHER                      -> ApprovalStatus

-----------------------------------------------------------------------------
(* The timeline: the newest audit events, the oldest attempts and the      *)
(* approval with its decision.  Only the order of their times matters: the *)
(* i-th event has time 3 * i, and between two events a decision comes      *)
(* before the start of an attempt.                                         *)
NewestEvents == {i \in DOMAIN audit : i + ReadLimit > Len(audit)}

OldestAttempts == {i \in DOMAIN attempts : i <= ReadLimit}

Entry(what, at) == [what |-> what, at |-> at]

DecisionEvent == [approved |-> "approval_approved", rejected |-> "approval_rejected"]

(* faulty: what explains an entry is read before the entry                 *)
SourcesReversed == <<"approval", "attempts", "audit">>

Sources == <<"audit", "attempts", "approval">>

Entries(source) ==
    CASE source = "audit"    -> {Entry(audit[i], 3 * i) : i \in NewestEvents}
      [] source = "attempts" -> {Entry("attempt", 3 * startedAt[attempts[i].by] + 2) : i \in OldestAttempts}
      [] source = "approval" ->
            (IF approval = "none" THEN {} ELSE {Entry("approval_requested", 0)})
            \cup (IF approval \in DOMAIN DecisionEvent
                  THEN {Entry(DecisionEvent[approval], 3 * decidedAt + 1)} ELSE {})

EmptyTimeline == [next |-> 1, entries |-> {}]

IsComposed == timeline.next > Len(Sources)

BeginTimeline ==
    /\ IsComposed
    /\ timeline' = EmptyTimeline
    /\ UNCHANGED <<vars, stamps, told>>

ReadSource ==
    /\ ~IsComposed
    /\ timeline' = [next    |-> timeline.next + 1,
                    entries |-> timeline.entries \cup Entries(Sources[timeline.next])]
    /\ UNCHANGED <<vars, stamps, told>>

(* The entries are sorted, oldest first, and cut to what the client asked. *)
Shown(limit) ==
    {e \in timeline.entries : Cardinality({f \in timeline.entries : f.at < e.at}) < limit}

(* OutboundActionStateHistoryService.list_for_action                       *)
StateHistory == {i \in NewestEvents : audit[i] \in TransitionEvents}

-----------------------------------------------------------------------------
ReadInit ==
    /\ Init
    /\ failedAt = 0 /\ decidedAt = 0
    /\ startedAt = [r \in Requests |-> 0]
    /\ told = [to |-> {}, op |-> "deliver", answer |-> {}, fresh |-> TRUE]
    /\ timeline = [next |-> Len(Sources) + 1, entries |-> {}]

(* An operator asks what would come of a request ...                       *)
Ask(r, o) ==
    /\ pc[r] = "new"
    /\ told' = [to |-> {r}, op |-> o, answer |-> Answer(o), fresh |-> TRUE]
    /\ UNCHANGED <<vars, stamps, timeline>>

(* ... and makes it, some time later; others make theirs without asking.   *)
Act(r, o) ==
    /\ Begin(r, o)
    /\ r \in told.to => o = told.op
    /\ UNCHANGED readVars

(* What was answered stays fresh until its request begins as long as       *)
(* nothing that was looked at changes, except the time.                    *)
Age ==
    LET begun == \A r \in told.to : pc[r] # "new"
        kept  == UNCHANGED <<account, action, approval, attempts>>
    IN  told' = [told EXCEPT !.fresh = told.fresh /\ (begun \/ kept)]

(* _persist_outcome stamps failed_at, _new_attempt started_at (a retry has *)
(* recorded its event by then), _record_decision decided_at.               *)
Stamp(r) ==
    /\ failedAt' = IF attempts' # attempts /\ action'.failed THEN clock ELSE failedAt
    /\ startedAt' = CASE pc'[r] = "call" -> [startedAt EXCEPT ![r] = Len(audit) + IF op[r] = "retry" THEN 1 ELSE 0]
                      [] pc'[r] = "lost" -> [startedAt EXCEPT ![r] = 0]
                      [] OTHER           -> startedAt
    /\ decidedAt' = IF approval' # approval THEN Len(audit) ELSE decidedAt

Proceed(r) ==
    /\ \/ LoadForDelivery(r) \/ RequireApproved(r) \/ LoadForRetry(r) \/ EvaluateRetry(r)
       \/ NewAttempt(r) \/ CallAdapter(r) \/ CommitAttempt(r) \/ AttemptConflict(r)
       \/ CommitExpiry(r) \/ LoadForCancel(r) \/ CommitCancel(r)
       \/ LoadForDecision(r) \/ CommitDecision(r) \/ Lose(r)
    /\ Stamp(r)
    /\ Age
    /\ UNCHANGED timeline

Elapse ==
    /\ ToggleAccount \/ Archive \/ Unarchive \/ Tick
    /\ Age
    /\ UNCHANGED <<stamps, timeline>>

ReadNext ==
    \/ \E r \in Requests, o \in Operations : Ask(r, o) \/ Act(r, o)
    \/ \E r \in Requests : Proceed(r)
    \/ Elapse
    \/ BeginTimeline
    \/ ReadSource

ReadSpec == ReadInit /\ [][ReadNext]_<<vars, readVars>>
-----------------------------------------------------------------------------
(* The reasons that may be gone by the time the request is made, and those *)
(* that the request itself does not ask about.                             *)
Removable(o) ==
    {"integration_account_inactive", "not_before_not_reached", "approval_pending"}
    \cup (IF o = "deliver" THEN {} ELSE {"retry_not_eligible", "action_expired"})

Unasked(o) ==
    IF o = "deliver" THEN {"not_before_not_reached"} ELSE {"retry_not_eligible", "action_expired"}

(* How far what is told can be relied on, as long as requests do not       *)
(* overlap.  While the answer is fresh, an action announced ready is not   *)
(* refused (a pending one by a delivery, a failed one by a retry), and a   *)
(* message leaves in spite of the answer only where time passed in between *)
(* (not_before), or where a retry does not ask what readiness asks: it     *)
(* waits for no delay and looks at no expiry.  However much has changed    *)
(* since, a refusal is final, unless somebody reactivated the account or   *)
(* approved the action, or the time came: what is delivered, cancelled,    *)
(* expired or rejected stays so, and a cancellation or a decision that was *)
(* announced to be impossible is never made                                *)
(* (OutboundDeliveryReadinessService, retry_failed_action).                *)
ToldIsTrue ==
    \A r \in told.to :
        /\ told.fresh /\ pc[r] = "refused" /\ told.answer = {} =>
              \/ op[r] = "deliver" /\ seen[r].status = "failed"
              \/ op[r] = "retry" /\ seen[r].status = "pending"
        /\ pc[r] = "call" =>
              told.answer \subseteq IF told.fresh THEN Unasked(op[r]) ELSE Removable(op[r])
        /\ pc[r] = "done" /\ op[r] \in {"cancel", "approve", "reject"} => told.answer = {}

(* What explains an entry stands before it.                                *)
Announces(e) == e.what = "delivery_attempted"

ComesWithAttempt(e, entries) ==
    \E f \in entries : /\ f.what = "attempt" /\ f.at < e.at
                        /\ \A g \in entries : Announces(g) => ~(f.at < g.at /\ g.at < e.at)

ComesWithDecision(e, entries) == \E f \in entries : f.what = "approval_approved" /\ f.at < e.at

NeedsDecision == \E f \in timeline.entries : f.what = "approval_requested"

TimelineExplains(shown) ==
    \A e \in shown :
        /\ Announces(e) => ReadLimit < Len(attempts) \/ ComesWithAttempt(e, shown)
        /\ e.what = "attempt" /\ NeedsDecision => ComesWithDecision(e, shown)

HistoryTells ==
    IF StateHistory = {}
    THEN action.status = "pending" \/ \A i \in NewestEvents : audit[i] \in ArchivingEvents
    ELSE audit[Max(StateHistory)] = action.status

(* A timeline explains itself although its queries see different moments   *)
(* and it is cut at the end, wherever the client cuts it: an event that    *)
(* announces an attempt comes with that attempt before it (unless the page *)
(* of attempts was full), and an attempt with the decision that allowed it *)
(* (OutboundActionTimelineService.list_for_action).  The state history,    *)
(* which leaves out the oldest events, ends in the status of the row, and  *)
(* it is empty only if the action is pending or its last events are all    *)
(* archivings (OutboundActionStateHistoryService.list_for_action).         *)
HistoryExplains ==
    /\ IsComposed => \A limit \in 1 .. ReadLimit : TimelineExplains(Shown(limit))
    /\ HistoryTells
=============================================================================
