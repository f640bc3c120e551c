--------------------------- MODULE OutboundDelivery ---------------------------
(***************************************************************************)
(* Delivery of one outbound action (app/services/outbound_delivery.py).    *)
(*                                                                         *)
(* Every HTTP request is served with a database session of its own, in a   *)
(* thread of its own: a request reads rows into its session, decides on    *)
(* what it read, may call the provider, and writes everything back in one  *)
(* commit at the end.  No row is locked and no row has a version, so the   *)
(* steps of two requests interleave at every read, at the provider call    *)
(* and at the commit.  A request is one-shot: it performs one operation    *)
(* and ends refused (an error before any write), done, or lost (its        *)
(* process died, its client vanished or its commit failed, and the session *)
(* rolled back).                                                           *)
(***************************************************************************)
EXTENDS Naturals, Sequences, FiniteSetsExt, OutboundTransitions

CONSTANTS
    Requests,          \* the requests that may ever be made for the action
    MaximumAttempts,   \* OUTBOUND_DELIVERY_MAX_ATTEMPTS
    FailureKinds,      \* failure codes with their classification
    DeniedKinds,       \* the kinds the configured policy never retries
    AmbiguousKinds,    \* the kinds a provider that took the message may report
    NoFailure,         \* failure columns are NULL
    NotBefore,         \* first instant at which the action may be delivered
    ExpiresAt,         \* first instant at which the action is expired
    MaxClock,          \* bound: the instants that are modelled
    MaxArchivings,     \* bound: how often the action is archived or unarchived
    Overlap            \* may two requests for the action be in flight at once?

ASSUME DeliveryAssumptions ==
    /\ MaximumAttempts \in Nat \ {0}
    /\ DeniedKinds \subseteq FailureKinds
    /\ AmbiguousKinds \subseteq FailureKinds
    /\ NoFailure \notin FailureKinds
    /\ NotBefore \in Nat /\ ExpiresAt \in Nat /\ MaxClock \in Nat /\ MaxArchivings \in Nat
    /\ Overlap \in BOOLEAN

VARIABLES
    account,     \* IntegrationAccount.active
    action,      \* the OutboundIntegrationAction row
    archived,    \* archived_at of the row is set
    approval,    \* status of its ApprovalRequest row, "none" if not required
    attempts,    \* OutboundIntegrationDeliveryAttempt rows in commit order
    audit,       \* OutboundIntegrationAuditEvent rows in commit order
    accepted,    \* requests whose message the provider took
    clock,       \* utc_now()
    op, pc,      \* what each request does and how far it is
    seen,        \* the action row as the session of the request loaded it
    number,      \* attempt_number of the request's uncommitted attempt
    result       \* status, or decision, the request is about to commit

rowVars == <<account, action, archived, approval, attempts, audit>>
vars == <<account, action, archived, approval, attempts, audit, accepted, clock,
          op, pc, seen, number, result>>

-----------------------------------------------------------------------------
(* Rows and requests.                                                      *)

Operations == {"deliver", "retry", "cancel", "approve", "reject"}

InFlight == {"admitted", "gate", "evaluate", "number", "call", "commit"}

Phases == InFlight \cup {"new", "refused", "done", "lost"}

(* The columns a delivery reads or writes; timestamps only by presence.    *)
ActionRow == [status    : Statuses,
              delivered : BOOLEAN,     \* delivered_at
              failed    : BOOLEAN,     \* failed_at
              cancelled : BOOLEAN,     \* cancelled_at
              expired   : BOOLEAN,     \* expired_at
              failure   : FailureKinds \cup {NoFailure}]

NewAction == [status |-> "pending", delivered |-> FALSE, failed |-> FALSE,
              cancelled |-> FALSE, expired |-> FALSE, failure |-> NoFailure]

(* "by" is not a column: it tells which request the attempt belongs to.    *)
AttemptRow == [number : Nat \ {0}, status : {"delivered", "failed"},
               failure : FailureKinds \cup {NoFailure}, by : Requests]

Outcome(status, failure) == [status |-> status, failure |-> failure]

NoResult == Outcome("none", NoFailure)

Results == [status  : TransitionEvents \cup {"none", "approved", "rejected"},
            failure : FailureKinds \cup {NoFailure}]

(* How many events of a kind the trail holds.                              *)
AuditCount(event) == Cardinality({i \in DOMAIN audit : audit[i] = event})

(* SELECT max(attempt_number), 0 without rows.                             *)
NumbersTaken == {attempts[i].number : i \in DOMAIN attempts}

AttemptCount == IF NumbersTaken = {} THEN 0 ELSE Max(NumbersTaken)

NextNumberFromZero == AttemptCount         \* faulty: counts from zero

NextNumber == AttemptCount + 1

NumberIsFreeUnchecked(n) == TRUE           \* faulty: no unique constraint

(* uq_outbound_delivery_attempt_number                                     *)
NumberIsFree(n) == n \notin NumbersTaken

IsExpired == ExpiresAt <= clock

IsBeforeNotBefore == clock < NotBefore

(* OutboundDeliveryRetryPolicy.evaluate                                    *)
RetryAllowed(count, failure) == count < MaximumAttempts /\ failure \notin DeniedKinds

GateIsOpenUnlessRejected == approval # "rejected"      \* faulty: pending passes

(* OutboundDeliveryApprovalService.evaluate                                *)
GateIsOpen == approval \in {"none", "approved"}

(* faulty: a successful retry keeps the failure columns                    *)
WithDeliveredKeepingFailure(row, loaded) == [row EXCEPT !.status = "delivered", !.delivered = TRUE]

(* A commit sends only the columns whose value differs from the one that   *)
(* was loaded.  A fresh timestamp always differs.                          *)
WithDelivered(row, loaded) ==
    [row EXCEPT !.status    = "delivered",
                !.delivered = TRUE,
                !.failed    = IF loaded.failed THEN FALSE ELSE @,
                !.failure   = IF loaded.failure = NoFailure THEN @ ELSE NoFailure]

WithFailed(row, loaded, failure) ==
    [row EXCEPT !.status    = IF loaded.status = "failed" THEN @ ELSE "failed",
                !.delivered = IF loaded.delivered THEN FALSE ELSE @,
                !.failed    = TRUE,
                !.failure   = IF loaded.failure = failure THEN @ ELSE failure]

-----------------------------------------------------------------------------
(* OutboundIntegrationService.create_action has just committed the action. *)
Init ==
    /\ account = TRUE
    /\ action = NewAction
    /\ archived = FALSE
    /\ approval \in {"none", "pending"}
    /\ attempts = << >>
    /\ audit = <<"created">>
    /\ accepted = {}
    /\ clock = 0
    /\ op = [r \in Requests |-> "deliver"]
    /\ pc = [r \in Requests |-> "new"]
    /\ seen = [r \in Requests |-> NewAction]
    /\ number = [r \in Requests |-> 0]
    /\ result = [r \in Requests |-> NoResult]

Goto(r, phase) == pc' = [pc EXCEPT ![r] = phase]

NothingInFlight == \A r \in Requests : pc[r] \notin InFlight

(* The request arrives and looks up the account.  Deliver and retry need   *)
(* it active; cancel only needs it to exist; the decision routes do not    *)
(* look at it.                                                             *)
Begin(r, o) ==
    /\ pc[r] = "new"
    /\ Overlap \/ NothingInFlight
    /\ op' = [op EXCEPT ![r] = o]
    /\ Goto(r, IF o \in {"deliver", "retry"} /\ ~account THEN "refused" ELSE "admitted")
    /\ UNCHANGED <<rowVars, accepted, clock, seen, number, result>>

(* deliver_pending_action loads the action: a pending one that is past its *)
(* expiry is marked expired, any other that is not pending is refused, and *)
(* so is one whose time has not come.                                      *)
LoadForDelivery(r) ==
    /\ pc[r] = "admitted" /\ op[r] = "deliver"
    /\ seen' = [seen EXCEPT ![r] = action]
    /\ \/ /\ action.status = "pending" /\ IsExpired
          /\ result' = [result EXCEPT ![r] = Outcome("expired", NoFailure)]
          /\ Goto(r, "commit")
       \/ /\ action.status # "pending" \/ (~IsExpired /\ IsBeforeNotBefore)
          /\ Goto(r, "refused")
          /\ UNCHANGED result
       \/ /\ action.status = "pending" /\ ~IsExpired /\ ~IsBeforeNotBefore
          /\ Goto(r, "gate")
          /\ UNCHANGED result
    /\ UNCHANGED <<rowVars, accepted, clock, op, number>>

(* approval_service.require_approved                                       *)
RequireApproved(r) ==
    /\ pc[r] = "gate"
    /\ Goto(r, IF GateIsOpen THEN "number" ELSE "refused")
    /\ UNCHANGED <<rowVars, accepted, clock, op, seen, number, result>>

(* retry_failed_action loads the action ...                                *)
LoadForRetry(r) ==
    /\ pc[r] = "admitted" /\ op[r] = "retry"
    /\ seen' = [seen EXCEPT ![r] = action]
    /\ Goto(r, IF action.status = "failed" THEN "evaluate" ELSE "refused")
    /\ UNCHANGED <<rowVars, accepted, clock, op, number, result>>

(* ... and evaluates the policy on a count of its own and on the failure   *)
(* it loaded.                                                              *)
EvaluateRetry(r) ==
    /\ pc[r] = "evaluate"
    /\ Goto(r, IF RetryAllowed(AttemptCount, seen[r].failure) THEN "number" ELSE "refused")
    /\ UNCHANGED <<rowVars, accepted, clock, op, seen, number, result>>

(* _new_attempt counts (again) and numbers the attempt; nothing is stored. *)
NewAttempt(r) ==
    /\ pc[r] = "number"
    /\ number' = [number EXCEPT ![r] = NextNumber]
    /\ Goto(r, "call")
    /\ UNCHANGED <<rowVars, accepted, clock, op, seen, result>>

(* The adapter answers: the provider took the message and said so; it took *)
(* it and the answer was lost or was an error; it did not take it, or the  *)
(* call was never made (no adapter, unmet capability, no endpoint).        *)
CallAdapter(r) ==
    /\ pc[r] = "call"
    /\ \/ /\ accepted' = accepted \cup {r}
          /\ result' = [result EXCEPT ![r] = Outcome("delivered", NoFailure)]
       \/ \E f \in FailureKinds :
             /\ \/ f \in AmbiguousKinds /\ accepted' = accepted \cup {r}
                \/ UNCHANGED accepted
             /\ result' = [result EXCEPT ![r] = Outcome("failed", f)]
    /\ Goto(r, "commit")
    /\ UNCHANGED <<rowVars, clock, op, seen, number>>

(* faulty: a retry is announced instead of its attempt                     *)
AttemptEventsRetryOnly(r) ==
    <<IF op[r] = "retry" THEN "retried" ELSE "delivery_attempted", AuditEventFor(result[r].status)>>

(* What the session holds for an attempt: retry adds its own event first.  *)
AttemptEvents(r) ==
    (IF op[r] = "retry" THEN <<"retried">> ELSE << >>)
        \o <<"delivery_attempted", AuditEventFor(result[r].status)>>

(* _persist_outcome and the commit of _deliver_action.                     *)
CommitAttempt(r) ==
    /\ pc[r] = "commit" /\ op[r] \in {"deliver", "retry"}
    /\ result[r].status \in {"delivered", "failed"}
    /\ CanTransition(seen[r].status, result[r].status)
    /\ NumberIsFree(number[r])
    /\ action' = IF result[r].status = "delivered"
                 THEN WithDelivered(action, seen[r])
                 ELSE WithFailed(action, seen[r], result[r].failure)
    /\ attempts' = Append(attempts, [number  |-> number[r],
                                     status  |-> result[r].status,
                                     failure |-> result[r].failure,
                                     by      |-> r])
    /\ audit' = audit \o AttemptEvents(r)
    /\ Goto(r, "done")
    /\ UNCHANGED <<account, archived, approval, accepted, clock, op, seen, number, result>>

(* faulty: the conflict is swallowed and the request reports success       *)
AttemptConflictSwallowed(r) ==
    /\ pc[r] = "commit" /\ op[r] \in {"deliver", "retry"}
    /\ result[r].status \in {"delivered", "failed"}
    /\ ~NumberIsFree(number[r])
    /\ Goto(r, "done")
    /\ UNCHANGED <<rowVars, accepted, clock, op, seen, number, result>>

(* Another session has committed the same attempt number: the unique       *)
(* constraint fails and the whole session is rolled back.                  *)
AttemptConflict(r) ==
    /\ pc[r] = "commit" /\ op[r] \in {"deliver", "retry"}
    /\ result[r].status \in {"delivered", "failed"}
    /\ ~NumberIsFree(number[r])
    /\ Goto(r, "lost")
    /\ UNCHANGED <<rowVars, accepted, clock, op, seen, number, result>>

(* The expiry branch of deliver_pending_action commits.                    *)
CommitExpiry(r) ==
    /\ pc[r] = "commit" /\ op[r] = "deliver" /\ result[r].status = "expired"
    /\ CanTransition(seen[r].status, "expired")
    /\ action' = [action EXCEPT !.status = "expired", !.expired = TRUE]
    /\ audit' = Append(audit, AuditEventFor("expired"))
    /\ Goto(r, "done")
    /\ UNCHANGED <<account, archived, approval, attempts, accepted, clock, op, seen, number, result>>

(* faulty: any action can be cancelled                                     *)
LoadForCancelUnguarded(r) ==
    /\ pc[r] = "admitted" /\ op[r] = "cancel"
    /\ seen' = [seen EXCEPT ![r] = action]
    /\ result' = [result EXCEPT ![r] = Outcome("cancelled", NoFailure)]
    /\ Goto(r, "commit")
    /\ UNCHANGED <<rowVars, accepted, clock, op, number>>

(* cancel_pending_action loads the action ...                              *)
LoadForCancel(r) ==
    /\ pc[r] = "admitted" /\ op[r] = "cancel"
    /\ seen' = [seen EXCEPT ![r] = action]
    /\ \/ /\ CanTransition(action.status, "cancelled")
          /\ result' = [result EXCEPT ![r] = Outcome("cancelled", NoFailure)]
          /\ Goto(r, "commit")
       \/ /\ ~CanTransition(action.status, "cancelled")
          /\ Goto(r, "refused")
          /\ UNCHANGED result
    /\ UNCHANGED <<rowVars, accepted, clock, op, number>>

(* ... and writes the cancellation over whatever the row holds by then.    *)
CommitCancel(r) ==
    /\ pc[r] = "commit" /\ op[r] = "cancel"
    /\ action' = [action EXCEPT !.status = "cancelled", !.cancelled = TRUE]
    /\ audit' = Append(audit, AuditEventFor("cancelled"))
    /\ Goto(r, "done")
    /\ UNCHANGED <<account, archived, approval, attempts, accepted, clock, op, seen, number, result>>

(* ApprovalDecisionService on an approval without a lead: the decision is  *)
(* taken on the status that was read ...                                   *)
LoadForDecision(r) ==
    /\ pc[r] = "admitted" /\ op[r] \in {"approve", "reject"}
    /\ \/ /\ approval = "pending"
          /\ result' = [result EXCEPT ![r] =
                           Outcome(IF op[r] = "approve" THEN "approved" ELSE "rejected", NoFailure)]
          /\ Goto(r, "commit")
       \/ /\ approval # "pending"
          /\ Goto(r, "refused")
          /\ UNCHANGED result
    /\ UNCHANGED <<rowVars, accepted, clock, op, seen, number>>

(* ... and written over whatever the row holds at the commit.              *)
CommitDecision(r) ==
    /\ pc[r] = "commit" /\ op[r] \in {"approve", "reject"}
    /\ approval' = result[r].status
    /\ Goto(r, "done")
    /\ UNCHANGED <<account, action, archived, attempts, audit, accepted, clock, op, seen, number, result>>

(* The process dies or the database refuses the transaction, at any point: *)
(* nothing the session held is stored, what the provider took is taken.    *)
Lose(r) ==
    /\ pc[r] \in InFlight
    /\ Goto(r, "lost")
    /\ UNCHANGED <<rowVars, accepted, clock, op, seen, number, result>>

(* IntegrationAccountService.deactivate and reactivate.                    *)
ToggleAccount ==
    /\ account' = ~account
    /\ UNCHANGED <<action, archived, approval, attempts, audit, accepted, clock, op, pc, seen, number, result>>

(* OutboundActionArchivingService: the flag and its event in one commit.   *)
(* What the service's own load and commit may straddle is the subject of   *)
(* OutboundUpkeep; here archiving only lengthens the trail.                *)
SetArchived(value, event) ==
    /\ AuditCount("archived") + AuditCount("unarchived") < MaxArchivings
    /\ archived' = value
    /\ audit' = Append(audit, event)
    /\ UNCHANGED <<account, action, approval, attempts, accepted, clock, op, pc, seen, number, result>>

Archive == ~archived /\ IsTerminal(action.status) /\ SetArchived(TRUE, "archived")

Unarchive == archived /\ SetArchived(FALSE, "unarchived")

Tick ==
    /\ clock < MaxClock
    /\ clock' = clock + 1
    /\ UNCHANGED <<rowVars, accepted, op, pc, seen, number, result>>

RequestStep(r) ==
    \/ \E o \in Operations : Begin(r, o)
    \/ LoadForDelivery(r)
    \/ RequireApproved(r)
    \/ LoadForRetry(r)
    \/ EvaluateRetry(r)
    \/ NewAttempt(r)
    \/ CallAdapter(r)
    \/ CommitAttempt(r)
    \/ AttemptConflict(r)
    \/ CommitExpiry(r)
    \/ LoadForCancel(r)
    \/ CommitCancel(r)
    \/ LoadForDecision(r)
    \/ CommitDecision(r)
    \/ Lose(r)

Next == ToggleAccount \/ Archive \/ Unarchive \/ Tick \/ \E r \in Requests : RequestStep(r)

Spec == Init /\ [][Next]_vars
-----------------------------------------------------------------------------
(* Properties of every interleaving.                                       *)

(* Every variable has its type.                                            *)
TypeOK ==
    /\ account \in BOOLEAN
    /\ action \in ActionRow
    /\ archived \in BOOLEAN
    /\ approval \in {"none", "pending", "approved", "rejected"}
    /\ attempts \in Seq(AttemptRow)
    /\ audit \in Seq(AuditEvents)
    /\ accepted \subseteq Requests
    /\ clock \in Nat
    /\ op \in [Requests -> Operations]
    /\ pc \in [Requests -> Phases]
    /\ seen \in [Requests -> ActionRow]
    /\ number \in [Requests -> Nat]
    /\ result \in [Requests -> Results]

(* However requests interleave, the attempts of an action are numbered     *)
(* 1, 2, 3, ... without a gap or a duplicate: the count that numbers an    *)
(* attempt is stale by the time it is committed, and it is the unique      *)
(* constraint that has to catch it (_new_attempt, _attempt_count).         *)
AttemptNumbering == \A i \in DOMAIN attempts : attempts[i].number = i

(* No message is silently forgotten: a message that the provider took has  *)
(* an attempt row, or its request still has to commit, or that request was *)
(* lost between the provider call and its commit.  An attempt recorded as  *)
(* delivered stands for a message the provider really took, and no request *)
(* records two attempts (_deliver_action).                                 *)
MessagesAccountedFor ==
    /\ \A r \in accepted : \/ \E i \in DOMAIN attempts : attempts[i].by = r
                           \/ pc[r] \in {"commit", "lost"}
    /\ \A i \in DOMAIN attempts :
          attempts[i].status = "delivered" => attempts[i].by \in accepted
    /\ \A i, j \in DOMAIN attempts : attempts[i].by = attempts[j].by => i = j

(* How many attempts ended in a status.                                    *)
AttemptsWithStatus(status) == Cardinality({i \in DOMAIN attempts : attempts[i].status = status})

(* The audit trail and the attempt history, written by different services  *)
(* and read by different endpoints, tell the same story: as many attempts  *)
(* announced as recorded, and as many outcomes of each kind, whichever     *)
(* service writes between them (OutboundIntegrationActionAuditService).    *)
AuditAgreesWithAttempts ==
    /\ AuditCount("delivery_attempted") = Len(attempts)
    /\ \A s \in {"delivered", "failed"} : AuditCount(s) = AttemptsWithStatus(s)

(* No message leaves, and no attempt is recorded, while the approval that  *)
(* the action requires is undecided, although neither retry nor the commit *)
(* looks at the approval again (require_approved).                         *)
ApprovalPrecedesDelivery == accepted # {} \/ attempts # << >> => approval # "pending"

-----------------------------------------------------------------------------
(* Properties of requests that do not overlap (Overlap = FALSE).           *)

Lifecycle == INSTANCE OutboundLifecycle WITH status <- action.status, attempts <- Len(attempts)

(* The action goes through the lifecycle of OutboundLifecycle: only        *)
(* transitions of the table, at most MaximumAttempts attempts, each one    *)
(* ending in the status it recorded, whatever requests are lost on the way.*)
ImplementsLifecycle == Lifecycle!LifecycleSpec

(* The timestamp columns of the row agree with its status: a retry that    *)
(* succeeds clears what the failure left behind, and one that fails does   *)
(* not leave a delivery time (_persist_outcome).                           *)
TimestampsMatchStatus ==
    /\ action.delivered = (action.status = "delivered")
    /\ action.failed = (action.status = "failed")
    /\ action.cancelled = (action.status = "cancelled")
    /\ action.expired = (action.status = "expired")
    /\ (action.failure # NoFailure) = (action.status = "failed")

(* The state history, derived from the audit events, ends in the status    *)
(* the row shows (OutboundActionStateHistoryService.list_for_action).      *)
EndsHistory(i) == /\ audit[i] \in TransitionEvents
                  /\ \A j \in DOMAIN audit : j > i => audit[j] \notin TransitionEvents

HistoryEndsInStatus ==
    IF \E i \in DOMAIN audit : audit[i] \in TransitionEvents
    THEN \A i \in DOMAIN audit : EndsHistory(i) => audit[i] = action.status
    ELSE action.status = "pending"

(* A cancelled action was never delivered, except by a request that was    *)
(* lost after the provider had taken the message (cancel_pending_action).  *)
CancelledIsUnsent ==
    action.status = "cancelled" => \A r \in accepted : pc[r] = "lost"

(* What is stored of an action agrees with what happened to it: its        *)
(* timestamps and its history with its status, its cancellation with the   *)
(* provider (outbound_delivery.py as a whole).                             *)
SerialRecords == TimestampsMatchStatus /\ HistoryEndsInStatus /\ CancelledIsUnsent

=============================================================================
