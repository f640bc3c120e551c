------------------------ MODULE OutboundDeliveryProofs ------------------------
(***************************************************************************)
(* Proofs about OutboundDelivery, for any set of requests, any retry       *)
(* policy and any clock.                                                   *)
(***************************************************************************)
EXTENDS OutboundDelivery, FiniteSetTheorems, SequenceTheorems, TLAPS

-----------------------------------------------------------------------------
(* The inductive invariant.                                                *)

(* A phase belongs to certain operations and, at the commit, to a result   *)
(* of that operation; until the provider call there is no result.          *)
PhaseInv ==
    \A r \in Requests :
       /\ pc[r] = "gate" => op[r] = "deliver"
       /\ pc[r] = "evaluate" => op[r] = "retry"
       /\ pc[r] \in {"number", "call"} => op[r] \in {"deliver", "retry"}
       /\ pc[r] = "commit" =>
             \/ op[r] \in {"deliver", "retry"} /\ result[r].status \in {"delivered", "failed"}
             \/ op[r] = "deliver" /\ result[r].status = "expired"
             \/ op[r] = "cancel" /\ result[r].status = "cancelled"
             \/ op[r] \in {"approve", "reject"} /\ result[r].status \in {"approved", "rejected"}

(* The request has an attempt in its session that is not committed yet.    *)
Attempting(r) == \/ pc[r] = "call"
                 \/ pc[r] = "commit" /\ result[r].status \in {"delivered", "failed"}

(* Its number is at most one past the attempts committed by now.           *)
NumbersInReach == \A r \in Requests : Attempting(r) => number[r] \in 1 .. Len(attempts) + 1

CoreInv == TypeOK /\ AttemptNumbering /\ PhaseInv /\ NumbersInReach

-----------------------------------------------------------------------------
(* With the attempts numbered 1 to n, max(attempt_number) is n.            *)
LEMMA AttemptCountIsLength ==
    ASSUME TypeOK, AttemptNumbering
    PROVE  /\ NumbersTaken = 1 .. Len(attempts)
           /\ AttemptCount = Len(attempts)
           /\ AttemptCount \in Nat
<1>1. Len(attempts) \in Nat /\ DOMAIN attempts = 1 .. Len(attempts)
  BY DEF TypeOK
<1>2. NumbersTaken = 1 .. Len(attempts)
  BY <1>1 DEF AttemptNumbering, NumbersTaken
<1>3. CASE Len(attempts) = 0
  BY <1>1, <1>2, <1>3 DEF AttemptCount
<1>4. CASE Len(attempts) # 0
  <2> DEFINE n == Len(attempts)
             Greatest(x) == x \in NumbersTaken /\ \A y \in NumbersTaken : x >= y
  <2>1. Greatest(n)
    BY <1>1, <1>2, <1>4
  <2>2. ASSUME NEW x, Greatest(x)
        PROVE  x = n
    <3>1. x \in Nat /\ x <= n /\ n \in Nat
      BY <1>1, <1>2, <2>2
    <3>2. x >= n
      BY <2>1, <2>2
    <3> QED
      BY <3>1, <3>2
  <2>3. Max(NumbersTaken) = Len(attempts)
    BY <2>1, <2>2 DEF Max
  <2> QED
    BY <1>1, <1>2, <2>1, <2>3 DEF AttemptCount
<1> QED
  BY <1>1, <1>2, <1>3, <1>4

(* The columns a commit sends keep the shape of a row.                     *)
LEMMA RowUpdatesAreRows ==
    ASSUME NEW row \in ActionRow, NEW loaded \in ActionRow,
           NEW f \in FailureKinds \cup {NoFailure}
    PROVE  /\ WithDelivered(row, loaded) \in ActionRow
           /\ WithFailed(row, loaded, f) \in ActionRow
           /\ [row EXCEPT !.status = "expired", !.expired = TRUE] \in ActionRow
           /\ [row EXCEPT !.status = "cancelled", !.cancelled = TRUE] \in ActionRow
<1>1. WithDelivered(row, loaded) \in ActionRow
  BY DEF WithDelivered, ActionRow, Statuses
<1>2. WithFailed(row, loaded, f) \in ActionRow
  BY DEF WithFailed, ActionRow, Statuses
<1>3. [row EXCEPT !.status = "expired", !.expired = TRUE] \in ActionRow
  BY DEF ActionRow, Statuses
<1>4. [row EXCEPT !.status = "cancelled", !.cancelled = TRUE] \in ActionRow
  BY DEF ActionRow, Statuses
<1> QED
  BY <1>1, <1>2, <1>3, <1>4

(* The audit events of a commit are events.                                *)
LEMMA EventsAreEvents ==
    ASSUME NEW r \in Requests, result[r].status \in {"delivered", "failed"}
    PROVE  AttemptEvents(r) \in Seq(AuditEvents)
<1>1. {"retried", "delivery_attempted", result[r].status} \subseteq AuditEvents
  BY DEF AuditEvents, TransitionEvents, Statuses
<1> DEFINE outcomeEvents == <<"delivery_attempted", result[r].status>>
<1>2. <<"retried">> \in Seq(AuditEvents) /\ << >> \in Seq(AuditEvents)
  BY <1>1
<1>3. outcomeEvents \in Seq(AuditEvents)
  BY <1>1
<1> HIDE DEF outcomeEvents
<1>4. <<"retried">> \o outcomeEvents \in Seq(AuditEvents) /\ << >> \o outcomeEvents \in Seq(AuditEvents)
  BY <1>2, <1>3
<1>5. AttemptEvents(r) = (IF op[r] = "retry" THEN <<"retried">> ELSE << >>) \o outcomeEvents
  BY DEF AttemptEvents, AuditEventFor, outcomeEvents
<1> QED
  BY <1>4, <1>5

(* What the actions put in result is a result.                             *)
LEMMA OutcomesAreResults ==
    ASSUME NEW s \in {"none", "delivered", "failed", "expired", "cancelled", "approved", "rejected"},
           NEW f \in FailureKinds \cup {NoFailure}
    PROVE  Outcome(s, f) \in Results
BY DEF Outcome, Results, TransitionEvents, Statuses

-----------------------------------------------------------------------------
LEMMA InitCore == Init => CoreInv
<1>0. <<"created">> \in Seq(AuditEvents)
  <2>1. "created" \in AuditEvents
    BY DEF AuditEvents
  <2> QED
    BY <2>1
<1>1. ASSUME Init
      PROVE  TypeOK
  <2>1. audit \in Seq(AuditEvents)
    BY <1>0, <1>1 DEF Init
  <2>2. account \in BOOLEAN /\ archived \in BOOLEAN /\ clock \in Nat /\ accepted \subseteq Requests
    BY <1>1 DEF Init
  <2>3. NewAction \in ActionRow /\ NoResult \in Results
    BY DEF NewAction, ActionRow, NoResult, Outcome, Results, Statuses
  <2>4. attempts \in Seq(AttemptRow) /\ approval \in {"none", "pending", "approved", "rejected"}
    BY <1>1 DEF Init
  <2> QED
    BY <1>1, <2>1, <2>2, <2>3, <2>4 DEF Init, TypeOK, Phases, InFlight, Operations
<1>2. Init => AttemptNumbering /\ PhaseInv /\ NumbersInReach
  BY DEF Init, AttemptNumbering, PhaseInv, NumbersInReach, Attempting
<1> QED
  BY <1>1, <1>2 DEF CoreInv

(* Archiving adds its event to the trail and touches nothing else that the *)
(* requests look at.                                                       *)
LEMMA ArchivingMarks ==
    ASSUME Archive \/ Unarchive
    PROVE  /\ archived' \in BOOLEAN
           /\ \E event \in ArchivingEvents : audit' = Append(audit, event)
           /\ UNCHANGED <<account, action, approval, attempts, accepted, clock, op, pc, seen, number, result>>
BY DEF Archive, Unarchive, SetArchived, ArchivingEvents

(* Type correctness is preserved by every action.                          *)
LEMMA TypeStep ==
    ASSUME CoreInv, [Next]_vars
    PROVE  TypeOK'
<1> USE DEF rowVars, Goto, Phases, InFlight
<1>0. TypeOK /\ AttemptCount \in Nat
  BY AttemptCountIsLength DEF CoreInv
<1>1. CASE ToggleAccount
  BY <1>0, <1>1 DEF ToggleAccount, TypeOK
<1>2. CASE Tick
  BY <1>0, <1>2 DEF Tick, TypeOK
<1>3. ASSUME NEW r \in Requests, RequestStep(r)
      PROVE  TypeOK'
  <2>1. ASSUME NEW o \in Operations, Begin(r, o)
        PROVE  TypeOK'
    BY <1>0, <2>1 DEF Begin, TypeOK
  <2>2. CASE LoadForDelivery(r)
    <3>1. Outcome("expired", NoFailure) \in Results
      BY OutcomesAreResults
    <3>2. result' = [result EXCEPT ![r] = Outcome("expired", NoFailure)] \/ result' = result
      BY <2>2 DEF LoadForDelivery
    <3>3. result' \in [Requests -> Results]
      BY <1>0, <3>1, <3>2 DEF TypeOK
    <3> QED
      BY <1>0, <2>2, <3>3 DEF LoadForDelivery, TypeOK
  <2>3. CASE RequireApproved(r)
    BY <1>0, <2>3 DEF RequireApproved, TypeOK
  <2>4. CASE LoadForRetry(r)
    BY <1>0, <2>4 DEF LoadForRetry, TypeOK
  <2>5. CASE EvaluateRetry(r)
    BY <1>0, <2>5 DEF EvaluateRetry, TypeOK
  <2>6. CASE NewAttempt(r)
    BY <1>0, <2>6 DEF NewAttempt, NextNumber, TypeOK
  <2>7. CASE CallAdapter(r)
    <3>1. PICK outcome \in Results : result' = [result EXCEPT ![r] = outcome]
      <4>1. Outcome("delivered", NoFailure) \in Results
        BY OutcomesAreResults
      <4>2. \A f \in FailureKinds : Outcome("failed", f) \in Results
        BY OutcomesAreResults
      <4> QED
        BY <2>7, <4>1, <4>2 DEF CallAdapter
    <3>2. result' \in [Requests -> Results]
      BY <1>0, <3>1 DEF TypeOK
    <3> QED
      BY <1>0, <2>7, <3>2 DEF CallAdapter, TypeOK
  <2>8. CASE CommitAttempt(r)
    <3> DEFINE row == [number  |-> number[r], status  |-> result[r].status,
                       failure |-> result[r].failure, by |-> r]
    <3>1. /\ number[r] \in Nat \ {0}
          /\ result[r].status \in {"delivered", "failed"}
          /\ result[r].failure \in FailureKinds \cup {NoFailure}
          /\ action \in ActionRow /\ seen[r] \in ActionRow
      <4>1. number[r] \in Nat \ {0}
        BY <1>0, <2>8 DEF CommitAttempt, CoreInv, NumbersInReach, Attempting, TypeOK
      <4>2. result[r] \in Results
        BY <1>0 DEF TypeOK
      <4> QED
        BY <1>0, <2>8, <4>1, <4>2 DEF CommitAttempt, TypeOK, Results
    <3>2. action' \in ActionRow
      BY <2>8, <3>1, RowUpdatesAreRows DEF CommitAttempt
    <3>3. row \in AttemptRow
      BY <3>1 DEF AttemptRow
    <3>4. attempts' \in Seq(AttemptRow)
      BY <1>0, <2>8, <3>3 DEF CommitAttempt, TypeOK
    <3>5. audit' \in Seq(AuditEvents)
      BY <1>0, <2>8, EventsAreEvents DEF CommitAttempt, TypeOK
    <3> QED
      BY <1>0, <2>8, <3>2, <3>4, <3>5 DEF CommitAttempt, TypeOK
  <2>9. CASE AttemptConflict(r)
    BY <1>0, <2>9 DEF AttemptConflict, TypeOK
  <2>10. CASE CommitExpiry(r)
    <3>1. action' \in ActionRow
      BY <1>0, <2>10, RowUpdatesAreRows DEF CommitExpiry, TypeOK
    <3>2. audit' \in Seq(AuditEvents)
      BY <1>0, <2>10 DEF CommitExpiry, TypeOK, AuditEvents, AuditEventFor, TransitionEvents, Statuses
    <3> QED
      BY <1>0, <2>10, <3>1, <3>2 DEF CommitExpiry, TypeOK
  <2>11. CASE LoadForCancel(r)
    <3>1. Outcome("cancelled", NoFailure) \in Results
      BY OutcomesAreResults
    <3>2. result' = [result EXCEPT ![r] = Outcome("cancelled", NoFailure)] \/ result' = result
      BY <2>11 DEF LoadForCancel
    <3>3. result' \in [Requests -> Results]
      BY <1>0, <3>1, <3>2 DEF TypeOK
    <3> QED
      BY <1>0, <2>11, <3>3 DEF LoadForCancel, TypeOK
  <2>12. CASE CommitCancel(r)
    <3>1. action' \in ActionRow
      BY <1>0, <2>12, RowUpdatesAreRows DEF CommitCancel, TypeOK
    <3>2. audit' \in Seq(AuditEvents)
      BY <1>0, <2>12 DEF CommitCancel, TypeOK, AuditEvents, AuditEventFor, TransitionEvents, Statuses
    <3> QED
      BY <1>0, <2>12, <3>1, <3>2 DEF CommitCancel, TypeOK
  <2>13. CASE LoadForDecision(r)
    <3>1. Outcome("approved", NoFailure) \in Results /\ Outcome("rejected", NoFailure) \in Results
      BY OutcomesAreResults
    <3>2. \/ result' = [result EXCEPT ![r] = Outcome("approved", NoFailure)]
          \/ result' = [result EXCEPT ![r] = Outcome("rejected", NoFailure)]
          \/ result' = result
      BY <2>13 DEF LoadForDecision
    <3>3. result' \in [Requests -> Results]
      BY <1>0, <3>1, <3>2 DEF TypeOK
    <3> QED
      BY <1>0, <2>13, <3>3 DEF LoadForDecision, TypeOK
  <2>14. CASE CommitDecision(r)
    <3>1. result[r].status \in {"approved", "rejected"}
      BY <2>14 DEF CommitDecision, CoreInv, PhaseInv
    <3> QED
      BY <1>0, <2>14, <3>1 DEF CommitDecision, TypeOK
  <2>15. CASE Lose(r)
    BY <1>0, <2>15 DEF Lose, TypeOK
  <2> QED
    BY <1>3, <2>1, <2>2, <2>3, <2>4, <2>5, <2>6, <2>7, <2>8, <2>9, <2>10,
       <2>11, <2>12, <2>13, <2>14, <2>15 DEF RequestStep
<1>4. CASE UNCHANGED vars
  BY <1>0, <1>4 DEF vars, TypeOK
<1>5. CASE Archive \/ Unarchive
  <2>1. PICK event \in ArchivingEvents : audit' = Append(audit, event)
    BY <1>5, ArchivingMarks
  <2>2. audit' \in Seq(AuditEvents)
    BY <1>0, <2>1 DEF TypeOK, AuditEvents
  <2> QED
    BY <1>0, <1>5, <2>2, ArchivingMarks DEF TypeOK
<1> QED
  BY <1>1, <1>2, <1>3, <1>4, <1>5 DEF Next

(* The rest of the invariant, request by request: an action of r leaves    *)
(* every other request alone, and attempts only grow.                      *)
LEMMA PhaseStep ==
    ASSUME CoreInv, [Next]_vars
    PROVE  PhaseInv'
<1> USE DEF PhaseInv, Goto, rowVars, Outcome
<1>0. TypeOK /\ PhaseInv
  BY DEF CoreInv
<1>1. CASE ToggleAccount
  BY <1>0, <1>1 DEF ToggleAccount
<1>2. CASE Tick
  BY <1>0, <1>2 DEF Tick
<1>3. ASSUME NEW r \in Requests, RequestStep(r)
      PROVE  PhaseInv'
  <2>1. ASSUME NEW o \in Operations, Begin(r, o)
        PROVE  PhaseInv'
    BY <1>0, <2>1 DEF Begin, TypeOK
  <2>2. CASE LoadForDelivery(r)
    BY <1>0, <2>2 DEF LoadForDelivery, TypeOK
  <2>3. CASE RequireApproved(r)
    BY <1>0, <2>3 DEF RequireApproved, TypeOK
  <2>4. CASE LoadForRetry(r)
    BY <1>0, <2>4 DEF LoadForRetry, TypeOK
  <2>5. CASE EvaluateRetry(r)
    BY <1>0, <2>5 DEF EvaluateRetry, TypeOK
  <2>6. CASE NewAttempt(r)
    BY <1>0, <2>6 DEF NewAttempt, TypeOK
  <2>7. CASE CallAdapter(r)
    BY <1>0, <2>7 DEF CallAdapter, TypeOK
  <2>8. CASE CommitAttempt(r)
    BY <1>0, <2>8 DEF CommitAttempt, TypeOK
  <2>9. CASE AttemptConflict(r)
    BY <1>0, <2>9 DEF AttemptConflict, TypeOK
  <2>10. CASE CommitExpiry(r)
    BY <1>0, <2>10 DEF CommitExpiry, TypeOK
  <2>11. CASE LoadForCancel(r)
    BY <1>0, <2>11 DEF LoadForCancel, TypeOK
  <2>12. CASE CommitCancel(r)
    BY <1>0, <2>12 DEF CommitCancel, TypeOK
  <2>13. CASE LoadForDecision(r)
    <3>1. op' = op /\ op[r] \in {"approve", "reject"}
      BY <2>13 DEF LoadForDecision
    <3>2. CASE pc' = [pc EXCEPT ![r] = "refused"] /\ result' = result
      BY <1>0, <3>1, <3>2 DEF TypeOK
    <3>3. ASSUME NEW decision \in {"approved", "rejected"},
                 pc' = [pc EXCEPT ![r] = "commit"],
                 result' = [result EXCEPT ![r] = Outcome(decision, NoFailure)]
          PROVE  PhaseInv'
      BY <1>0, <3>1, <3>3 DEF TypeOK
    <3> QED
      BY <2>13, <3>2, <3>3 DEF LoadForDecision
  <2>14. CASE CommitDecision(r)
    BY <1>0, <2>14 DEF CommitDecision, TypeOK
  <2>15. CASE Lose(r)
    BY <1>0, <2>15 DEF Lose, TypeOK
  <2> QED
    BY <1>3, <2>1, <2>2, <2>3, <2>4, <2>5, <2>6, <2>7, <2>8, <2>9, <2>10,
       <2>11, <2>12, <2>13, <2>14, <2>15 DEF RequestStep
<1>4. CASE UNCHANGED vars
  BY <1>0, <1>4 DEF vars
<1>5. CASE Archive \/ Unarchive
  BY <1>0, <1>5, ArchivingMarks
<1> QED
  BY <1>1, <1>2, <1>3, <1>4, <1>5 DEF Next

(* Attempt numbers: a request that numbers its attempt takes the next      *)
(* number, others may overtake it, and the unique constraint lets only a   *)
(* number through that is still the next one.                              *)
LEMMA NumberingStep ==
    ASSUME CoreInv, [Next]_vars
    PROVE  AttemptNumbering' /\ NumbersInReach'
<1> USE DEF Goto, rowVars, Outcome, Attempting
<1>0. /\ TypeOK /\ AttemptNumbering /\ NumbersInReach /\ PhaseInv
      /\ AttemptCount = Len(attempts) /\ NumbersTaken = 1 .. Len(attempts)
      /\ Len(attempts) \in Nat
  BY AttemptCountIsLength DEF CoreInv, TypeOK
<1>1. ASSUME UNCHANGED attempts,
             \A r \in Requests : Attempting(r)' =>
                 \/ Attempting(r) /\ number'[r] = number[r]
                 \/ number'[r] = Len(attempts) + 1
      PROVE  AttemptNumbering' /\ NumbersInReach'
  BY <1>0, <1>1 DEF AttemptNumbering, NumbersInReach
<1>2. CASE ToggleAccount \/ Archive \/ Unarchive \/ Tick \/ UNCHANGED vars
  BY <1>1, <1>2, ArchivingMarks DEF ToggleAccount, Tick, vars
<1>3. ASSUME NEW r \in Requests, RequestStep(r)
      PROVE  AttemptNumbering' /\ NumbersInReach'
  <2>1. ASSUME NEW o \in Operations, Begin(r, o)
        PROVE  AttemptNumbering' /\ NumbersInReach'
    BY <1>0, <1>1, <2>1 DEF Begin, TypeOK
  <2>2. CASE LoadForDelivery(r)
    BY <1>0, <1>1, <2>2 DEF LoadForDelivery, TypeOK
  <2>3. CASE RequireApproved(r)
    BY <1>0, <1>1, <2>3 DEF RequireApproved, TypeOK
  <2>4. CASE LoadForRetry(r)
    BY <1>0, <1>1, <2>4 DEF LoadForRetry, TypeOK
  <2>5. CASE EvaluateRetry(r)
    BY <1>0, <1>1, <2>5 DEF EvaluateRetry, TypeOK
  <2>6. CASE NewAttempt(r)
    BY <1>0, <1>1, <2>6 DEF NewAttempt, NextNumber, TypeOK
  <2>7. CASE CallAdapter(r)
    BY <1>0, <1>1, <2>7 DEF CallAdapter, TypeOK
  <2>8. CASE CommitAttempt(r)
    <3> DEFINE row == [number  |-> number[r], status  |-> result[r].status,
                       failure |-> result[r].failure, by |-> r]
    <3>1. number[r] = Len(attempts) + 1
      BY <1>0, <2>8 DEF CommitAttempt, NumberIsFree, NumbersInReach, TypeOK
    <3>2. attempts' = Append(attempts, row) /\ number' = number /\ result' = result
          /\ pc' = [pc EXCEPT ![r] = "done"]
      BY <2>8 DEF CommitAttempt
    <3>3. /\ Len(attempts') = Len(attempts) + 1
          /\ \A i \in 1 .. Len(attempts) : attempts'[i] = attempts[i]
          /\ attempts'[Len(attempts) + 1] = row
          /\ DOMAIN attempts' = 1 .. Len(attempts) + 1
      BY <1>0, <3>2 DEF TypeOK
    <3>4. AttemptNumbering'
      BY <1>0, <3>1, <3>3 DEF AttemptNumbering, TypeOK
    <3>5. NumbersInReach'
      BY <1>0, <3>2, <3>3 DEF NumbersInReach, TypeOK
    <3> QED
      BY <3>4, <3>5
  <2>9. CASE AttemptConflict(r)
    BY <1>0, <1>1, <2>9 DEF AttemptConflict, TypeOK
  <2>10. CASE CommitExpiry(r)
    BY <1>0, <1>1, <2>10 DEF CommitExpiry, TypeOK
  <2>11. CASE LoadForCancel(r)
    BY <1>0, <1>1, <2>11 DEF LoadForCancel, TypeOK
  <2>12. CASE CommitCancel(r)
    BY <1>0, <1>1, <2>12 DEF CommitCancel, TypeOK
  <2>13. CASE LoadForDecision(r)
    BY <1>0, <1>1, <2>13 DEF LoadForDecision, TypeOK
  <2>14. CASE CommitDecision(r)
    BY <1>0, <1>1, <2>14 DEF CommitDecision, TypeOK
  <2>15. CASE Lose(r)
    BY <1>0, <1>1, <2>15 DEF Lose, TypeOK
  <2> QED
    BY <1>3, <2>1, <2>2, <2>3, <2>4, <2>5, <2>6, <2>7, <2>8, <2>9, <2>10,
       <2>11, <2>12, <2>13, <2>14, <2>15 DEF RequestStep
<1> QED
  BY <1>2, <1>3 DEF Next

(* Every execution is type correct and numbers its attempts 1, 2, 3, ...   *)
(* without gap or duplicate, however many requests overlap.                *)
THEOREM AttemptsAreNumbered == Spec => [](TypeOK /\ AttemptNumbering)
<1>1. Init => CoreInv
  BY InitCore
<1>2. CoreInv /\ [Next]_vars => CoreInv'
  BY TypeStep, PhaseStep, NumberingStep DEF CoreInv
<1>3. CoreInv => TypeOK /\ AttemptNumbering
  BY DEF CoreInv
<1> QED
  BY <1>1, <1>2, <1>3, PTL DEF Spec

(* Every variable keeps its type.                                          *)
THEOREM DeliveryIsTyped == Spec => []TypeOK
BY AttemptsAreNumbered, PTL

-----------------------------------------------------------------------------
(* Messages and attempts.                                                  *)

(* What the provider took belongs to a request that is past its call, and  *)
(* only the commit of its attempt takes that request to "done".            *)
AccountInv ==
    /\ \A r \in accepted :
          \/ pc[r] = "commit" /\ result[r].status \in {"delivered", "failed"}
          \/ pc[r] = "lost"
          \/ pc[r] = "done" /\ \E i \in DOMAIN attempts : attempts[i].by = r
    /\ \A r \in Requests : pc[r] = "commit" /\ result[r].status = "delivered" => r \in accepted
    /\ \A i \in DOMAIN attempts :
          /\ pc[attempts[i].by] = "done"
          /\ attempts[i].status = "delivered" => attempts[i].by \in accepted
    /\ \A i, j \in DOMAIN attempts : attempts[i].by = attempts[j].by => i = j

(* Every attempt belongs to a request.                                     *)
LEMMA AttemptsBelong ==
    ASSUME TypeOK, NEW i \in DOMAIN attempts
    PROVE  attempts[i].by \in Requests
<1>1. attempts[i] \in AttemptRow
  BY DEF TypeOK
<1> QED
  BY <1>1 DEF AttemptRow

LEMMA AccountStep ==
    ASSUME CoreInv, AccountInv, [Next]_vars
    PROVE  AccountInv'
<1> USE DEF Goto, rowVars, Outcome
<1>0. TypeOK /\ PhaseInv /\ Len(attempts) \in Nat /\ DOMAIN attempts = 1 .. Len(attempts)
  BY DEF CoreInv, TypeOK
<1>1. ASSUME UNCHANGED <<attempts, accepted>>,
             \A r \in Requests :
                \/ pc'[r] = pc[r] /\ result'[r] = result[r]
                \/ pc[r] # "done" /\ pc'[r] = "lost"
                \/ /\ pc[r] \notin {"commit", "lost", "done"}
                   /\ pc'[r] = "commit" => result'[r].status # "delivered"
                \/ pc[r] = "commit" /\ result[r].status \notin {"delivered", "failed"} /\ pc'[r] # "commit"
      PROVE  AccountInv'
  <2>1. accepted \subseteq Requests /\ \A i \in DOMAIN attempts : attempts[i].by \in Requests
    BY <1>0, AttemptsBelong DEF TypeOK
  <2>2. \A r \in accepted' :
          \/ pc'[r] = "commit" /\ result'[r].status \in {"delivered", "failed"}
          \/ pc'[r] = "lost"
          \/ pc'[r] = "done" /\ \E i \in DOMAIN attempts : attempts[i].by = r
    BY <1>1, <2>1 DEF AccountInv
  <2>3. \A r \in Requests : pc'[r] = "commit" /\ result'[r].status = "delivered" => r \in accepted
    BY <1>1 DEF AccountInv
  <2>4. \A i \in DOMAIN attempts :
          /\ pc'[attempts[i].by] = "done"
          /\ attempts[i].status = "delivered" => attempts[i].by \in accepted
    BY <1>1, <2>1 DEF AccountInv
  <2> QED
    BY <1>1, <2>2, <2>3, <2>4 DEF AccountInv
<1>2. CASE ToggleAccount \/ Archive \/ Unarchive \/ Tick \/ UNCHANGED vars
  BY <1>1, <1>2, ArchivingMarks DEF ToggleAccount, Tick, vars
<1>3. ASSUME NEW r \in Requests, RequestStep(r)
      PROVE  AccountInv'
  <2>1. ASSUME NEW o \in Operations, Begin(r, o)
        PROVE  AccountInv'
    BY <1>0, <1>1, <2>1 DEF Begin, TypeOK
  <2>2. CASE LoadForDelivery(r)
    BY <1>0, <1>1, <2>2 DEF LoadForDelivery, TypeOK
  <2>3. CASE RequireApproved(r)
    BY <1>0, <1>1, <2>3 DEF RequireApproved, TypeOK
  <2>4. CASE LoadForRetry(r)
    BY <1>0, <1>1, <2>4 DEF LoadForRetry, TypeOK
  <2>5. CASE EvaluateRetry(r)
    BY <1>0, <1>1, <2>5 DEF EvaluateRetry, TypeOK
  <2>6. CASE NewAttempt(r)
    BY <1>0, <1>1, <2>6 DEF NewAttempt, TypeOK
  <2>7. CASE CallAdapter(r)
    <3>1. /\ pc[r] = "call" /\ pc' = [pc EXCEPT ![r] = "commit"] /\ UNCHANGED attempts
          /\ accepted' \in {accepted, accepted \cup {r}}
      BY <2>7 DEF CallAdapter
    <3>2. PICK outcome : /\ result' = [result EXCEPT ![r] = outcome]
                         /\ outcome.status \in {"delivered", "failed"}
                         /\ outcome.status = "delivered" => r \in accepted'
      <4>1. CASE result' = [result EXCEPT ![r] = Outcome("delivered", NoFailure)] /\ accepted' = accepted \cup {r}
        BY <4>1
      <4>2. ASSUME NEW f \in FailureKinds, result' = [result EXCEPT ![r] = Outcome("failed", f)]
            PROVE  \E outcome : /\ result' = [result EXCEPT ![r] = outcome]
                                /\ outcome.status \in {"delivered", "failed"}
                                /\ outcome.status = "delivered" => r \in accepted'
        <5>1. Outcome("failed", f).status = "failed"
          OBVIOUS
        <5> QED
          BY <4>2, <5>1
      <4> QED
        BY <2>7, <4>1, <4>2 DEF CallAdapter
    <3>3. /\ pc'[r] = "commit" /\ result'[r] = outcome
          /\ \A q \in Requests \ {r} : pc'[q] = pc[q] /\ result'[q] = result[q]
      BY <1>0, <3>1, <3>2 DEF TypeOK
    <3>4. accepted \subseteq Requests /\ \A i \in DOMAIN attempts : attempts[i].by \in Requests \ {r}
      BY <1>0, <3>1, AttemptsBelong DEF TypeOK, AccountInv
    <3> QED
      BY <3>1, <3>2, <3>3, <3>4 DEF AccountInv
  <2>8. CASE CommitAttempt(r)
    <3> DEFINE row == [number  |-> number[r], status  |-> result[r].status,
                       failure |-> result[r].failure, by |-> r]
               n == Len(attempts)
    <3>1. /\ pc[r] = "commit" /\ pc' = [pc EXCEPT ![r] = "done"]
          /\ UNCHANGED <<accepted, result>> /\ attempts' = Append(attempts, row)
      BY <2>8 DEF CommitAttempt
    <3>2. /\ DOMAIN attempts' = 1 .. n + 1
          /\ \A i \in 1 .. n : attempts'[i] = attempts[i]
          /\ attempts'[n + 1] = row
      BY <1>0, <3>1 DEF TypeOK
    <3>3. /\ pc'[r] = "done" /\ \A q \in Requests \ {r} : pc'[q] = pc[q]
          /\ row.by = r /\ row.status = result[r].status
      BY <1>0, <3>1 DEF TypeOK
    <3>4. accepted \subseteq Requests /\ \A i \in 1 .. n : attempts[i].by \in Requests \ {r}
      BY <1>0, <3>1, AttemptsBelong DEF TypeOK, AccountInv
    <3>5. \A q \in accepted' :
             \/ pc'[q] = "commit" /\ result'[q].status \in {"delivered", "failed"}
             \/ pc'[q] = "lost"
             \/ pc'[q] = "done" /\ \E i \in DOMAIN attempts' : attempts'[i].by = q
      <4>1. n + 1 \in DOMAIN attempts' /\ attempts'[n + 1].by = r
        BY <1>0, <3>2, <3>3
      <4>2. ASSUME NEW q \in accepted, q # r
            PROVE  \/ pc'[q] = "commit" /\ result'[q].status \in {"delivered", "failed"}
                   \/ pc'[q] = "lost"
                   \/ pc'[q] = "done" /\ \E i \in DOMAIN attempts' : attempts'[i].by = q
        BY <1>0, <3>1, <3>2, <3>3, <3>4, <4>2 DEF AccountInv
      <4> QED
        BY <3>1, <3>3, <4>1, <4>2
    <3>6. \A q \in Requests : pc'[q] = "commit" /\ result'[q].status = "delivered" => q \in accepted'
      BY <3>1, <3>3 DEF AccountInv
    <3>7. \A i \in DOMAIN attempts' :
             /\ pc'[attempts'[i].by] = "done"
             /\ attempts'[i].status = "delivered" => attempts'[i].by \in accepted'
      <4>1. ASSUME NEW i \in 1 .. n
            PROVE  /\ pc'[attempts'[i].by] = "done"
                   /\ attempts'[i].status = "delivered" => attempts'[i].by \in accepted'
        BY <1>0, <3>1, <3>2, <3>3, <3>4 DEF AccountInv
      <4>2. row.status = "delivered" => r \in accepted'
        BY <3>1, <3>3 DEF AccountInv
      <4> QED
        BY <1>0, <3>2, <3>3, <4>1, <4>2
    <3>8. \A i, j \in DOMAIN attempts' : attempts'[i].by = attempts'[j].by => i = j
      <4>1. \A i, j \in 1 .. n : attempts'[i].by = attempts'[j].by => i = j
        BY <1>0, <3>2 DEF AccountInv
      <4>2. \A i \in 1 .. n : attempts'[i].by # r
        BY <3>2, <3>4
      <4> QED
        BY <1>0, <3>2, <3>3, <4>1, <4>2
    <3> QED
      BY <3>5, <3>6, <3>7, <3>8 DEF AccountInv
  <2>9. CASE AttemptConflict(r)
    BY <1>0, <1>1, <2>9 DEF AttemptConflict, TypeOK
  <2>10. CASE CommitExpiry(r)
    BY <1>0, <1>1, <2>10 DEF CommitExpiry, TypeOK
  <2>11. CASE LoadForCancel(r)
    BY <1>0, <1>1, <2>11 DEF LoadForCancel, TypeOK
  <2>12. CASE CommitCancel(r)
    <3>1. result[r].status = "cancelled"
      BY <1>0, <2>12 DEF CommitCancel, PhaseInv
    <3> QED
      BY <1>0, <1>1, <2>12, <3>1 DEF CommitCancel, TypeOK
  <2>13. CASE LoadForDecision(r)
    <3>1. /\ pc[r] = "admitted" /\ UNCHANGED <<attempts, accepted>>
          /\ \/ pc' = [pc EXCEPT ![r] = "refused"] /\ result' = result
             \/ /\ pc' = [pc EXCEPT ![r] = "commit"]
                /\ \E d \in {"approved", "rejected"} : result' = [result EXCEPT ![r] = Outcome(d, NoFailure)]
      BY <2>13 DEF LoadForDecision
    <3>2. \A q \in Requests \ {r} : pc'[q] = pc[q] /\ result'[q] = result[q]
      BY <1>0, <3>1 DEF TypeOK
    <3>3. pc'[r] = "commit" => result'[r].status # "delivered"
      BY <1>0, <3>1 DEF TypeOK
    <3>4. pc[r] \notin {"commit", "lost", "done"}
      BY <3>1
    <3> QED
      BY <1>1, <3>1, <3>2, <3>3, <3>4
  <2>14. CASE CommitDecision(r)
    <3>1. result[r].status \in {"approved", "rejected"}
      BY <1>0, <2>14 DEF CommitDecision, PhaseInv
    <3> QED
      BY <1>0, <1>1, <2>14, <3>1 DEF CommitDecision, TypeOK
  <2>15. CASE Lose(r)
    BY <1>0, <1>1, <2>15 DEF Lose, InFlight, TypeOK
  <2> QED
    BY <1>3, <2>1, <2>2, <2>3, <2>4, <2>5, <2>6, <2>7, <2>8, <2>9, <2>10,
       <2>11, <2>12, <2>13, <2>14, <2>15 DEF RequestStep
<1> QED
  BY <1>2, <1>3 DEF Next

-----------------------------------------------------------------------------
(* The approval gate.                                                      *)

(* A request past the gate, a failed action, a message and an attempt all  *)
(* tell that the approval is decided; a decided approval stays decided.    *)
GateInv ==
    /\ \A r \in Requests : pc[r] = "evaluate" \/ pc[r] = "number" \/ Attempting(r) => approval # "pending"
    /\ action.status = "failed" => approval # "pending"
    /\ ApprovalPrecedesDelivery

LEMMA GateStep ==
    ASSUME CoreInv, GateInv, [Next]_vars
    PROVE  GateInv'
<1> USE DEF Goto, rowVars, Outcome, Attempting, ApprovalPrecedesDelivery
<1>0. TypeOK /\ PhaseInv
  BY DEF CoreInv
<1>1. ASSUME UNCHANGED <<approval, attempts, accepted>>,
             action'.status \in {action.status, "cancelled", "expired"},
             \A r \in Requests :
                \/ pc'[r] = pc[r] /\ result'[r] = result[r]
                \/ pc'[r] \notin {"evaluate", "number", "call", "commit"}
                \/ pc'[r] = "commit" /\ result'[r].status \notin {"delivered", "failed"}
                \/ approval # "pending"
      PROVE  GateInv'
  BY <1>1 DEF GateInv
<1>2. CASE ToggleAccount \/ Archive \/ Unarchive \/ Tick \/ UNCHANGED vars
  BY <1>1, <1>2, ArchivingMarks DEF ToggleAccount, Tick, vars
<1>4. ASSUME approval # "pending", approval' = approval
      PROVE  GateInv'
  BY <1>4 DEF GateInv
<1>3. ASSUME NEW r \in Requests, RequestStep(r)
      PROVE  GateInv'
  <2>1. ASSUME NEW o \in Operations, Begin(r, o)
        PROVE  GateInv'
    BY <1>0, <1>1, <2>1 DEF Begin, TypeOK
  <2>2. CASE LoadForDelivery(r)
    BY <1>0, <1>1, <2>2 DEF LoadForDelivery, TypeOK
  <2>3. CASE RequireApproved(r)
    BY <1>0, <1>1, <2>3 DEF RequireApproved, GateIsOpen, TypeOK
  <2>4. CASE LoadForRetry(r)
    BY <1>0, <1>1, <2>4 DEF LoadForRetry, GateInv, TypeOK
  <2>5. CASE EvaluateRetry(r)
    BY <1>4, <2>5 DEF EvaluateRetry, GateInv
  <2>6. CASE NewAttempt(r)
    BY <1>4, <2>6 DEF NewAttempt, GateInv
  <2>7. CASE CallAdapter(r)
    BY <1>4, <2>7 DEF CallAdapter, GateInv
  <2>8. CASE CommitAttempt(r)
    BY <1>4, <2>8 DEF CommitAttempt, GateInv
  <2>9. CASE AttemptConflict(r)
    BY <1>0, <1>1, <2>9 DEF AttemptConflict, TypeOK
  <2>10. CASE CommitExpiry(r)
    <3>1. action'.status = "expired"
      BY <1>0, <2>10 DEF CommitExpiry, TypeOK, ActionRow
    <3> QED
      BY <1>0, <1>1, <2>10, <3>1 DEF CommitExpiry, TypeOK
  <2>11. CASE LoadForCancel(r)
    BY <1>0, <1>1, <2>11 DEF LoadForCancel, TypeOK
  <2>12. CASE CommitCancel(r)
    <3>1. action'.status = "cancelled"
      BY <1>0, <2>12 DEF CommitCancel, TypeOK, ActionRow
    <3> QED
      BY <1>0, <1>1, <2>12, <3>1 DEF CommitCancel, TypeOK
  <2>13. CASE LoadForDecision(r)
    <3>1. /\ op[r] \in {"approve", "reject"}
          /\ \/ pc' = [pc EXCEPT ![r] = "refused"] /\ result' = result
             \/ /\ pc' = [pc EXCEPT ![r] = "commit"]
                /\ \E d \in {"approved", "rejected"} : result' = [result EXCEPT ![r] = Outcome(d, NoFailure)]
      BY <2>13 DEF LoadForDecision
    <3>2. \A q \in Requests :
             \/ pc'[q] = pc[q] /\ result'[q] = result[q]
             \/ pc'[q] = "refused"
             \/ pc'[q] = "commit" /\ result'[q].status \in {"approved", "rejected"}
      BY <1>0, <3>1 DEF TypeOK
    <3> QED
      BY <1>1, <2>13, <3>2 DEF LoadForDecision
  <2>14. CASE CommitDecision(r)
    BY <1>0, <2>14 DEF CommitDecision, PhaseInv, GateInv
  <2>15. CASE Lose(r)
    BY <1>0, <1>1, <2>15 DEF Lose, TypeOK
  <2> QED
    BY <1>3, <2>1, <2>2, <2>3, <2>4, <2>5, <2>6, <2>7, <2>8, <2>9, <2>10,
       <2>11, <2>12, <2>13, <2>14, <2>15 DEF RequestStep
<1> QED
  BY <1>2, <1>3 DEF Next

-----------------------------------------------------------------------------
(* No message that the provider took is forgotten unless its request was   *)
(* lost, and no delivery is recorded that did not happen, whatever fails   *)
(* between the provider call and the commit.                               *)
THEOREM MessagesAreAccountedFor == Spec => []MessagesAccountedFor
<1>1. Init => CoreInv /\ AccountInv
  BY InitCore DEF Init, AccountInv
<1>2. CoreInv /\ AccountInv /\ [Next]_vars => (CoreInv /\ AccountInv)'
  BY TypeStep, PhaseStep, NumberingStep, AccountStep DEF CoreInv
<1>3. AccountInv => MessagesAccountedFor
  BY DEF AccountInv, MessagesAccountedFor
<1> QED
  BY <1>1, <1>2, <1>3, PTL DEF Spec

(* Nothing leaves while the required approval is undecided, although only  *)
(* the first delivery looks at it.                                         *)
THEOREM ApprovalComesFirst == Spec => []ApprovalPrecedesDelivery
<1>1. Init => CoreInv /\ GateInv
  BY InitCore DEF Init, GateInv, Attempting, ApprovalPrecedesDelivery, NewAction
<1>2. CoreInv /\ GateInv /\ [Next]_vars => (CoreInv /\ GateInv)'
  BY TypeStep, PhaseStep, NumberingStep, GateStep DEF CoreInv
<1>3. GateInv => ApprovalPrecedesDelivery
  BY DEF GateInv
<1> QED
  BY <1>1, <1>2, <1>3, PTL DEF Spec

-----------------------------------------------------------------------------
(* The audit trail and the attempts.                                       *)

(* One more index past the end is one more in the count.                   *)
LEMMA OneMoreIndex ==
    ASSUME NEW n \in Nat, NEW I \in SUBSET (1 .. n), NEW m \in Nat, m > n
    PROVE  /\ Cardinality(I) \in Nat
           /\ Cardinality(I \cup {m}) = Cardinality(I) + 1
<1>1. IsFiniteSet(I)
  <2>1. IsFiniteSet(1 .. n)
    BY 1 \in Int, n \in Int, FS_Interval
  <2> QED
    BY <2>1, FS_Subset
<1>2. m \notin I
  OBVIOUS
<1> QED
  BY <1>1, <1>2, FS_AddElement, FS_CardinalityType

(* The commit of an attempt adds two or three events to the trail, ending  *)
(* in the outcome.                                                         *)
LEMMA TrailGrows ==
    ASSUME TypeOK, NEW r \in Requests, CommitAttempt(r),
           NEW last, last = Len(audit) + (IF op[r] = "retry" THEN 3 ELSE 2)
    PROVE  /\ DOMAIN audit' = 1 .. last
           /\ \A i \in 1 .. Len(audit) : audit'[i] = audit[i]
           /\ audit'[last] = result[r].status
           /\ audit'[last - 1] = "delivery_attempted"
           /\ op[r] = "retry" => audit'[last - 2] = "retried"
<1> DEFINE n == Len(audit)
           s == result[r].status
           front == IF op[r] = "retry" THEN <<"retried">> ELSE << >>
           back == <<"delivery_attempted", s>>
           events == front \o back
<1>1. s \in {"delivered", "failed"} /\ {"retried", "delivery_attempted", s} \subseteq AuditEvents
  BY DEF CommitAttempt, AuditEvents, TransitionEvents, Statuses
<1>2. back \in Seq(AuditEvents) /\ Len(back) = 2 /\ back[1] = "delivery_attempted" /\ back[2] = s
  BY <1>1
<1>3. /\ front \in Seq(AuditEvents)
      /\ op[r] = "retry" => Len(front) = 1 /\ front[1] = "retried"
      /\ op[r] # "retry" => Len(front) = 0
  BY <1>1
<1>0. n \in Nat
  BY DEF TypeOK
<1>4. audit' = audit \o events /\ audit \in Seq(AuditEvents)
  BY DEF CommitAttempt, AttemptEvents, AuditEventFor, TypeOK
<1> HIDE DEF front, back
<1>5. /\ events \in Seq(AuditEvents) /\ Len(events) = Len(front) + 2
      /\ events[Len(front) + 1] = "delivery_attempted" /\ events[Len(front) + 2] = s
      /\ op[r] = "retry" => events[1] = "retried"
  <2>1. /\ front \o back \in Seq(AuditEvents)
        /\ Len(front \o back) = Len(front) + Len(back)
        /\ \A i \in 1 .. Len(front) + Len(back) :
              (front \o back)[i] = IF i <= Len(front) THEN front[i] ELSE back[i - Len(front)]
    BY <1>2, <1>3, ConcatProperties
  <2>2. Len(front) \in {0, 1} /\ (op[r] = "retry" => Len(front) = 1 /\ front[1] = "retried")
    BY <1>3
  <2>3. CASE Len(front) = 0
    BY <1>2, <2>1, <2>2, <2>3
  <2>4. CASE Len(front) = 1
    BY <1>2, <2>1, <2>2, <2>4
  <2> QED
    BY <2>2, <2>3, <2>4
<1> HIDE DEF events
<1>6. Len(front) = IF op[r] = "retry" THEN 1 ELSE 0
  BY <1>3
<1>7. /\ audit \o events \in Seq(AuditEvents)
      /\ Len(audit \o events) = n + Len(events)
      /\ \A i \in 1 .. n + Len(events) :
            (audit \o events)[i] = IF i <= n THEN audit[i] ELSE events[i - n]
  BY <1>4, <1>5, ConcatProperties
<1>8. last = n + Len(events) /\ last \in Nat /\ Len(events) \in {2, 3}
  BY <1>0, <1>4, <1>5, <1>6
<1>9. DOMAIN audit' = 1 .. last
  BY <1>4, <1>7, <1>8, LenProperties
<1>10. \A i \in 1 .. last : audit'[i] = IF i <= n THEN audit[i] ELSE events[i - n]
  BY <1>4, <1>7, <1>8
<1> HIDE DEF n, s
<1>11. audit'[last] = s /\ audit'[last - 1] = "delivery_attempted"
  <2>1. last - n = Len(front) + 2 /\ last - 1 - n = Len(front) + 1 /\ last - 1 > n /\ last > n
    BY <1>0, <1>5, <1>6, <1>8
  <2>2. last \in 1 .. last /\ last - 1 \in 1 .. last
    BY <1>0, <1>8, <2>1
  <2>3. audit'[last] = events[last - n] /\ audit'[last - 1] = events[last - 1 - n]
    BY <1>0, <1>8, <1>10, <2>1, <2>2
  <2> QED
    BY <1>5, <2>1, <2>3
<1>12. ASSUME op[r] = "retry"
       PROVE  audit'[last - 2] = "retried"
  <2>1. last - 2 - n = 1 /\ last - 2 > n /\ last - 2 \in 1 .. last
    BY <1>0, <1>5, <1>6, <1>8, <1>12
  <2>2. audit'[last - 2] = events[last - 2 - n]
    BY <1>0, <1>8, <1>10, <2>1
  <2> QED
    BY <1>5, <1>12, <2>1, <2>2
<1>13. \A i \in 1 .. n : audit'[i] = audit[i]
  BY <1>0, <1>8, <1>10
<1> QED
  BY <1>9, <1>11, <1>12, <1>13 DEF n, s

(* The commit of an attempt announces it and its outcome once each.        *)
LEMMA AttemptIsAnnounced ==
    ASSUME TypeOK, NEW r \in Requests, CommitAttempt(r), NEW e \in AuditEvents \ {"retried"}
    PROVE  AuditCount(e)' = IF e \in {"delivery_attempted", result[r].status}
                            THEN AuditCount(e) + 1 ELSE AuditCount(e)
<1> DEFINE n == Len(audit)
           I == {i \in DOMAIN audit : audit[i] = e}
           last == IF op[r] = "retry" THEN n + 3 ELSE n + 2
           s == result[r].status
<1>1. n \in Nat /\ DOMAIN audit = 1 .. n /\ s \in {"delivered", "failed"}
  BY DEF TypeOK, CommitAttempt
<1>3. /\ DOMAIN audit' = 1 .. last
      /\ \A i \in 1 .. n : audit'[i] = audit[i]
      /\ audit'[last] = s
      /\ audit'[last - 1] = "delivery_attempted"
      /\ last # n + 2 => audit'[n + 1] = "retried"
  BY <1>1, TrailGrows
<1>4. AuditCount(e) = Cardinality(I) /\ AuditCount(e)' = Cardinality({i \in DOMAIN audit' : audit'[i] = e})
  BY DEF AuditCount
<1>5. {i \in DOMAIN audit' : audit'[i] = e}
         = IF e = s THEN I \cup {last} ELSE IF e = "delivery_attempted" THEN I \cup {last - 1} ELSE I
  BY <1>1, <1>3
<1>6. I \in SUBSET (1 .. n) /\ last \in Nat /\ last - 1 \in Nat /\ last > n /\ last - 1 > n
  BY <1>1
<1>7. Cardinality(I \cup {last}) = Cardinality(I) + 1 /\ Cardinality(I \cup {last - 1}) = Cardinality(I) + 1
  BY <1>1, <1>6, OneMoreIndex
<1> QED
  BY <1>1, <1>4, <1>5, <1>7

(* It adds one attempt, with that outcome.                                 *)
LEMMA AttemptIsCounted ==
    ASSUME TypeOK, NEW r \in Requests, CommitAttempt(r), NEW s \in {"delivered", "failed"}
    PROVE  /\ Len(attempts') = Len(attempts) + 1
           /\ AttemptsWithStatus(s)' = IF s = result[r].status THEN AttemptsWithStatus(s) + 1
                                                              ELSE AttemptsWithStatus(s)
<1> DEFINE n == Len(attempts)
           I == {i \in DOMAIN attempts : attempts[i].status = s}
<1>1. n \in Nat /\ DOMAIN attempts = 1 .. n
  BY DEF TypeOK
<1>2. /\ Len(attempts') = n + 1 /\ DOMAIN attempts' = 1 .. n + 1
      /\ \A i \in 1 .. n : attempts'[i] = attempts[i]
      /\ attempts'[n + 1].status = result[r].status
  BY <1>1 DEF TypeOK, CommitAttempt
<1>3. {i \in DOMAIN attempts' : attempts'[i].status = s} = IF s = result[r].status THEN I \cup {n + 1} ELSE I
  BY <1>1, <1>2
<1>4. Cardinality(I \cup {n + 1}) = Cardinality(I) + 1
  <2>1. I \in SUBSET (1 .. n) /\ n + 1 \in Nat /\ n + 1 > n
    BY <1>1
  <2> HIDE DEF I
  <2> QED
    BY <1>1, <2>1, OneMoreIndex
<1> QED
  BY <1>2, <1>3, <1>4 DEF AttemptsWithStatus

(* An event of the expiry, of a cancellation or of an archiving is neither.*)
LEMMA WithdrawalIsNotCounted ==
    ASSUME TypeOK, NEW event \in AuditEvents, audit' = Append(audit, event),
           NEW e, e # event
    PROVE  AuditCount(e)' = AuditCount(e)
<1>1. {i \in DOMAIN audit' : audit'[i] = e} = {i \in DOMAIN audit : audit[i] = e}
  BY DEF TypeOK
<1> QED
  BY <1>1 DEF AuditCount

LEMMA AgreementStep ==
    ASSUME CoreInv, AuditAgreesWithAttempts, [Next]_vars
    PROVE  AuditAgreesWithAttempts'
<1>0. TypeOK
  BY DEF CoreInv
<1>1. ASSUME UNCHANGED <<audit, attempts>>
      PROVE  AuditAgreesWithAttempts'
  BY <1>1 DEF AuditAgreesWithAttempts, AuditCount, AttemptsWithStatus
<1>2. ASSUME NEW event \in {"expired", "cancelled", "archived", "unarchived"},
             audit' = Append(audit, event), UNCHANGED attempts
      PROVE  AuditAgreesWithAttempts'
  <2>1. event \in AuditEvents
    BY DEF AuditEvents, ArchivingEvents, TransitionEvents, Statuses
  <2>2. \A e \in {"delivery_attempted", "delivered", "failed"} : AuditCount(e)' = AuditCount(e)
    BY <1>0, <1>2, <2>1, WithdrawalIsNotCounted
  <2>3. \A s : AttemptsWithStatus(s)' = AttemptsWithStatus(s)
    BY <1>2 DEF AttemptsWithStatus
  <2> QED
    BY <1>2, <2>2, <2>3 DEF AuditAgreesWithAttempts
<1>3. ASSUME NEW r \in Requests, CommitAttempt(r)
      PROVE  AuditAgreesWithAttempts'
  <2>1. /\ "delivery_attempted" \in AuditEvents \ {"retried"}
        /\ \A s \in {"delivered", "failed"} : s \in AuditEvents \ {"retried"}
    BY DEF AuditEvents, TransitionEvents, Statuses
  <2>2. AuditCount("delivery_attempted")' = AuditCount("delivery_attempted") + 1
    BY <1>0, <1>3, <2>1, AttemptIsAnnounced
  <2>3. \A s \in {"delivered", "failed"} :
           AuditCount(s)' = IF s = result[r].status THEN AuditCount(s) + 1 ELSE AuditCount(s)
    BY <1>0, <1>3, <2>1, AttemptIsAnnounced
  <2>4. \A s \in {"delivered", "failed"} :
           /\ Len(attempts') = Len(attempts) + 1
           /\ AttemptsWithStatus(s)' = IF s = result[r].status THEN AttemptsWithStatus(s) + 1
                                                              ELSE AttemptsWithStatus(s)
    BY <1>0, <1>3, AttemptIsCounted
  <2> QED
    BY <2>2, <2>3, <2>4 DEF AuditAgreesWithAttempts
<1>4. ASSUME NEW r \in Requests, CommitExpiry(r) \/ CommitCancel(r)
      PROVE  AuditAgreesWithAttempts'
  BY <1>2, <1>4 DEF CommitExpiry, CommitCancel, AuditEventFor
<1>5. ASSUME NEW r \in Requests, RequestStep(r), ~CommitAttempt(r), ~CommitExpiry(r), ~CommitCancel(r)
      PROVE  AuditAgreesWithAttempts'
  BY <1>1, <1>5 DEF RequestStep, Begin, LoadForDelivery, RequireApproved, LoadForRetry, EvaluateRetry, NewAttempt,
              CallAdapter, AttemptConflict, LoadForCancel, LoadForDecision, CommitDecision, Lose, rowVars
<1>6. CASE ToggleAccount \/ Tick \/ UNCHANGED vars
  BY <1>1, <1>6 DEF ToggleAccount, Tick, vars, rowVars
<1>7. CASE Archive \/ Unarchive
  BY <1>2, <1>7, ArchivingMarks DEF ArchivingEvents
<1> QED
  BY <1>3, <1>4, <1>5, <1>6, <1>7 DEF Next

(* The audit trail and the attempt history agree on how many attempts      *)
(* there were and how they ended, however requests overlap and whichever   *)
(* are lost.                                                               *)
THEOREM AuditTrailAgrees == Spec => []AuditAgreesWithAttempts
<1>1. ASSUME Init
      PROVE  AuditAgreesWithAttempts
  <2>1. attempts = << >> /\ audit = <<"created">>
    BY <1>1 DEF Init
  <2>2. /\ \A e \in {"delivery_attempted", "delivered", "failed"} :
               {i \in DOMAIN audit : audit[i] = e} = {}
        /\ \A s : {i \in DOMAIN attempts : attempts[i].status = s} = {}
    BY <2>1
  <2>3. Cardinality({}) = 0
    BY FS_EmptySet
  <2>4. /\ \A e \in {"delivery_attempted", "delivered", "failed"} : AuditCount(e) = 0
        /\ \A s : AttemptsWithStatus(s) = 0
    BY <2>2, <2>3 DEF AuditCount, AttemptsWithStatus
  <2> QED
    BY <2>1, <2>4 DEF AuditAgreesWithAttempts
<1>2. CoreInv /\ AuditAgreesWithAttempts /\ [Next]_vars => (CoreInv /\ AuditAgreesWithAttempts)'
  BY TypeStep, PhaseStep, NumberingStep, AgreementStep DEF CoreInv
<1> QED
  BY InitCore, <1>1, <1>2, PTL DEF Spec

-----------------------------------------------------------------------------
(* Requests that do not overlap implement the lifecycle.                   *)

(* What a session loaded is still what the table holds: the request is the *)
(* only one in flight.  A first delivery has a pending action, which has   *)
(* no attempts; a retry has been admitted by the policy.                   *)
Holding(r) == \/ pc[r] \in {"gate", "evaluate", "number", "call"}
              \/ pc[r] = "commit" /\ op[r] \in {"deliver", "retry", "cancel"}

HoldingInv(r) ==
    /\ Holding(r) => seen[r] = action
    /\ Holding(r) /\ op[r] = "deliver" => action.status = "pending"
    /\ Holding(r) /\ op[r] = "retry" => action.status = "failed"
    /\ Holding(r) /\ op[r] = "retry" /\ pc[r] # "evaluate" => Len(attempts) < MaximumAttempts
    /\ Holding(r) /\ op[r] = "cancel" => CanTransition(action.status, "cancelled")

SerialInv ==
    /\ \A q, r \in Requests : pc[q] \in InFlight /\ pc[r] \in InFlight => q = r
    /\ \A r \in Requests : HoldingInv(r)
    /\ action.status = "pending" => Len(attempts) = 0

(* A step of r leaves every other request out of flight.                   *)
LEMMA OthersAtRest ==
    ASSUME Overlap = FALSE, CoreInv, SerialInv, NEW r \in Requests, RequestStep(r)
    PROVE  \A q \in Requests \ {r} : pc'[q] = pc[q] /\ pc[q] \notin InFlight
<1> USE DEF Goto
<1>0. pc \in [Requests -> Phases]
  BY DEF CoreInv, TypeOK
<1>1. \E phase : pc' = [pc EXCEPT ![r] = phase]
  BY DEF RequestStep, Begin, LoadForDelivery, RequireApproved, LoadForRetry, EvaluateRetry, NewAttempt,
         CallAdapter, CommitAttempt, AttemptConflict, CommitExpiry, LoadForCancel, CommitCancel,
         LoadForDecision, CommitDecision, Lose
<1>2. pc[r] \in InFlight \/ NothingInFlight
  BY DEF RequestStep, Begin, LoadForDelivery, RequireApproved, LoadForRetry, EvaluateRetry, NewAttempt,
         CallAdapter, CommitAttempt, AttemptConflict, CommitExpiry, LoadForCancel, CommitCancel,
         LoadForDecision, CommitDecision, Lose, InFlight
<1>3. \A q \in Requests \ {r} : pc[q] \notin InFlight
  BY <1>2 DEF SerialInv, NothingInFlight
<1> QED
  BY <1>0, <1>1, <1>3

LEMMA SerialStep ==
    ASSUME Overlap = FALSE, CoreInv, SerialInv, [Next]_vars
    PROVE  SerialInv'
<1> USE DEF Goto, rowVars, Outcome, Holding
<1>0. /\ TypeOK /\ PhaseInv /\ AttemptCount = Len(attempts) /\ Len(attempts) \in Nat
      /\ MaximumAttempts \in Nat \ {0}
  BY AttemptCountIsLength, DeliveryAssumptions DEF CoreInv, TypeOK
<1>1. ASSUME NEW r \in Requests, RequestStep(r), HoldingInv(r)',
             action'.status = "pending" => Len(attempts') = 0
      PROVE  SerialInv'
  <2>1. \A q \in Requests \ {r} : pc'[q] \notin InFlight
    BY <1>1, OthersAtRest
  <2>2. \A q \in Requests \ {r} : HoldingInv(q)'
    BY <2>1 DEF HoldingInv, InFlight
  <2> QED
    BY <1>1, <2>1, <2>2 DEF SerialInv
<1>2. CASE ToggleAccount \/ Archive \/ Unarchive \/ Tick \/ UNCHANGED vars
  BY <1>2, ArchivingMarks DEF ToggleAccount, Tick, vars, SerialInv, HoldingInv
<1>3. ASSUME NEW r \in Requests, RequestStep(r)
      PROVE  SerialInv'
  <2>0. HoldingInv(r) /\ (action.status = "pending" => Len(attempts) = 0)
    BY DEF SerialInv
  <2>1. ASSUME NEW o \in Operations, Begin(r, o)
        PROVE  SerialInv'
    BY <1>0, <1>1, <1>3, <2>0, <2>1 DEF Begin, HoldingInv, PhaseInv, TypeOK
  <2>2. CASE LoadForDelivery(r)
    BY <1>0, <1>1, <1>3, <2>0, <2>2 DEF LoadForDelivery, HoldingInv, PhaseInv, TypeOK
  <2>3. CASE RequireApproved(r)
    BY <1>0, <1>1, <1>3, <2>0, <2>3 DEF RequireApproved, HoldingInv, PhaseInv, TypeOK
  <2>4. CASE LoadForRetry(r)
    BY <1>0, <1>1, <1>3, <2>0, <2>4 DEF LoadForRetry, HoldingInv, PhaseInv, TypeOK
  <2>5. CASE EvaluateRetry(r)
    BY <1>0, <1>1, <1>3, <2>0, <2>5 DEF EvaluateRetry, RetryAllowed, HoldingInv, PhaseInv, TypeOK
  <2>6. CASE NewAttempt(r)
    BY <1>0, <1>1, <1>3, <2>0, <2>6 DEF NewAttempt, HoldingInv, PhaseInv, TypeOK
  <2>7. CASE CallAdapter(r)
    BY <1>0, <1>1, <1>3, <2>0, <2>7 DEF CallAdapter, HoldingInv, PhaseInv, TypeOK
  <2>8. CASE CommitAttempt(r)
    <3>1. pc'[r] = "done"
      BY <1>0, <2>8 DEF CommitAttempt, TypeOK
    <3>2. action'.status = result[r].status
      <4>1. seen[r] = action /\ action \in ActionRow /\ result[r].status \in {"delivered", "failed"}
        BY <1>0, <2>0, <2>8 DEF CommitAttempt, HoldingInv, TypeOK
      <4>2. WithDelivered(action, seen[r]).status = "delivered"
        BY <4>1 DEF WithDelivered, ActionRow
      <4>3. WithFailed(action, seen[r], result[r].failure).status = "failed"
        BY <4>1 DEF WithFailed, ActionRow
      <4> QED
        BY <2>8, <4>1, <4>2, <4>3 DEF CommitAttempt
    <3>3. action'.status # "pending"
      BY <2>8, <3>2 DEF CommitAttempt
    <3> QED
      BY <1>1, <1>3, <3>1, <3>3 DEF HoldingInv
  <2>9. CASE AttemptConflict(r)
    BY <1>0, <1>1, <1>3, <2>0, <2>9 DEF AttemptConflict, HoldingInv, PhaseInv, TypeOK
  <2>10. CASE CommitExpiry(r)
    <3>1. pc'[r] = "done" /\ action'.status # "pending"
      BY <1>0, <2>10 DEF CommitExpiry, TypeOK, ActionRow
    <3> QED
      BY <1>1, <1>3, <3>1 DEF HoldingInv
  <2>11. CASE LoadForCancel(r)
    BY <1>0, <1>1, <1>3, <2>0, <2>11 DEF LoadForCancel, HoldingInv, PhaseInv, TypeOK
  <2>12. CASE CommitCancel(r)
    <3>1. pc'[r] = "done" /\ action'.status # "pending"
      BY <1>0, <2>12 DEF CommitCancel, TypeOK, ActionRow
    <3> QED
      BY <1>1, <1>3, <3>1 DEF HoldingInv
  <2>13. CASE LoadForDecision(r)
    BY <1>0, <1>1, <1>3, <2>0, <2>13 DEF LoadForDecision, HoldingInv, PhaseInv, TypeOK
  <2>14. CASE CommitDecision(r)
    BY <1>0, <1>1, <1>3, <2>0, <2>14 DEF CommitDecision, HoldingInv, PhaseInv, TypeOK
  <2>15. CASE Lose(r)
    BY <1>0, <1>1, <1>3, <2>0, <2>15 DEF Lose, HoldingInv, PhaseInv, TypeOK
  <2> QED
    BY <1>3, <2>1, <2>2, <2>3, <2>4, <2>5, <2>6, <2>7, <2>8, <2>9, <2>10,
       <2>11, <2>12, <2>13, <2>14, <2>15 DEF RequestStep
<1> QED
  BY <1>2, <1>3 DEF Next

(* Every step is a step of the lifecycle or leaves it alone.               *)
LEMMA LifecycleStep ==
    ASSUME Overlap = FALSE, CoreInv, SerialInv, [Next]_vars
    PROVE  [Lifecycle!LifecycleNext]_(Lifecycle!lifecycleVars)
<1> USE DEF Goto, rowVars, Lifecycle!lifecycleVars
<1>0. /\ TypeOK /\ Len(attempts) \in Nat /\ MaximumAttempts \in Nat \ {0}
      /\ action \in ActionRow
      /\ \A r \in Requests : HoldingInv(r)
      /\ action.status = "pending" => Len(attempts) = 0
  BY DeliveryAssumptions DEF CoreInv, TypeOK, SerialInv
<1>1. \A source, target : CanTransition(source, target) <=> Lifecycle!CanTransition(source, target)
  BY DEF CanTransition, Lifecycle!CanTransition, AllowedTargets, Lifecycle!AllowedTargets
<1>2. ASSUME UNCHANGED <<action, attempts>>
      PROVE  UNCHANGED Lifecycle!lifecycleVars
  BY <1>2
<1>3. CASE ToggleAccount \/ Archive \/ Unarchive \/ Tick \/ UNCHANGED vars
  BY <1>2, <1>3, ArchivingMarks DEF ToggleAccount, Tick, vars
<1>4. ASSUME NEW r \in Requests, CommitAttempt(r)
      PROVE  Lifecycle!LifecycleNext
  <2> DEFINE outcome == result[r].status
  <2>1. /\ seen[r] = action /\ outcome \in {"delivered", "failed"}
        /\ CanTransition(action.status, outcome)
    BY <1>0, <1>4 DEF CommitAttempt, HoldingInv, Holding
  <2>2. Len(attempts) < MaximumAttempts
    BY <1>0, <1>4 DEF CommitAttempt, HoldingInv, Holding
  <2>3. action'.status = outcome
    <3>1. WithDelivered(action, seen[r]).status = "delivered"
      BY <1>0, <2>1 DEF WithDelivered, ActionRow
    <3>2. WithFailed(action, seen[r], result[r].failure).status = "failed"
      BY <1>0, <2>1 DEF WithFailed, ActionRow
    <3> QED
      BY <1>4, <2>1, <3>1, <3>2 DEF CommitAttempt
  <2>4. Len(attempts') = Len(attempts) + 1
    BY <1>0, <1>4 DEF CommitAttempt, TypeOK
  <2>5. Lifecycle!Attempt(outcome)
    BY <1>1, <2>1, <2>2, <2>3, <2>4 DEF Lifecycle!Attempt
  <2> QED
    BY <2>1, <2>5 DEF Lifecycle!LifecycleNext
<1>5. ASSUME NEW r \in Requests, CommitExpiry(r)
      PROVE  Lifecycle!LifecycleNext
  <2>1. CanTransition(action.status, "expired") /\ action'.status = "expired" /\ UNCHANGED attempts
    BY <1>0, <1>5 DEF CommitExpiry, HoldingInv, Holding, ActionRow
  <2>2. Lifecycle!Withdraw("expired")
    BY <1>1, <2>1 DEF Lifecycle!Withdraw
  <2> QED
    BY <2>2 DEF Lifecycle!LifecycleNext
<1>6. ASSUME NEW r \in Requests, CommitCancel(r)
      PROVE  Lifecycle!LifecycleNext
  <2>1. CanTransition(action.status, "cancelled") /\ action'.status = "cancelled" /\ UNCHANGED attempts
    BY <1>0, <1>6 DEF CommitCancel, HoldingInv, Holding, ActionRow
  <2>2. Lifecycle!Withdraw("cancelled")
    BY <1>1, <2>1 DEF Lifecycle!Withdraw
  <2> QED
    BY <2>2 DEF Lifecycle!LifecycleNext
<1>7. ASSUME NEW r \in Requests, RequestStep(r), ~CommitAttempt(r), ~CommitExpiry(r), ~CommitCancel(r)
      PROVE  UNCHANGED <<action, attempts>>
  BY <1>7 DEF RequestStep, Begin, LoadForDelivery, RequireApproved, LoadForRetry, EvaluateRetry, NewAttempt,
              CallAdapter, AttemptConflict, LoadForCancel, LoadForDecision, CommitDecision, Lose
<1> QED
  BY <1>2, <1>3, <1>4, <1>5, <1>6, <1>7 DEF Next

(* Requests that come one after the other, any of which may be lost at any *)
(* step, take the action through the lifecycle: transitions of the table   *)
(* only, and at most MaximumAttempts attempts.                             *)
THEOREM SerialImplementsLifecycle == (Overlap = FALSE) /\ Spec => ImplementsLifecycle
<1> SUFFICES ASSUME Overlap = FALSE
             PROVE  Spec => ImplementsLifecycle
  OBVIOUS
<1>1. Init => Lifecycle!LifecycleInit
  BY DEF Init, NewAction, Lifecycle!LifecycleInit
<1>2. Init => CoreInv /\ SerialInv
  BY InitCore DEF Init, SerialInv, HoldingInv, Holding, InFlight, NewAction
<1>3. CoreInv /\ SerialInv /\ [Next]_vars => (CoreInv /\ SerialInv)'
  BY TypeStep, PhaseStep, NumberingStep, SerialStep DEF CoreInv
<1>4. CoreInv /\ SerialInv /\ [Next]_vars => [Lifecycle!LifecycleNext]_(Lifecycle!lifecycleVars)
  BY LifecycleStep
<1> QED
  BY <1>1, <1>2, <1>3, <1>4, PTL DEF Spec, ImplementsLifecycle, Lifecycle!LifecycleSpec

-----------------------------------------------------------------------------
(* What requests that do not overlap leave on record.                      *)

(* A failure in flight has a kind, and an action that was cancelled has    *)
(* left no message behind that anybody still works on.                     *)
FailuresHaveKinds ==
    \A r \in Requests : pc[r] = "commit" /\ result[r].status = "failed" => result[r].failure \in FailureKinds

RecordsInv == FailuresHaveKinds /\ SerialRecords

LEMMA KindsStep ==
    ASSUME CoreInv, FailuresHaveKinds, [Next]_vars
    PROVE  FailuresHaveKinds'
<1> USE DEF Goto, Outcome, FailuresHaveKinds
<1>0. TypeOK
  BY DEF CoreInv
<1>1. ASSUME NEW r \in Requests, NEW result_r, result' = [result EXCEPT ![r] = result_r],
             \A q \in Requests \ {r} : pc'[q] = pc[q],
             result_r.status = "failed" => result_r.failure \in FailureKinds
      PROVE  FailuresHaveKinds'
  BY <1>0, <1>1 DEF TypeOK
<1>2. ASSUME UNCHANGED result, \A r \in Requests : pc'[r] = "commit" => pc[r] = "commit"
      PROVE  FailuresHaveKinds'
  BY <1>2
<1>3. CASE ToggleAccount \/ Archive \/ Unarchive \/ Tick \/ UNCHANGED vars
  BY <1>2, <1>3, ArchivingMarks DEF ToggleAccount, Tick, vars
<1>4. ASSUME NEW r \in Requests, RequestStep(r)
      PROVE  FailuresHaveKinds'
  <2>1. CASE LoadForDelivery(r)
    BY <1>0, <1>1, <1>2, <2>1 DEF LoadForDelivery, TypeOK
  <2>2. CASE CallAdapter(r)
    BY <1>0, <1>1, <2>2 DEF CallAdapter, TypeOK
  <2>3. CASE LoadForCancel(r)
    BY <1>0, <1>1, <1>2, <2>3 DEF LoadForCancel, TypeOK
  <2>4. CASE LoadForDecision(r)
    BY <1>0, <1>1, <1>2, <2>4 DEF LoadForDecision, TypeOK
  <2>5. CASE ~(LoadForDelivery(r) \/ CallAdapter(r) \/ LoadForCancel(r) \/ LoadForDecision(r))
    <3>1. UNCHANGED result /\ \E phase \in Phases \ {"commit"} : pc' = [pc EXCEPT ![r] = phase]
      BY <1>4, <2>5 DEF RequestStep, Begin, RequireApproved, LoadForRetry, EvaluateRetry, NewAttempt, CommitAttempt,
             AttemptConflict, CommitExpiry, CommitCancel, CommitDecision, Lose, Phases, InFlight
    <3> QED
      BY <1>0, <1>2, <3>1 DEF TypeOK
  <2> QED
    BY <2>1, <2>2, <2>3, <2>4, <2>5
<1> QED
  BY <1>3, <1>4 DEF Next

(* What a commit of an attempt does to the row.                            *)
LEMMA AttemptUpdatesRow ==
    ASSUME Overlap = FALSE, CoreInv, SerialInv, NEW r \in Requests, CommitAttempt(r)
    PROVE  /\ action.status \in {"pending", "failed"}
           /\ action'.status = result[r].status
           /\ result[r].status = "delivered" => action' = WithDelivered(action, action)
           /\ result[r].status = "failed" => action' = WithFailed(action, action, result[r].failure)
<1>0. action \in ActionRow
  BY DEF CoreInv, TypeOK
<1>1. seen[r] = action /\ action.status \in {"pending", "failed"} /\ result[r].status \in {"delivered", "failed"}
  BY DEF CommitAttempt, SerialInv, HoldingInv, Holding
<1>2. WithDelivered(action, action).status = "delivered"
  BY <1>0 DEF WithDelivered, ActionRow
<1>3. WithFailed(action, action, result[r].failure).status = "failed"
  BY <1>0 DEF WithFailed, ActionRow
<1>4. action' = IF result[r].status = "delivered" THEN WithDelivered(action, action)
                ELSE WithFailed(action, action, result[r].failure)
  BY <1>1 DEF CommitAttempt
<1> QED
  BY <1>1, <1>2, <1>3, <1>4

(* Expiry and cancellation happen to a pending action and set one column   *)
(* besides the status.                                                     *)
LEMMA WithdrawalRow ==
    ASSUME Overlap = FALSE, CoreInv, SerialInv, NEW r \in Requests, CommitExpiry(r) \/ CommitCancel(r)
    PROVE  \E event \in {"expired", "cancelled"} :
              /\ event = "cancelled" <=> CommitCancel(r)
              /\ action.status = "pending" /\ action'.status = event
              /\ audit' = Append(audit, event)
              /\ action'.delivered = action.delivered /\ action'.failed = action.failed
              /\ action'.failure = action.failure
              /\ action'.expired = (event = "expired" \/ action.expired)
              /\ action'.cancelled = (event = "cancelled" \/ action.cancelled)
<1>0. action \in ActionRow
  BY DEF CoreInv, TypeOK
<1>1. CASE CommitExpiry(r)
  <2>1. action.status = "pending" /\ ~CommitCancel(r)
    BY <1>1 DEF CommitExpiry, CommitCancel, SerialInv, HoldingInv, Holding
  <2>2. action' = [action EXCEPT !.status = "expired", !.expired = TRUE] /\ audit' = Append(audit, "expired")
    BY <1>1 DEF CommitExpiry, AuditEventFor
  <2> QED
    BY <1>0, <2>1, <2>2 DEF ActionRow
<1>2. CASE CommitCancel(r)
  <2>1. CanTransition(action.status, "cancelled")
    BY <1>2 DEF CommitCancel, SerialInv, HoldingInv, Holding
  <2>2. action.status = "pending"
    BY <1>0, <2>1 DEF CanTransition, AllowedTargets, ActionRow, Statuses
  <2>3. action' = [action EXCEPT !.status = "cancelled", !.cancelled = TRUE] /\ audit' = Append(audit, "cancelled")
    BY <1>2 DEF CommitCancel, AuditEventFor
  <2> QED
    BY <1>0, <1>2, <2>2, <2>3 DEF ActionRow
<1> QED
  BY <1>1, <1>2

(* The other steps leave the row alone, and the trail but for archivings.  *)
LEMMA OtherSteps ==
    ASSUME [Next]_vars, \A r \in Requests : ~CommitAttempt(r) /\ ~CommitExpiry(r) /\ ~CommitCancel(r)
    PROVE  /\ UNCHANGED <<action, attempts>>
           /\ audit' = audit \/ \E event \in ArchivingEvents : audit' = Append(audit, event)
BY ArchivingMarks
   DEF Next, vars, rowVars, ToggleAccount, Tick, RequestStep, Begin, LoadForDelivery, RequireApproved, LoadForRetry,
       EvaluateRetry, NewAttempt, CallAdapter, AttemptConflict, LoadForCancel, LoadForDecision, CommitDecision, Lose

(* Timestamps: a commit changes what its session loaded, and in a session  *)
(* of its own nothing has changed since.                                   *)
LEMMA TimestampsStep ==
    ASSUME Overlap = FALSE, CoreInv, SerialInv, RecordsInv, [Next]_vars
    PROVE  TimestampsMatchStatus'
<1>0. action \in ActionRow /\ TimestampsMatchStatus /\ NoFailure \notin FailureKinds
  BY DeliveryAssumptions DEF CoreInv, TypeOK, RecordsInv, SerialRecords
<1>1. ASSUME NEW r \in Requests, CommitAttempt(r)
      PROVE  TimestampsMatchStatus'
  <2>1. /\ action.status \in {"pending", "failed"} /\ result[r].status \in {"delivered", "failed"}
        /\ result[r].status = "failed" => result[r].failure \in FailureKinds
    BY <1>1, AttemptUpdatesRow DEF CommitAttempt, RecordsInv, FailuresHaveKinds
  <2>2. action.delivered = FALSE /\ action.cancelled = FALSE /\ action.expired = FALSE
    BY <1>0, <2>1 DEF TimestampsMatchStatus
  <2>3. CASE result[r].status = "delivered"
    <3>1. action' = WithDelivered(action, action)
      BY <1>1, <2>3, AttemptUpdatesRow
    <3>2. /\ action'.status = "delivered" /\ action'.delivered = TRUE /\ action'.failed = FALSE
          /\ action'.cancelled = FALSE /\ action'.expired = FALSE /\ action'.failure = NoFailure
      BY <1>0, <2>2, <3>1 DEF WithDelivered, ActionRow
    <3> QED
      BY <3>2 DEF TimestampsMatchStatus
  <2>4. CASE result[r].status = "failed"
    <3>1. action' = WithFailed(action, action, result[r].failure)
      BY <1>1, <2>4, AttemptUpdatesRow
    <3>2. /\ action'.status = "failed" /\ action'.delivered = FALSE /\ action'.failed = TRUE
          /\ action'.cancelled = FALSE /\ action'.expired = FALSE /\ action'.failure = result[r].failure
      BY <1>0, <2>2, <3>1 DEF WithFailed, ActionRow
    <3> QED
      BY <1>0, <2>1, <2>4, <3>2 DEF TimestampsMatchStatus
  <2> QED
    BY <2>1, <2>3, <2>4
<1>2. ASSUME NEW r \in Requests, CommitExpiry(r) \/ CommitCancel(r)
      PROVE  TimestampsMatchStatus'
  BY <1>0, <1>2, WithdrawalRow DEF TimestampsMatchStatus
<1>3. ASSUME UNCHANGED action
      PROVE  TimestampsMatchStatus'
  BY <1>0, <1>3 DEF TimestampsMatchStatus
<1> QED
  BY <1>1, <1>2, <1>3, OtherSteps

(* History: a commit that changes the status ends the trail with it.       *)
LEMMA HistoryStep ==
    ASSUME Overlap = FALSE, CoreInv, SerialInv, RecordsInv, [Next]_vars
    PROVE  HistoryEndsInStatus'
<1>0. TypeOK /\ Len(audit) \in Nat
  BY DEF CoreInv, TypeOK
<1>1. ASSUME NEW last, last \in Nat, last > 0, DOMAIN audit' = 1 .. last,
             audit'[last] \in TransitionEvents, audit'[last] = action'.status
      PROVE  HistoryEndsInStatus'
  <2>1. last \in DOMAIN audit'
    BY <1>1
  <2>2. ASSUME NEW i \in DOMAIN audit', EndsHistory(i)'
        PROVE  i = last
    <3>1. i \in 1 .. last /\ (last > i => audit'[last] \notin TransitionEvents)
      BY <1>1, <2>1, <2>2 DEF EndsHistory
    <3> QED
      BY <1>1, <3>1
  <2> QED
    BY <1>1, <2>1, <2>2 DEF HistoryEndsInStatus
<1>2. ASSUME NEW r \in Requests, CommitAttempt(r)
      PROVE  HistoryEndsInStatus'
  <2> DEFINE last == Len(audit) + (IF op[r] = "retry" THEN 3 ELSE 2)
  <2>1. last \in Nat /\ last > 0
    BY <1>0
  <2>2. DOMAIN audit' = 1 .. last /\ audit'[last] = result[r].status
    BY <1>0, <1>2, TrailGrows
  <2>3. result[r].status \in TransitionEvents /\ action'.status = result[r].status
    BY <1>2, AttemptUpdatesRow DEF CommitAttempt, TransitionEvents, Statuses
  <2> HIDE DEF last
  <2> QED
    BY <1>1, <2>1, <2>2, <2>3
<1>3. ASSUME NEW r \in Requests, CommitExpiry(r) \/ CommitCancel(r)
      PROVE  HistoryEndsInStatus'
  <2>1. PICK event \in {"expired", "cancelled"} : action'.status = event /\ audit' = Append(audit, event)
    BY <1>3, WithdrawalRow
  <2>2. /\ DOMAIN audit' = 1 .. Len(audit) + 1 /\ audit'[Len(audit) + 1] = event
        /\ Len(audit) + 1 \in Nat /\ Len(audit) + 1 > 0
    BY <1>0, <2>1 DEF TypeOK
  <2>3. event \in TransitionEvents
    BY DEF TransitionEvents, Statuses
  <2> QED
    BY <1>1, <2>1, <2>2, <2>3
<1>4. ASSUME UNCHANGED <<action, audit>>
      PROVE  HistoryEndsInStatus'
  BY <1>4 DEF RecordsInv, SerialRecords, HistoryEndsInStatus, EndsHistory
<1>5. ASSUME UNCHANGED action, NEW event \in ArchivingEvents, audit' = Append(audit, event)
      PROVE  HistoryEndsInStatus'
  <2>1. event \notin TransitionEvents /\ event \in AuditEvents
    BY DEF ArchivingEvents, AuditEvents, TransitionEvents, Statuses
  <2>2. /\ DOMAIN audit = 1 .. Len(audit) /\ DOMAIN audit' = 1 .. Len(audit) + 1
        /\ \A i \in 1 .. Len(audit) : audit'[i] = audit[i]
        /\ audit'[Len(audit) + 1] = event
    BY <1>0, <1>5, <2>1 DEF TypeOK
  <2>3. \A i \in DOMAIN audit' : audit'[i] \in TransitionEvents => i \in DOMAIN audit /\ audit'[i] = audit[i]
    BY <1>0, <2>1, <2>2
  <2>4. \A i \in DOMAIN audit : i \in DOMAIN audit' /\ audit'[i] = audit[i]
    BY <1>0, <2>2
  <2>5. \A i \in DOMAIN audit' : EndsHistory(i)' => i \in DOMAIN audit /\ EndsHistory(i)
    BY <2>3, <2>4 DEF EndsHistory
  <2> QED
    BY <1>5, <2>3, <2>4, <2>5 DEF RecordsInv, SerialRecords, HistoryEndsInStatus
<1> QED
  BY <1>2, <1>3, <1>4, <1>5, OtherSteps

(* Cancellation: a pending action has no attempt, so whoever the provider  *)
(* took a message from was lost; a cancelled one admits no delivery.       *)
LEMMA CancelledStep ==
    ASSUME Overlap = FALSE, CoreInv, AccountInv, SerialInv, RecordsInv, [Next]_vars
    PROVE  CancelledIsUnsent'
<1> USE DEF Goto, CancelledIsUnsent
<1>0. /\ TypeOK /\ PhaseInv /\ CancelledIsUnsent /\ action \in ActionRow
      /\ accepted \subseteq Requests
      /\ \A r \in Requests : HoldingInv(r)
      /\ action.status = "pending" => Len(attempts) = 0
  BY DEF CoreInv, TypeOK, SerialInv, RecordsInv, SerialRecords
<1>1. ASSUME NEW r \in Requests, RequestStep(r), action'.status = "cancelled"
      PROVE  \A q \in accepted' : pc'[q] = "lost"
  <2>1. \A q \in Requests \ {r} : pc'[q] = pc[q] /\ pc[q] \notin InFlight
    BY <1>1, OthersAtRest
  <2>2. CASE CommitCancel(r)
    <3>1. action.status = "pending" /\ UNCHANGED accepted
      BY <2>2, WithdrawalRow DEF CommitCancel
    <3>2. DOMAIN attempts = {}
      BY <1>0, <3>1 DEF TypeOK
    <3>3. pc[r] = "commit" /\ op[r] = "cancel"
      BY <2>2 DEF CommitCancel
    <3>4. r \notin accepted
      BY <1>0, <3>2, <3>3 DEF AccountInv, PhaseInv
    <3>5. \A q \in accepted : pc[q] = "lost"
      BY <1>0, <2>1, <3>2, <3>4 DEF AccountInv, InFlight
    <3> QED
      BY <1>0, <2>1, <3>1, <3>4, <3>5
  <2>3. CASE CommitAttempt(r) \/ CommitExpiry(r)
    <3>1. action'.status # "cancelled"
      BY <2>3, AttemptUpdatesRow, WithdrawalRow DEF CommitAttempt, CommitExpiry, CommitCancel
    <3> QED
      BY <1>1, <3>1
  <2>4. CASE CallAdapter(r)
    <3>1. action.status \in {"pending", "failed"} /\ UNCHANGED action
      BY <1>0, <2>4 DEF CallAdapter, HoldingInv, Holding, PhaseInv, rowVars
    <3> QED
      BY <1>1, <3>1
  <2>5. CASE ~(CommitCancel(r) \/ CommitAttempt(r) \/ CommitExpiry(r) \/ CallAdapter(r))
    <3>1. UNCHANGED <<action, accepted>> /\ pc[r] # "lost"
      BY <1>1, <2>5 DEF RequestStep, Begin, LoadForDelivery, RequireApproved, LoadForRetry, EvaluateRetry, NewAttempt,
             AttemptConflict, LoadForCancel, LoadForDecision, CommitDecision, Lose, rowVars, InFlight
    <3> QED
      BY <1>0, <1>1, <2>1, <3>1
  <2> QED
    BY <2>2, <2>3, <2>4, <2>5
<1>2. CASE ToggleAccount \/ Archive \/ Unarchive \/ Tick \/ UNCHANGED vars
  BY <1>0, <1>2, ArchivingMarks DEF ToggleAccount, Tick, vars, rowVars
<1> QED
  BY <1>1, <1>2 DEF Next

(* Requests that come one after the other, any of which may be lost at any *)
(* step, leave timestamps, history and cancellation that agree with what   *)
(* happened.                                                               *)
THEOREM SerialRecordsAgree == (Overlap = FALSE) /\ Spec => []SerialRecords
<1> SUFFICES ASSUME Overlap = FALSE
             PROVE  Spec => []SerialRecords
  OBVIOUS
<1> DEFINE Inv == CoreInv /\ AccountInv /\ SerialInv /\ RecordsInv
<1>1. ASSUME Init
      PROVE  Inv
  <2>1. CoreInv /\ AccountInv
    BY <1>1, InitCore DEF Init, AccountInv
  <2>2. SerialInv
    BY <1>1 DEF Init, SerialInv, HoldingInv, Holding, InFlight, NewAction
  <2>3. FailuresHaveKinds /\ TimestampsMatchStatus /\ CancelledIsUnsent
    BY <1>1 DEF Init, FailuresHaveKinds, TimestampsMatchStatus, CancelledIsUnsent, NewAction
  <2>4. HistoryEndsInStatus
    <3>1. audit = <<"created">> /\ action.status = "pending"
      BY <1>1 DEF Init, NewAction
    <3>2. \A i \in DOMAIN audit : audit[i] \notin TransitionEvents
      BY <3>1 DEF TransitionEvents, Statuses
    <3> QED
      BY <3>1, <3>2 DEF HistoryEndsInStatus
  <2> QED
    BY <2>1, <2>2, <2>3, <2>4 DEF RecordsInv, SerialRecords
<1>2. Inv /\ [Next]_vars => Inv'
  <2> SUFFICES ASSUME Inv, [Next]_vars
               PROVE  Inv'
    OBVIOUS
  <2>1. CoreInv' /\ AccountInv' /\ SerialInv'
    BY TypeStep, PhaseStep, NumberingStep, AccountStep, SerialStep DEF CoreInv
  <2>2. FailuresHaveKinds' /\ SerialRecords'
    BY KindsStep, TimestampsStep, HistoryStep, CancelledStep DEF RecordsInv, SerialRecords
  <2> QED
    BY <2>1, <2>2 DEF RecordsInv
<1>3. Inv => SerialRecords
  BY DEF RecordsInv
<1> QED
  BY <1>1, <1>2, <1>3, PTL DEF Spec
=============================================================================
