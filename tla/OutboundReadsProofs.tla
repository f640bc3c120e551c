-------------------------- MODULE OutboundReadsProofs --------------------------
(***************************************************************************)
(* Proofs about OutboundReads, for any set of requests, any retry policy,  *)
(* any delays, any clock, any archiving and any limit of the endpoints.    *)
(***************************************************************************)
EXTENDS OutboundReads, OutboundDeliveryProofs

-----------------------------------------------------------------------------
(* Reading changes nothing.                                                *)
LEMMA ReadStepIsStep ==
    ASSUME [ReadNext]_<<vars, readVars>>
    PROVE  [Next]_vars
<1>1. ASSUME NEW r \in Requests, NEW o \in Operations, Act(r, o)
      PROVE  Next
  BY <1>1 DEF Act, RequestStep, Next
<1>2. ASSUME NEW r \in Requests, Proceed(r)
      PROVE  Next
  BY <1>2 DEF Proceed, RequestStep, Next
<1>3. CASE Elapse
  BY <1>3 DEF Elapse, Next
<1>4. ASSUME NEW r \in Requests, NEW o \in Operations, Ask(r, o)
      PROVE  UNCHANGED vars
  BY <1>4 DEF Ask
<1>5. CASE BeginTimeline \/ ReadSource
  BY <1>5 DEF BeginTimeline, ReadSource
<1> QED
  BY <1>1, <1>2, <1>3, <1>4, <1>5 DEF ReadNext

(* Whatever is asked and composed beside them, the requests do what they   *)
(* do without readers: no read endpoint changes what is stored.            *)
THEOREM ReadsOnlyRead == ReadSpec => Spec
<1>1. ReadInit => Init
  BY DEF ReadInit
<1> QED
  BY <1>1, ReadStepIsStep, PTL DEF ReadSpec, Spec

(* So what was proved of the requests holds beside the readers: the        *)
(* lifecycle of the action ...                                             *)
THEOREM LifecycleBesideReads == (Overlap = FALSE) /\ ReadSpec => ImplementsLifecycle
BY ReadsOnlyRead, SerialImplementsLifecycle

(* ... and the agreement of its records (outbound_delivery.py).            *)
THEOREM RecordsBesideReads == (Overlap = FALSE) /\ ReadSpec => []SerialRecords
BY ReadsOnlyRead, SerialRecordsAgree

-----------------------------------------------------------------------------
(* What holds of the action and its requests, serially.                    *)

(* Serially, an action that failed had reached its time and its approval:  *)
(* so had the delivery that made it fail.                                  *)
OpenOK(r) ==
    /\ pc[r] = "gate" => ~IsBeforeNotBefore
    /\ pc[r] = "number" \/ Attempting(r) => ~IsBeforeNotBefore /\ GateIsOpen
    /\ pc[r] = "commit" /\ op[r] \in {"approve", "reject"} => approval = "pending"

OpenInv ==
    /\ action.status = "failed" => ~IsBeforeNotBefore /\ GateIsOpen
    /\ \A r \in Requests : OpenOK(r)

LEMMA OpenStep ==
    ASSUME Overlap = FALSE, CoreInv, SerialInv, GateInv, OpenInv, [Next]_vars
    PROVE  OpenInv'
<1> USE DEF Goto, rowVars, Outcome, Attempting, IsBeforeNotBefore, GateIsOpen
<1>0. /\ TypeOK /\ PhaseInv /\ clock \in Nat /\ NotBefore \in Nat
      /\ pc \in [Requests -> Phases] /\ result \in [Requests -> Results]
  BY DeliveryAssumptions DEF CoreInv, TypeOK
<1>1. CASE ToggleAccount \/ Archive \/ Unarchive \/ Tick \/ UNCHANGED vars
  <2>1. /\ UNCHANGED <<action, approval, op, pc, result>>
        /\ clock' \in Nat /\ clock <= clock'
    BY <1>0, <1>1, ArchivingMarks DEF ToggleAccount, Tick, vars
  <2> QED
    BY <1>0, <2>1 DEF OpenInv, OpenOK
<1>2. ASSUME NEW r \in Requests, RequestStep(r),
             action'.status = "failed" => ~IsBeforeNotBefore' /\ GateIsOpen',
             OpenOK(r)'
      PROVE  OpenInv'
  <2>1. \A q \in Requests \ {r} : pc'[q] \notin InFlight
    BY <1>2, OthersAtRest
  <2>2. \A q \in Requests \ {r} : OpenOK(q)'
    BY <2>1 DEF OpenOK, InFlight
  <2> QED
    BY <1>2, <2>2 DEF OpenInv
<1>3. ASSUME NEW r \in Requests, RequestStep(r)
      PROVE  OpenInv'
  <2>0. OpenOK(r) /\ HoldingInv(r) /\ (action.status = "failed" => ~IsBeforeNotBefore /\ GateIsOpen)
    BY DEF OpenInv, SerialInv
  <2>1. ASSUME UNCHANGED <<action, approval, clock>>, OpenOK(r)'
        PROVE  OpenInv'
    BY <1>2, <1>3, <2>0, <2>1
  <2>2. ASSUME NEW o \in Operations, Begin(r, o)
        PROVE  OpenInv'
    BY <1>0, <2>1, <2>2 DEF Begin, OpenOK
  <2>3. CASE LoadForDelivery(r)
    BY <1>0, <2>1, <2>3 DEF LoadForDelivery, OpenOK
  <2>4. CASE RequireApproved(r)
    BY <1>0, <2>0, <2>1, <2>4 DEF RequireApproved, OpenOK
  <2>5. CASE LoadForRetry(r)
    BY <1>0, <2>1, <2>5 DEF LoadForRetry, OpenOK
  <2>6. CASE EvaluateRetry(r)
    <3>1. action.status = "failed"
      BY <1>0, <2>0, <2>6 DEF EvaluateRetry, PhaseInv, HoldingInv, Holding
    <3> QED
      BY <1>0, <2>0, <2>1, <2>6, <3>1 DEF EvaluateRetry, OpenOK
  <2>7. CASE NewAttempt(r)
    BY <1>0, <2>0, <2>1, <2>7 DEF NewAttempt, OpenOK
  <2>8. CASE CallAdapter(r)
    <3>1. op[r] \in {"deliver", "retry"}
      BY <1>0, <2>8 DEF CallAdapter, PhaseInv
    <3> QED
      BY <1>0, <2>0, <2>1, <2>8, <3>1 DEF CallAdapter, OpenOK
  <2>9. CASE CommitAttempt(r)
    <3>1. /\ ~IsBeforeNotBefore /\ GateIsOpen
          /\ UNCHANGED <<approval, clock>> /\ pc'[r] = "done"
      BY <1>0, <2>0, <2>9 DEF CommitAttempt, OpenOK
    <3> QED
      BY <1>2, <1>3, <3>1 DEF OpenOK
  <2>10. CASE CommitExpiry(r) \/ CommitCancel(r)
    <3>1. action'.status \in {"expired", "cancelled"}
      BY <2>10, WithdrawalRow
    <3>2. UNCHANGED <<approval, clock>> /\ pc'[r] = "done"
      BY <1>0, <2>10 DEF CommitExpiry, CommitCancel
    <3> QED
      BY <1>2, <1>3, <3>1, <3>2 DEF OpenOK
  <2>11. CASE LoadForCancel(r)
    BY <1>0, <2>1, <2>11 DEF LoadForCancel, OpenOK
  <2>12. CASE LoadForDecision(r)
    BY <1>0, <2>1, <2>12 DEF LoadForDecision, OpenOK
  <2>13. CASE CommitDecision(r)
    <3>1. action.status # "failed"
      BY <2>0, <2>13 DEF CommitDecision, OpenOK, GateInv
    <3>2. UNCHANGED <<action, clock>> /\ pc'[r] = "done"
      BY <1>0, <2>13 DEF CommitDecision
    <3> QED
      BY <1>2, <1>3, <3>1, <3>2 DEF OpenOK
  <2>14. CASE AttemptConflict(r) \/ Lose(r)
    BY <1>0, <2>1, <2>14 DEF AttemptConflict, Lose, OpenOK
  <2> QED
    BY <1>3, <2>2, <2>3, <2>4, <2>5, <2>6, <2>7, <2>8, <2>9, <2>10, <2>11, <2>12, <2>13, <2>14 DEF RequestStep
<1> QED
  BY <1>1, <1>3 DEF Next

-----------------------------------------------------------------------------
(* The state history: after the last event that changed the status only    *)
(* archivings follow.                                                      *)
TrailInv ==
    \/ \A i \in DOMAIN audit : audit[i] \notin TransitionEvents
    \/ \E m \in DOMAIN audit :
          /\ EndsHistory(m)
          /\ \A j \in DOMAIN audit : m < j => audit[j] \in ArchivingEvents

LEMMA TrailStep ==
    ASSUME CoreInv, TrailInv, [Next]_vars
    PROVE  TrailInv'
<1>0. TypeOK /\ Len(audit) \in Nat /\ audit \in Seq(AuditEvents) /\ DOMAIN audit = 1 .. Len(audit)
  BY DEF CoreInv, TypeOK
<1>1. ASSUME NEW last \in Nat, last > 0, DOMAIN audit' = 1 .. last, audit'[last] \in TransitionEvents
      PROVE  TrailInv'
  <2>1. last \in DOMAIN audit' /\ \A j \in DOMAIN audit' : ~(last < j)
    BY <1>1
  <2> QED
    BY <1>1, <2>1 DEF TrailInv, EndsHistory
<1>2. ASSUME NEW r \in Requests, CommitAttempt(r)
      PROVE  TrailInv'
  <2>1. PICK last : last = Len(audit) + (IF op[r] = "retry" THEN 3 ELSE 2)
    OBVIOUS
  <2>2. DOMAIN audit' = 1 .. last /\ audit'[last] = result[r].status /\ last \in Nat /\ last > 0
    BY <1>0, <1>2, <2>1, TrailGrows
  <2>3. result[r].status \in TransitionEvents
    BY <1>2 DEF CommitAttempt, TransitionEvents, Statuses
  <2> QED
    BY <1>1, <2>2, <2>3
<1>3. ASSUME NEW r \in Requests, CommitExpiry(r) \/ CommitCancel(r)
      PROVE  TrailInv'
  <2>1. PICK event \in {"expired", "cancelled"} : audit' = Append(audit, event)
    BY <1>3 DEF CommitExpiry, CommitCancel, AuditEventFor
  <2>2. event \in TransitionEvents /\ event \in AuditEvents
    BY DEF TransitionEvents, AuditEvents, Statuses
  <2>3. DOMAIN audit' = 1 .. Len(audit) + 1 /\ audit'[Len(audit) + 1] = event
    BY <1>0, <2>1, <2>2
  <2> QED
    BY <1>0, <1>1, <2>2, <2>3
<1>4. ASSUME NEW event \in ArchivingEvents, audit' = Append(audit, event)
      PROVE  TrailInv'
  <2>1. event \in AuditEvents /\ event \notin TransitionEvents
    BY DEF ArchivingEvents, TransitionEvents, AuditEvents, Statuses
  <2>2. /\ DOMAIN audit' = 1 .. Len(audit) + 1
        /\ \A i \in 1 .. Len(audit) : audit'[i] = audit[i]
        /\ audit'[Len(audit) + 1] = event
    BY <1>0, <1>4, <2>1
  <2>3. CASE \A i \in DOMAIN audit : audit[i] \notin TransitionEvents
    <3>1. \A i \in DOMAIN audit' : audit'[i] \notin TransitionEvents
      BY <1>0, <2>1, <2>2, <2>3
    <3> QED
      BY <3>1 DEF TrailInv
  <2>4. ASSUME NEW m \in DOMAIN audit, EndsHistory(m), \A j \in DOMAIN audit : m < j => audit[j] \in ArchivingEvents
        PROVE  TrailInv'
    <3>1. /\ m \in DOMAIN audit' /\ audit'[m] \in TransitionEvents
          /\ \A j \in DOMAIN audit' : m < j => audit'[j] \in ArchivingEvents
      BY <1>0, <2>2, <2>4 DEF EndsHistory
    <3>2. ArchivingEvents \cap TransitionEvents = {}
      BY DEF ArchivingEvents, TransitionEvents, Statuses
    <3> QED
      BY <3>1, <3>2 DEF TrailInv, EndsHistory
  <2> QED
    BY <2>3, <2>4 DEF TrailInv
<1>5. CASE UNCHANGED audit
  BY <1>5 DEF TrailInv, EndsHistory
<1> QED
  BY <1>2, <1>3, <1>4, <1>5, OtherSteps

(* However many events are left out, the newest one that changed the       *)
(* status tells it.                                                        *)
LEMMA HistoryOfStatus ==
    ASSUME TypeOK, TrailInv, HistoryEndsInStatus
    PROVE  HistoryTells
<1>0. Len(audit) \in Nat /\ DOMAIN audit = 1 .. Len(audit) /\ ReadLimit \in Nat \ {0}
  BY ReadAssumptions DEF TypeOK
<1>1. CASE \A i \in DOMAIN audit : audit[i] \notin TransitionEvents
  <2>1. StateHistory = {}
    BY <1>1 DEF StateHistory, NewestEvents
  <2> QED
    BY <1>1, <2>1 DEF HistoryEndsInStatus, HistoryTells
<1>2. ASSUME NEW m \in DOMAIN audit, EndsHistory(m), \A j \in DOMAIN audit : m < j => audit[j] \in ArchivingEvents
      PROVE  HistoryTells
  <2>1. m \in Nat /\ audit[m] \in TransitionEvents /\ audit[m] = action.status
    BY <1>0, <1>2 DEF EndsHistory, HistoryEndsInStatus
  <2>2. CASE m \in NewestEvents
    <3>1. m \in StateHistory
      BY <2>1, <2>2 DEF StateHistory
    <3>2. \A i \in StateHistory : i \in Nat /\ i <= m
      BY <1>0, <1>2, <2>1 DEF StateHistory, NewestEvents, EndsHistory
    <3>3. \A x \in StateHistory : (\A y \in StateHistory : x >= y) => x = m
      BY <2>1, <3>1, <3>2
    <3>4. Max(StateHistory) \in StateHistory /\ \A y \in StateHistory : Max(StateHistory) >= y
      BY <2>1, <3>1, <3>2 DEF Max
    <3>5. Max(StateHistory) = m
      BY <3>3, <3>4
    <3> QED
      BY <2>1, <3>1, <3>5 DEF HistoryTells
  <2>3. CASE m \notin NewestEvents
    <3>1. \A i \in NewestEvents : i \in DOMAIN audit /\ m < i
      BY <1>0, <1>2, <2>1, <2>3 DEF NewestEvents
    <3>2. \A i \in NewestEvents : audit[i] \in ArchivingEvents
      BY <1>2, <3>1
    <3>3. ArchivingEvents \cap TransitionEvents = {}
      BY DEF ArchivingEvents, TransitionEvents, Statuses
    <3>4. StateHistory = {}
      BY <3>2, <3>3 DEF StateHistory
    <3> QED
      BY <3>2, <3>4 DEF HistoryTells
  <2> QED
    BY <2>2, <2>3
<1> QED
  BY <1>1, <1>2 DEF TrailInv

-----------------------------------------------------------------------------
(* The times of a timeline.                                                *)

Announced == {j \in DOMAIN audit : audit[j] = "delivery_attempted"}

(* Event j announces an attempt that was started at s.                     *)
StartsRightBefore(s, j, marks) == s < j /\ \A k \in marks : ~(s < k /\ k < j)

(* An attempt that was started at s had the decision it needed.            *)
DecidedBy(s) == approval = "none" \/ (approval = "approved" /\ decidedAt <= s)

(* Serially, every event has its attempt, every attempt its decision, and  *)
(* the attempt under way is started after all that is on record.           *)
StampInv ==
    /\ startedAt \in [Requests -> Nat] /\ decidedAt \in Nat /\ decidedAt <= Len(audit)
    /\ \A r \in Requests : Attempting(r) =>
          /\ startedAt[r] <= Len(audit) + (IF op[r] = "retry" THEN 1 ELSE 0)
          /\ \A k \in Announced : k <= startedAt[r]
          /\ DecidedBy(startedAt[r])
    /\ \A j \in Announced : \E i \in DOMAIN attempts : StartsRightBefore(startedAt[attempts[i].by], j, Announced)
    /\ \A i \in DOMAIN attempts : DecidedBy(startedAt[attempts[i].by])

LEMMA OneMore ==
    ASSUME NEW S, NEW s \in Seq(S), NEW e \in S
    PROVE  /\ DOMAIN Append(s, e) = 1 .. Len(s) + 1 /\ Len(Append(s, e)) = Len(s) + 1
           /\ \A i \in 1 .. Len(s) : Append(s, e)[i] = s[i]
           /\ Append(s, e)[Len(s) + 1] = e
OBVIOUS

(* Steps that neither announce nor start nor decide anything.              *)
LEMMA StampsKept ==
    ASSUME TypeOK, StampInv, UNCHANGED <<attempts, approval, decidedAt>>, startedAt' \in [Requests -> Nat],
           \A i \in DOMAIN attempts : startedAt'[attempts[i].by] = startedAt[attempts[i].by],
           audit' = audit \/ \E event \in AuditEvents \ {"delivery_attempted"} : audit' = Append(audit, event),
           \A q \in Requests : Attempting(q)' => Attempting(q) /\ op'[q] = op[q] /\ startedAt'[q] = startedAt[q]
    PROVE  StampInv'
<1>0. Len(audit) \in Nat /\ audit \in Seq(AuditEvents) /\ DOMAIN audit = 1 .. Len(audit)
  BY DEF TypeOK
<1>1. Announced' = Announced /\ Len(audit') \in Nat /\ Len(audit) <= Len(audit')
  <2>1. CASE audit' = audit
    BY <1>0, <2>1 DEF Announced
  <2>2. ASSUME NEW event \in AuditEvents \ {"delivery_attempted"}, audit' = Append(audit, event)
        PROVE  Announced' = Announced /\ Len(audit') \in Nat /\ Len(audit) <= Len(audit')
    <3>1. /\ DOMAIN audit' = 1 .. Len(audit) + 1 /\ Len(audit') = Len(audit) + 1
          /\ \A i \in 1 .. Len(audit) : audit'[i] = audit[i]
          /\ audit'[Len(audit) + 1] # "delivery_attempted"
      <4>1. event \in AuditEvents /\ event # "delivery_attempted"
        OBVIOUS
      <4>2. PICK longer : longer = Append(audit, event)
        OBVIOUS
      <4>3. /\ DOMAIN longer = 1 .. Len(audit) + 1 /\ Len(longer) = Len(audit) + 1
            /\ \A i \in 1 .. Len(audit) : longer[i] = audit[i]
            /\ longer[Len(audit) + 1] = event
        BY <1>0, <4>1, <4>2, OneMore
      <4>4. audit' = longer
        BY <2>2, <4>2
      <4> QED
        BY <4>1, <4>3, <4>4
    <3> QED
      BY <1>0, <3>1 DEF Announced
  <2> QED
    BY <2>1, <2>2
<1>2. \A s : DecidedBy(s)' <=> DecidedBy(s)
  BY DEF DecidedBy
<1>3. \A r \in Requests : Attempting(r)' =>
          /\ startedAt'[r] <= Len(audit') + (IF op'[r] = "retry" THEN 1 ELSE 0)
          /\ \A k \in Announced' : k <= startedAt'[r]
          /\ DecidedBy(startedAt'[r])
  <2> SUFFICES ASSUME NEW r \in Requests, Attempting(r)'
               PROVE  /\ startedAt'[r] <= Len(audit') + (IF op'[r] = "retry" THEN 1 ELSE 0)
                      /\ \A k \in Announced' : k <= startedAt'[r]
                      /\ DecidedBy(startedAt'[r])
    OBVIOUS
  <2>1. /\ Attempting(r) /\ op'[r] = op[r] /\ startedAt'[r] = startedAt[r] /\ startedAt[r] \in Nat
        /\ startedAt[r] <= Len(audit) + (IF op[r] = "retry" THEN 1 ELSE 0)
        /\ \A k \in Announced : k <= startedAt[r]
        /\ DecidedBy(startedAt[r])
    BY DEF StampInv
  <2> QED
    BY <1>0, <1>1, <2>1
<1>4. \A j \in Announced : \E i \in DOMAIN attempts : StartsRightBefore(startedAt'[attempts[i].by], j, Announced)
  BY DEF StampInv
<1>5. \A i \in DOMAIN attempts : DecidedBy(startedAt'[attempts[i].by])
  BY DEF StampInv
<1>6. decidedAt' \in Nat /\ decidedAt' <= Len(audit')
  BY <1>0, <1>1 DEF StampInv
<1> QED
  BY <1>1, <1>2, <1>3, <1>4, <1>5, <1>6 DEF StampInv

(* An attempt is started.                                                  *)
LEMMA StampStarted ==
    ASSUME Overlap = FALSE, CoreInv, AccountInv, SerialInv, OpenInv, StampInv, NEW r \in Requests,
           NewAttempt(r), Proceed(r)
    PROVE  StampInv'
<1>0. /\ TypeOK /\ Len(audit) \in Nat /\ DOMAIN audit = 1 .. Len(audit)
      /\ pc \in [Requests -> Phases] /\ startedAt \in [Requests -> Nat] /\ decidedAt \in Nat
  BY DEF CoreInv, TypeOK, StampInv
<1>1. pc[r] = "number" /\ pc'[r] = "call" /\ UNCHANGED <<attempts, audit, approval, op>>
  BY <1>0 DEF NewAttempt, Goto, rowVars
<1>2. PICK s : s = Len(audit) + (IF op[r] = "retry" THEN 1 ELSE 0)
  OBVIOUS
<1>s. Len(audit) <= s /\ s <= Len(audit) + (IF op[r] = "retry" THEN 1 ELSE 0)
  <2>1. CASE op[r] = "retry"
    BY <1>0, <1>2, <2>1
  <2>2. CASE op[r] # "retry"
    BY <1>0, <1>2, <2>2
  <2> QED
    BY <2>1, <2>2
<1>3. s \in Nat /\ startedAt' = [startedAt EXCEPT ![r] = s] /\ UNCHANGED decidedAt
  BY <1>0, <1>1, <1>2 DEF Proceed, Stamp
<1>4. \A i \in DOMAIN attempts : attempts[i].by # r /\ startedAt'[attempts[i].by] = startedAt[attempts[i].by]
  <2>1. \A i \in DOMAIN attempts : pc[attempts[i].by] = "done" /\ attempts[i].by \in Requests
    BY <1>0, AttemptsBelong DEF AccountInv
  <2> QED
    BY <1>0, <1>1, <1>3, <2>1
<1>5. Announced' = Announced /\ \A k \in Announced : k \in Nat /\ k <= Len(audit)
  BY <1>0, <1>1 DEF Announced
<1>6. \A t : DecidedBy(t)' <=> DecidedBy(t)
  BY <1>1, <1>3 DEF DecidedBy
<1>7. DecidedBy(s)
  <2>1. approval \in {"none", "approved"}
    BY <1>1 DEF OpenInv, OpenOK, GateIsOpen
  <2>2. decidedAt <= Len(audit) /\ Len(audit) <= s
    BY <1>s DEF StampInv
  <2> QED
    BY <1>0, <1>3, <2>1, <2>2 DEF DecidedBy
<1>8. ASSUME NEW q \in Requests, Attempting(q)'
      PROVE  q = r
  <2>1. RequestStep(r)
    BY DEF RequestStep
  <2>2. q # r => pc'[q] \notin InFlight
    BY <2>1, OthersAtRest
  <2> QED
    BY <1>8, <2>2 DEF Attempting, InFlight
<1>9. /\ startedAt'[r] = s /\ startedAt'[r] <= Len(audit') + (IF op'[r] = "retry" THEN 1 ELSE 0)
      /\ \A k \in Announced' : k <= startedAt'[r]
      /\ DecidedBy(startedAt'[r])
  <2>1. startedAt'[r] = s /\ op'[r] = op[r] /\ Len(audit') = Len(audit)
    BY <1>0, <1>1, <1>3
  <2>2. s <= Len(audit) + (IF op[r] = "retry" THEN 1 ELSE 0)
    BY <1>s
  <2>3. \A k \in Announced' : k <= s
    BY <1>0, <1>s, <1>3, <1>5
  <2> QED
    BY <1>7, <2>1, <2>2, <2>3
<1>10. /\ \A j \in Announced : \E i \in DOMAIN attempts : StartsRightBefore(startedAt'[attempts[i].by], j, Announced)
       /\ \A i \in DOMAIN attempts : DecidedBy(startedAt'[attempts[i].by])
  BY <1>4 DEF StampInv
<1>11. decidedAt' <= Len(audit')
  BY <1>1, <1>3 DEF StampInv
<1>12. \A q \in Requests : Attempting(q)' =>
          /\ startedAt'[q] <= Len(audit') + (IF op'[q] = "retry" THEN 1 ELSE 0)
          /\ \A k \in Announced' : k <= startedAt'[q]
          /\ DecidedBy(startedAt'[q])
  BY <1>8, <1>9
<1> QED
  BY <1>0, <1>1, <1>3, <1>5, <1>6, <1>10, <1>11, <1>12 DEF StampInv

(* An attempt is committed, and announced.                                 *)
LEMMA StampCommitted ==
    ASSUME Overlap = FALSE, CoreInv, AccountInv, SerialInv, StampInv, NEW r \in Requests,
           CommitAttempt(r), Proceed(r)
    PROVE  StampInv'
<1>0. /\ TypeOK /\ Len(audit) \in Nat /\ DOMAIN audit = 1 .. Len(audit)
      /\ Len(attempts) \in Nat /\ DOMAIN attempts = 1 .. Len(attempts)
      /\ pc \in [Requests -> Phases] /\ startedAt \in [Requests -> Nat] /\ decidedAt \in Nat
  BY DEF CoreInv, TypeOK, StampInv
<1>1. pc[r] = "commit" /\ Attempting(r) /\ pc'[r] = "done" /\ UNCHANGED <<approval, op>>
  BY <1>0 DEF CommitAttempt, Goto, rowVars, Attempting
<1>2. UNCHANGED <<startedAt, decidedAt>>
  BY <1>1 DEF Proceed, Stamp
<1>3. PICK row : /\ attempts' = Append(attempts, row) /\ row.by = r
  BY DEF CommitAttempt
<1>4. /\ DOMAIN attempts' = 1 .. Len(attempts) + 1
      /\ \A i \in DOMAIN attempts : attempts'[i] = attempts[i]
      /\ attempts'[Len(attempts) + 1].by = r
  <2>1. PICK S : S = AttemptRow \cup {row}
    OBVIOUS
  <2>2. attempts \in Seq(S) /\ row \in S
    BY <1>0, <2>1, SeqMonotonic DEF TypeOK
  <2> QED
    BY <1>0, <1>3, <2>2
<1>5. PICK s \in Nat : s = startedAt[r]
  BY <1>0
<1>6. PICK last : last = Len(audit) + (IF op[r] = "retry" THEN 3 ELSE 2)
  OBVIOUS
<1>7. /\ last \in Nat /\ DOMAIN audit' = 1 .. last
      /\ \A i \in 1 .. Len(audit) : audit'[i] = audit[i]
      /\ audit'[last] \in {"delivered", "failed"}
      /\ audit'[last - 1] = "delivery_attempted"
      /\ op[r] = "retry" => audit'[last - 2] = "retried"
  <2>1. result[r].status \in {"delivered", "failed"}
    BY DEF CommitAttempt
  <2>2. last \in Nat
    BY <1>0, <1>6
  <2> QED
    BY <1>0, <1>6, <2>1, <2>2, TrailGrows
<1>8. Announced' = Announced \cup {last - 1} /\ \A k \in Announced : k \in Nat /\ k <= Len(audit)
  BY <1>0, <1>6, <1>7 DEF Announced
<1>9. s < last - 1 /\ \A k \in Announced : k <= s
  BY <1>0, <1>1, <1>5, <1>6 DEF StampInv
<1>10. \A t, j : j \in Announced /\ StartsRightBefore(t, j, Announced) => StartsRightBefore(t, j, Announced')
  BY <1>0, <1>6, <1>8 DEF StartsRightBefore
<1>11. StartsRightBefore(s, last - 1, Announced')
  BY <1>0, <1>6, <1>8, <1>9 DEF StartsRightBefore
<1>12. ASSUME NEW j \in Announced'
       PROVE  \E i \in DOMAIN attempts' : StartsRightBefore(startedAt[attempts'[i].by], j, Announced')
  <2>1. CASE j \in Announced
    <3>1. PICK i \in DOMAIN attempts : StartsRightBefore(startedAt[attempts[i].by], j, Announced)
      BY <2>1 DEF StampInv
    <3>2. i \in DOMAIN attempts' /\ attempts'[i] = attempts[i]
      BY <1>0, <1>4
    <3> QED
      BY <1>10, <2>1, <3>1, <3>2
  <2>2. CASE j = last - 1
    <3>1. Len(attempts) + 1 \in DOMAIN attempts'
      BY <1>0, <1>4
    <3> QED
      BY <1>4, <1>5, <1>11, <2>2, <3>1
  <2> QED
    BY <1>8, <2>1, <2>2
<1>13. \A i \in DOMAIN attempts' : DecidedBy(startedAt[attempts'[i].by])
  BY <1>0, <1>1, <1>4 DEF StampInv
<1>14. \A t : DecidedBy(t)' <=> DecidedBy(t)
  BY <1>1, <1>2 DEF DecidedBy
<1>15. ASSUME NEW q \in Requests
       PROVE  ~Attempting(q)'
  <2>1. RequestStep(r)
    BY DEF RequestStep
  <2>2. q # r => pc'[q] \notin InFlight
    BY <2>1, OthersAtRest
  <2> QED
    BY <1>1, <2>2 DEF Attempting, InFlight
<1>16. Len(audit') = last
  <2>1. audit' \in Seq(AuditEvents)
    BY TypeStep DEF Next, RequestStep, TypeOK
  <2> QED
    BY <1>7, <2>1
<1>17. decidedAt <= Len(audit')
  BY <1>0, <1>6, <1>16 DEF StampInv
<1>18. \A j \in Announced' : \E i \in DOMAIN attempts' : StartsRightBefore(startedAt'[attempts'[i].by], j, Announced')
  BY <1>2, <1>12
<1> QED
  BY <1>0, <1>2, <1>13, <1>14, <1>15, <1>17, <1>18 DEF StampInv

LEMMA StampStep ==
    ASSUME Overlap = FALSE, CoreInv, AccountInv, SerialInv, OpenInv, ApprovalPrecedesDelivery, StampInv,
           [ReadNext]_<<vars, readVars>>
    PROVE  StampInv'
<1>0. /\ TypeOK /\ pc \in [Requests -> Phases] /\ startedAt \in [Requests -> Nat]
      /\ Len(audit) \in Nat
  BY DEF CoreInv, TypeOK, StampInv
<1>1. ASSUME UNCHANGED <<vars, stamps>>
      PROVE  StampInv'
  <2>1. UNCHANGED <<attempts, approval, decidedAt, startedAt, audit, op, pc, result>>
    BY <1>1 DEF vars, stamps
  <2>2. \A q \in Requests : Attempting(q)' => Attempting(q)
    BY <2>1 DEF Attempting
  <2> QED
    BY <1>0, <2>1, <2>2, StampsKept
<1>2. CASE Elapse
  <2>1. /\ UNCHANGED <<attempts, approval, decidedAt, startedAt, op, pc, result>>
        /\ audit' = audit \/ \E event \in ArchivingEvents : audit' = Append(audit, event)
    BY <1>2, ArchivingMarks DEF Elapse, ToggleAccount, Tick, stamps, rowVars
  <2>2. \A q \in Requests : Attempting(q)' => Attempting(q)
    BY <2>1 DEF Attempting
  <2>3. ArchivingEvents \subseteq AuditEvents \ {"delivery_attempted"}
    BY DEF ArchivingEvents, AuditEvents
  <2> QED
    BY <1>0, <2>1, <2>2, <2>3, StampsKept
<1>3. ASSUME NEW r \in Requests, NEW o \in Operations, Act(r, o)
      PROVE  StampInv'
  <2>1. /\ UNCHANGED <<attempts, approval, decidedAt, startedAt, audit, result>>
        /\ pc'[r] \in {"admitted", "refused"}
        /\ \A q \in Requests : q # r => pc'[q] = pc[q] /\ op'[q] = op[q]
    BY <1>0, <1>3 DEF Act, Begin, Goto, rowVars, readVars, CoreInv, TypeOK
  <2>2. \A q \in Requests : Attempting(q)' => Attempting(q) /\ op'[q] = op[q]
    BY <2>1 DEF Attempting
  <2> QED
    BY <1>0, <2>1, <2>2, StampsKept
<1>4. ASSUME NEW r \in Requests, Proceed(r)
      PROVE  StampInv'
  <2>1. RequestStep(r)
    BY <1>4 DEF Proceed, RequestStep
  <2>2. \A q \in Requests \ {r} : ~Attempting(q)'
    BY <2>1, OthersAtRest DEF Attempting, InFlight
  <2>3. pc[r] \in InFlight
    BY <1>4 DEF Proceed, LoadForDelivery, RequireApproved, LoadForRetry, EvaluateRetry, NewAttempt, CallAdapter,
                CommitAttempt, AttemptConflict, CommitExpiry, LoadForCancel, CommitCancel, LoadForDecision,
                CommitDecision, Lose, InFlight
  <2>4. \A i \in DOMAIN attempts : attempts[i].by \in Requests /\ attempts[i].by # r
    <3>1. \A i \in DOMAIN attempts : pc[attempts[i].by] = "done" /\ attempts[i].by \in Requests
      BY <1>0, AttemptsBelong DEF AccountInv
    <3> QED
      BY <2>3, <3>1 DEF InFlight
  <2>5. /\ pc'[r] # "call" => startedAt' \in [Requests -> Nat]
        /\ pc'[r] # "call" => \A q \in Requests \ {r} : startedAt'[q] = startedAt[q]
        /\ pc'[r] \notin {"call", "lost"} => startedAt' = startedAt
        /\ approval' = approval => decidedAt' = decidedAt
    BY <1>0, <1>4 DEF Proceed, Stamp
  <2>6. CASE NewAttempt(r)
    BY <1>4, <2>6, StampStarted
  <2>7. CASE CommitAttempt(r)
    BY <1>4, <2>7, StampCommitted
  <2>8. CASE CommitDecision(r)
    <3>1. pc[r] = "commit" /\ op[r] \in {"approve", "reject"} /\ pc'[r] = "done" /\ UNCHANGED <<attempts, audit>>
      BY <1>0, <2>8 DEF CommitDecision, Goto
    <3>2. approval = "pending" /\ attempts = << >> /\ DOMAIN attempts = {}
      BY <3>1 DEF OpenInv, OpenOK, ApprovalPrecedesDelivery
    <3>3. Announced = {} /\ Announced' = {}
      <4>1. Announced = {}
        BY <3>2 DEF StampInv
      <4> QED
        BY <3>1, <4>1 DEF Announced
    <3>4. startedAt' = startedAt /\ decidedAt' \in {decidedAt, Len(audit)} /\ decidedAt' \in Nat
      BY <1>0, <1>4, <2>5, <3>1 DEF Proceed, Stamp, StampInv
    <3>5. ~Attempting(r)'
      BY <3>1 DEF Attempting
    <3>6. decidedAt' <= Len(audit')
      BY <1>0, <3>1, <3>4 DEF StampInv
    <3> QED
      BY <1>0, <2>2, <3>1, <3>2, <3>3, <3>4, <3>5, <3>6 DEF StampInv
  <2>9. CASE CommitExpiry(r) \/ CommitCancel(r)
    <3>1. /\ UNCHANGED <<attempts, approval>> /\ pc'[r] = "done"
          /\ \E event \in {"expired", "cancelled"} : audit' = Append(audit, event)
      BY <1>0, <2>9 DEF CommitExpiry, CommitCancel, AuditEventFor, Goto
    <3>2. {"expired", "cancelled"} \subseteq AuditEvents \ {"delivery_attempted"}
      BY DEF AuditEvents, TransitionEvents, Statuses
    <3>3. ~Attempting(r)'
      BY <3>1 DEF Attempting
    <3> QED
      BY <1>0, <2>2, <2>5, <3>1, <3>2, <3>3, StampsKept
  <2>10. CASE CallAdapter(r)
    <3>1. UNCHANGED <<attempts, approval, audit, op>> /\ pc[r] = "call" /\ pc'[r] = "commit"
      BY <1>0, <2>10 DEF CallAdapter, Goto, rowVars
    <3>2. \A q \in Requests : Attempting(q)' => Attempting(q) /\ op'[q] = op[q]
      BY <2>2, <3>1 DEF Attempting
    <3> QED
      BY <1>0, <2>5, <3>1, <3>2, StampsKept
  <2>11. CASE ~(NewAttempt(r) \/ CommitAttempt(r) \/ CommitDecision(r) \/ CommitExpiry(r) \/ CommitCancel(r) \/ CallAdapter(r))
    <3>1. UNCHANGED <<attempts, approval, audit>> /\ ~Attempting(r)' /\ pc'[r] # "call"
      <4>1. CASE LoadForDelivery(r)
        BY <1>0, <4>1 DEF LoadForDelivery, Attempting, Goto, rowVars, Outcome, CoreInv, TypeOK
      <4>2. CASE LoadForCancel(r)
        BY <1>0, <4>2 DEF LoadForCancel, Attempting, Goto, rowVars, Outcome, CoreInv, TypeOK
      <4>3. CASE LoadForDecision(r)
        BY <1>0, <4>3 DEF LoadForDecision, Attempting, Goto, rowVars, Outcome, CoreInv, TypeOK
      <4>4. CASE RequireApproved(r) \/ LoadForRetry(r) \/ EvaluateRetry(r) \/ AttemptConflict(r) \/ Lose(r)
        BY <1>0, <4>4 DEF RequireApproved, LoadForRetry, EvaluateRetry, AttemptConflict, Lose, Attempting, Goto, rowVars
      <4> QED
        BY <1>4, <2>11, <4>1, <4>2, <4>3, <4>4 DEF Proceed
    <3> QED
      BY <1>0, <2>2, <2>4, <2>5, <3>1, StampsKept
  <2> QED
    BY <2>6, <2>7, <2>8, <2>9, <2>10, <2>11
<1>5. ASSUME NEW r \in Requests, NEW o \in Operations, Ask(r, o)
      PROVE  StampInv'
  BY <1>1, <1>5 DEF Ask
<1>6. CASE BeginTimeline \/ ReadSource \/ UNCHANGED <<vars, readVars>>
  BY <1>1, <1>6 DEF BeginTimeline, ReadSource, readVars, stamps
<1> QED
  BY <1>2, <1>3, <1>4, <1>5, <1>6 DEF ReadNext

-----------------------------------------------------------------------------
(* The timeline.                                                           *)
LEMMA AttemptsGrow ==
    ASSUME TypeOK, [Next]_vars
    PROVE  /\ Len(attempts) \in Nat /\ Len(attempts') \in Nat /\ Len(attempts) <= Len(attempts')
           /\ attempts # << >> => attempts' # << >>
<1>0. attempts \in Seq(AttemptRow)
  BY DEF TypeOK
<1>1. CASE UNCHANGED attempts
  BY <1>0, <1>1
<1>2. ASSUME NEW row, attempts' = Append(attempts, row)
      PROVE  Len(attempts') = Len(attempts) + 1 /\ attempts' # << >>
  <2>1. PICK S : S = AttemptRow \cup {row}
    OBVIOUS
  <2>2. attempts \in Seq(S) /\ row \in S
    BY <1>0, <2>1, SeqMonotonic
  <2> QED
    BY <1>2, <2>2
<1>3. UNCHANGED attempts \/ \E row : attempts' = Append(attempts, row)
  BY DEF Next, vars, rowVars, ToggleAccount, Archive, Unarchive, SetArchived, Tick, RequestStep, Begin,
         LoadForDelivery, RequireApproved, LoadForRetry, EvaluateRetry, NewAttempt, CallAdapter, CommitAttempt, AttemptConflict, CommitExpiry, LoadForCancel,
         CommitCancel, LoadForDecision, CommitDecision, Lose
<1> QED
  BY <1>0, <1>1, <1>2, <1>3

(* What is on record stays on record, with its times.                      *)
LEMMA RecordsStay ==
    ASSUME CoreInv, AccountInv, StampInv, [ReadNext]_<<vars, readVars>>
    PROVE  /\ Announced \subseteq Announced'
           /\ Len(attempts) <= Len(attempts')
           /\ \A i \in DOMAIN attempts :
                 i \in DOMAIN attempts' /\ startedAt'[attempts'[i].by] = startedAt[attempts[i].by]
<1>0. /\ TypeOK /\ Len(audit) \in Nat /\ audit \in Seq(AuditEvents) /\ DOMAIN audit = 1 .. Len(audit)
      /\ [Next]_vars /\ attempts \in Seq(AttemptRow) /\ startedAt \in [Requests -> Nat]
      /\ Len(attempts) \in Nat /\ DOMAIN attempts = 1 .. Len(attempts)
  BY ReadStepIsStep DEF CoreInv, TypeOK, StampInv
<1>1. Announced \subseteq Announced'
  <2>1. ASSUME NEW event \in AuditEvents, audit' = Append(audit, event)
        PROVE  Announced \subseteq Announced'
    <3>1. DOMAIN audit' = 1 .. Len(audit) + 1 /\ \A i \in 1 .. Len(audit) : audit'[i] = audit[i]
      BY <1>0, <2>1, OneMore
    <3> QED
      BY <1>0, <3>1 DEF Announced
  <2>2. ASSUME NEW r \in Requests, CommitAttempt(r)
        PROVE  Announced \subseteq Announced'
    <3>1. PICK last : last = Len(audit) + (IF op[r] = "retry" THEN 3 ELSE 2)
      OBVIOUS
    <3>2. /\ DOMAIN audit' = 1 .. last /\ last \in Nat /\ Len(audit) <= last
          /\ \A i \in 1 .. Len(audit) : audit'[i] = audit[i]
      BY <1>0, <2>2, <3>1, TrailGrows
    <3> QED
      BY <1>0, <3>2 DEF Announced
  <2>3. ASSUME NEW r \in Requests, CommitExpiry(r) \/ CommitCancel(r)
        PROVE  Announced \subseteq Announced'
    <3>1. PICK event \in {"expired", "cancelled"} : audit' = Append(audit, event)
      BY <2>3 DEF CommitExpiry, CommitCancel, AuditEventFor
    <3>2. event \in AuditEvents
      BY DEF AuditEvents, TransitionEvents, Statuses
    <3> QED
      BY <2>1, <3>1, <3>2
  <2>4. ArchivingEvents \subseteq AuditEvents
    BY DEF AuditEvents
  <2>5. CASE UNCHANGED audit
    BY <2>5 DEF Announced
  <2> QED
    BY <1>0, <2>1, <2>2, <2>3, <2>4, <2>5, OtherSteps
<1>2. ASSUME NEW i \in DOMAIN attempts
      PROVE  i \in DOMAIN attempts' /\ attempts'[i] = attempts[i]
  <2>1. ASSUME NEW row, attempts' = Append(attempts, row)
        PROVE  i \in DOMAIN attempts' /\ attempts'[i] = attempts[i]
    <3>1. PICK S : S = AttemptRow \cup {row}
      OBVIOUS
    <3>2. attempts \in Seq(S) /\ row \in S
      BY <1>0, <3>1, SeqMonotonic
    <3> QED
      BY <1>0, <2>1, <3>2
  <2>2. UNCHANGED attempts \/ \E row : attempts' = Append(attempts, row)
    BY <1>0 DEF Next, vars, rowVars, ToggleAccount, Archive, Unarchive, SetArchived, Tick, RequestStep, Begin,
         LoadForDelivery, RequireApproved, LoadForRetry, EvaluateRetry, NewAttempt, CallAdapter, CommitAttempt,
         AttemptConflict, CommitExpiry, LoadForCancel, CommitCancel, LoadForDecision, CommitDecision, Lose
  <2> QED
    BY <2>1, <2>2
<1>3. ASSUME NEW i \in DOMAIN attempts
      PROVE  startedAt'[attempts[i].by] = startedAt[attempts[i].by]
  <2>1. pc[attempts[i].by] = "done" /\ attempts[i].by \in Requests
    BY <1>0, AttemptsBelong DEF AccountInv
  <2>2. ASSUME NEW r \in Requests, Proceed(r)
        PROVE  startedAt'[attempts[i].by] = startedAt[attempts[i].by]
    <3>1. pc[r] # "done"
      BY <2>2 DEF Proceed, LoadForDelivery, RequireApproved, LoadForRetry, EvaluateRetry, NewAttempt, CallAdapter,
                  CommitAttempt, AttemptConflict, CommitExpiry, LoadForCancel, CommitCancel, LoadForDecision,
                  CommitDecision, Lose, InFlight
    <3>2. \/ startedAt' = startedAt
          \/ \E s : startedAt' = [startedAt EXCEPT ![r] = s]
      BY <2>2 DEF Proceed, Stamp
    <3> QED
      BY <1>0, <2>1, <3>1, <3>2
  <2>3. UNCHANGED startedAt \/ \E r \in Requests : Proceed(r)
    BY DEF ReadNext, readVars, stamps, Elapse, Ask, Act, BeginTimeline, ReadSource
  <2> QED
    BY <2>2, <2>3
<1>4. Len(attempts) <= Len(attempts')
  BY <1>0, AttemptsGrow
<1> QED
  BY <1>1, <1>2, <1>3, <1>4

(* Every query returns finitely many entries, with their times.            *)
LEMMA EntriesAreTimed ==
    ASSUME TypeOK, StampInv, NEW source \in {"audit", "attempts", "approval"}
    PROVE  IsFiniteSet(Entries(source)) /\ \A e \in Entries(source) : e.at \in Nat
<1>0. /\ Len(audit) \in Nat /\ DOMAIN audit = 1 .. Len(audit)
      /\ Len(attempts) \in Nat /\ DOMAIN attempts = 1 .. Len(attempts)
      /\ startedAt \in [Requests -> Nat] /\ decidedAt \in Nat
  BY DEF TypeOK, StampInv
<1>1. CASE source = "audit"
  <2> DEFINE f == [i \in NewestEvents |-> Entry(audit[i], 3 * i)]
  <2>1. NewestEvents \in SUBSET (1 .. Len(audit))
    BY <1>0 DEF NewestEvents
  <2>2. IsFiniteSet(NewestEvents)
    <3>1. PICK n \in Nat : n = Len(audit)
      BY <1>0
    <3>2. IsFiniteSet(1 .. n)
      BY FS_Interval
    <3> QED
      BY <2>1, <3>1, <3>2, FS_Subset
  <2>3. f \in Surjection(NewestEvents, Entries(source))
    BY <1>1 DEF Surjection, Entries
  <2>4. IsFiniteSet(Entries(source))
    BY <2>2, <2>3, FS_Surjection
  <2>5. \A e \in Entries(source) : e.at \in Nat
    BY <1>0, <1>1, <2>1 DEF Entries, Entry
  <2> QED
    BY <2>4, <2>5
<1>2. CASE source = "attempts"
  <2> DEFINE f == [i \in OldestAttempts |-> Entry("attempt", 3 * startedAt[attempts[i].by] + 2)]
  <2>1. OldestAttempts \in SUBSET (1 .. Len(attempts))
    BY <1>0 DEF OldestAttempts
  <2>2. IsFiniteSet(OldestAttempts)
    <3>1. PICK n \in Nat : n = Len(attempts)
      BY <1>0
    <3>2. IsFiniteSet(1 .. n)
      BY FS_Interval
    <3> QED
      BY <2>1, <3>1, <3>2, FS_Subset
  <2>3. f \in Surjection(OldestAttempts, Entries(source))
    BY <1>2 DEF Surjection, Entries
  <2>4. IsFiniteSet(Entries(source))
    BY <2>2, <2>3, FS_Surjection
  <2>5. \A i \in OldestAttempts : startedAt[attempts[i].by] \in Nat
    BY <1>0, <2>1, AttemptsBelong
  <2>6. \A e \in Entries(source) : e.at \in Nat
    BY <1>2, <2>5 DEF Entries, Entry
  <2> QED
    BY <2>4, <2>6
<1>3. CASE source = "approval"
  <2>1. Entries(source) = (IF approval = "none" THEN {} ELSE {Entry("approval_requested", 0)})
                            \cup (IF approval \in DOMAIN DecisionEvent
                                  THEN {Entry(DecisionEvent[approval], 3 * decidedAt + 1)} ELSE {})
    BY <1>3 DEF Entries
  <2>2. \A x : IsFiniteSet({x})
    BY FS_Singleton
  <2>3. /\ IsFiniteSet(IF approval = "none" THEN {} ELSE {Entry("approval_requested", 0)})
        /\ IsFiniteSet(IF approval \in DOMAIN DecisionEvent
                       THEN {Entry(DecisionEvent[approval], 3 * decidedAt + 1)} ELSE {})
    BY <2>2, FS_EmptySet
  <2>4. IsFiniteSet(Entries(source))
    BY <2>1, <2>3, FS_Union
  <2>5. \A e \in Entries(source) : e.at \in Nat
    BY <1>0, <2>1 DEF Entry
  <2> QED
    BY <2>4, <2>5
<1> QED
  BY <1>1, <1>2, <1>3

IsAttempt(e) == e.what = "attempt"

(* An entry of an attempt on record.                                       *)
OfRecord(e) == \E i \in DOMAIN attempts : e.at = 3 * startedAt[attempts[i].by] + 2

(* Query by query: what was announced has its attempt once the attempts    *)
(* are read, and what was started its decision once the approval is read.  *)
TimelineInv ==
    /\ timeline.next \in 1 .. 4
    /\ timeline = [next |-> timeline.next, entries |-> timeline.entries]
    /\ IsFiniteSet(timeline.entries) /\ \A e \in timeline.entries : e.at \in Nat
    /\ timeline.next = 1 => timeline.entries = {}
    /\ \A e \in timeline.entries : Announces(e) => \E j \in Announced : e.at = 3 * j
    /\ \A e \in timeline.entries : IsAttempt(e) => timeline.next >= 3 /\ OfRecord(e)
    /\ timeline.next >= 3 =>
          \A e \in timeline.entries : Announces(e) => ReadLimit < Len(attempts) \/ ComesWithAttempt(e, timeline.entries)
    /\ timeline.next = 4 /\ NeedsDecision =>
          \A e \in timeline.entries : IsAttempt(e) => ComesWithDecision(e, timeline.entries)
    /\ NeedsDecision => timeline.next = 4

LEMMA TimelineKept ==
    ASSUME CoreInv, AccountInv, StampInv, TimelineInv, [ReadNext]_<<vars, readVars>>, UNCHANGED timeline
    PROVE  TimelineInv'
<1>0. TypeOK /\ Len(attempts) \in Nat /\ Len(attempts') \in Nat /\ ReadLimit \in Nat
  BY ReadStepIsStep, AttemptsGrow, ReadAssumptions DEF CoreInv
<1>1. \A e : OfRecord(e) => OfRecord(e)'
  <2> SUFFICES ASSUME NEW e, NEW i \in DOMAIN attempts, e.at = 3 * startedAt[attempts[i].by] + 2
               PROVE  \E k \in DOMAIN attempts' : e.at = 3 * startedAt'[attempts'[k].by] + 2
    BY DEF OfRecord
  <2> QED
    BY RecordsStay
<1>2. Announced \subseteq Announced' /\ Len(attempts) <= Len(attempts')
  BY RecordsStay
<1>3. ReadLimit < Len(attempts) => ReadLimit < Len(attempts')
  BY <1>0, <1>2
<1>4. NeedsDecision' = NeedsDecision
  BY DEF NeedsDecision
<1> QED
  BY <1>1, <1>2, <1>3, <1>4 DEF TimelineInv

(* The attempts are read: each event read before them is explained by one. *)
LEMMA AttemptsRead ==
    ASSUME TypeOK, StampInv, NEW entries, \A e \in entries : Announces(e) => \E j \in Announced : e.at = 3 * j,
           NEW all, all = entries \cup Entries("attempts")
    PROVE  /\ \A e \in Entries("attempts") : IsAttempt(e) /\ OfRecord(e)
           /\ \A e \in all : Announces(e) => ReadLimit < Len(attempts) \/ ComesWithAttempt(e, all)
<1>0. /\ Len(attempts) \in Nat /\ DOMAIN attempts = 1 .. Len(attempts) /\ ReadLimit \in Nat
      /\ startedAt \in [Requests -> Nat] /\ Announced \subseteq Nat
  BY ReadAssumptions DEF TypeOK, StampInv, Announced
<1>1. Entries("attempts") = {Entry("attempt", 3 * startedAt[attempts[i].by] + 2) : i \in OldestAttempts}
  BY DEF Entries
<1>2. ASSUME NEW e \in Entries("attempts")
      PROVE  IsAttempt(e) /\ OfRecord(e) /\ ~Announces(e)
  <2>1. PICK i \in OldestAttempts : e = Entry("attempt", 3 * startedAt[attempts[i].by] + 2)
    BY <1>1
  <2>2. i \in DOMAIN attempts
    BY DEF OldestAttempts
  <2>3. e.what = "attempt" /\ e.at = 3 * startedAt[attempts[i].by] + 2
    BY <2>1 DEF Entry
  <2> QED
    BY <2>2, <2>3 DEF IsAttempt, OfRecord, Announces
<1>3. ASSUME NEW e \in all, Announces(e), ~(ReadLimit < Len(attempts))
      PROVE  ComesWithAttempt(e, all)
  <2>1. PICK j \in Announced : e.at = 3 * j
    BY <1>2, <1>3
  <2>2. PICK i \in DOMAIN attempts : StartsRightBefore(startedAt[attempts[i].by], j, Announced)
    BY DEF StampInv
  <2>3. PICK s \in Nat : s = startedAt[attempts[i].by]
    BY <1>0, AttemptsBelong
  <2>4. i \in OldestAttempts
    BY <1>0, <1>3 DEF OldestAttempts
  <2>5. PICK f : f = Entry("attempt", 3 * s + 2)
    OBVIOUS
  <2>6. f \in all /\ f.what = "attempt" /\ f.at = 3 * s + 2
    BY <1>1, <2>3, <2>4, <2>5 DEF Entry
  <2>7. s < j /\ j \in Nat /\ \A k \in Announced : ~(s < k /\ k < j)
    BY <1>0, <2>2, <2>3 DEF StartsRightBefore
  <2>8. f.at < e.at
    BY <2>1, <2>6, <2>7
  <2>9. ASSUME NEW g \in all, Announces(g)
        PROVE  ~(f.at < g.at /\ g.at < e.at)
    <3>1. PICK k \in Announced : g.at = 3 * k
      BY <1>2, <2>9
    <3>2. k \in Nat /\ ~(s < k /\ k < j)
      BY <1>0, <2>7
    <3> QED
      BY <2>1, <2>6, <2>7, <3>1, <3>2
  <2> QED
    BY <2>6, <2>8, <2>9 DEF ComesWithAttempt
<1> QED
  BY <1>2, <1>3

(* The approval is read: each attempt read before it had its decision.     *)
LEMMA ApprovalRead ==
    ASSUME TypeOK, StampInv, NEW entries, \A e \in entries : IsAttempt(e) => OfRecord(e),
           \A e \in entries : e.what # "approval_requested",
           NEW all, all = entries \cup Entries("approval"), \E f \in all : f.what = "approval_requested"
    PROVE  \A e \in all : IsAttempt(e) => ComesWithDecision(e, all)
<1>0. startedAt \in [Requests -> Nat] /\ decidedAt \in Nat
  BY DEF StampInv
<1>1. Entries("approval") = (IF approval = "none" THEN {} ELSE {Entry("approval_requested", 0)})
                              \cup (IF approval \in DOMAIN DecisionEvent
                                    THEN {Entry(DecisionEvent[approval], 3 * decidedAt + 1)} ELSE {})
  BY DEF Entries
<1>2. \A e \in Entries("approval") : ~IsAttempt(e)
  BY <1>1 DEF Entry, IsAttempt, DecisionEvent
<1>3. approval # "none"
  BY <1>1 DEF DecisionEvent
<1>4. ASSUME NEW e \in all, IsAttempt(e)
      PROVE  ComesWithDecision(e, all)
  <2>1. PICK i \in DOMAIN attempts : e.at = 3 * startedAt[attempts[i].by] + 2
    BY <1>2, <1>4 DEF OfRecord
  <2>2. PICK s \in Nat : s = startedAt[attempts[i].by]
    BY <1>0, AttemptsBelong
  <2>3. approval = "approved" /\ decidedAt <= s
    BY <1>3, <2>2 DEF StampInv, DecidedBy
  <2>4. PICK f : f = Entry("approval_approved", 3 * decidedAt + 1)
    OBVIOUS
  <2>5. f \in Entries("approval")
    BY <1>1, <2>3, <2>4 DEF DecisionEvent
  <2>6. f.what = "approval_approved" /\ f.at = 3 * decidedAt + 1
    BY <2>4 DEF Entry
  <2>7. f.at < e.at
    BY <1>0, <2>1, <2>2, <2>3, <2>6
  <2> QED
    BY <2>5, <2>6, <2>7 DEF ComesWithDecision
<1> QED
  BY <1>4

LEMMA TimelineStep ==
    ASSUME CoreInv, AccountInv, StampInv, TimelineInv, [ReadNext]_<<vars, readVars>>
    PROVE  TimelineInv'
<1>0. TypeOK /\ ReadLimit \in Nat
  BY ReadAssumptions DEF CoreInv
<1>1. CASE UNCHANGED timeline
  BY <1>1, TimelineKept
<1>2. CASE BeginTimeline
  <2>1. timeline' = [next |-> 1, entries |-> {}] /\ timeline'.next = 1 /\ timeline'.entries = {}
    BY <1>2 DEF BeginTimeline, EmptyTimeline
  <2>2. ~NeedsDecision'
    BY <2>1 DEF NeedsDecision
  <2>3. IsFiniteSet(timeline'.entries)
    BY <2>1, FS_EmptySet
  <2> QED
    BY <2>1, <2>2, <2>3 DEF TimelineInv
<1>3. CASE ReadSource
  <2> DEFINE source  == Sources[timeline.next]
             entries == timeline.entries
             all     == entries \cup Entries(source)
  <2>0. /\ timeline.next \in 1 .. 3 /\ source \in {"audit", "attempts", "approval"}
        /\ UNCHANGED <<attempts, audit, approval, startedAt, decidedAt>>
        /\ timeline'.next = timeline.next + 1 /\ timeline'.entries = all
        /\ timeline' = [next |-> timeline'.next, entries |-> timeline'.entries]
    BY <1>3 DEF ReadSource, IsComposed, TimelineInv, vars, stamps, Sources
  <2>1. IsFiniteSet(all) /\ \A e \in all : e.at \in Nat
    <3>1. IsFiniteSet(Entries(source)) /\ \A e \in Entries(source) : e.at \in Nat
      BY <1>0, <2>0, EntriesAreTimed
    <3>2. IsFiniteSet(entries) /\ \A e \in entries : e.at \in Nat
      BY DEF TimelineInv
    <3> QED
      BY <3>1, <3>2, FS_Union
  <2>2. Announced' = Announced /\ \A e : OfRecord(e)' <=> OfRecord(e)
    BY <2>0 DEF Announced, OfRecord
  <2>3. NeedsDecision' <=> \E f \in all : f.what = "approval_requested"
    BY <2>0 DEF NeedsDecision
  <2> HIDE DEF all, source, entries
  <2>4. CASE timeline.next = 1
    <3>1. entries = {} /\ source = "audit"
      BY <2>4 DEF TimelineInv, Sources, source, entries
    <3>2. all = {Entry(audit[i], 3 * i) : i \in NewestEvents}
      BY <3>1 DEF all, Entries
    <3>3. \A e \in all : \E i \in DOMAIN audit : e.what = audit[i] /\ e.at = 3 * i
      BY <3>2 DEF NewestEvents, Entry
    <3>4. \A i \in DOMAIN audit : audit[i] \in AuditEvents
      BY <1>0 DEF TypeOK
    <3>5. \A e \in all : ~IsAttempt(e) /\ e.what # "approval_requested"
      BY <3>3, <3>4 DEF IsAttempt, AuditEvents, TransitionEvents, ArchivingEvents, Statuses
    <3>6. \A e \in all : Announces(e) => \E j \in Announced : e.at = 3 * j
      BY <3>3 DEF Announces, Announced
    <3> QED
      BY <2>0, <2>1, <2>2, <2>3, <2>4, <3>5, <3>6 DEF TimelineInv
  <2>5. CASE timeline.next = 2
    <3>1. source = "attempts" /\ all = entries \cup Entries("attempts")
      BY <2>5 DEF Sources, source, all
    <3>2. /\ \A e \in entries : Announces(e) => \E j \in Announced : e.at = 3 * j
          /\ \A e \in entries : ~IsAttempt(e) /\ e.what # "approval_requested"
      BY <2>5 DEF TimelineInv, NeedsDecision, entries
    <3>3. /\ \A e \in Entries("attempts") : IsAttempt(e) /\ OfRecord(e)
          /\ \A e \in all : Announces(e) => ReadLimit < Len(attempts) \/ ComesWithAttempt(e, all)
      BY <1>0, <3>1, <3>2, AttemptsRead
    <3>4. /\ \A e \in all : Announces(e) => \E j \in Announced : e.at = 3 * j
          /\ \A e \in all : IsAttempt(e) => OfRecord(e)
          /\ \A e \in all : e.what # "approval_requested"
      BY <3>1, <3>2, <3>3 DEF IsAttempt, Announces
    <3> QED
      BY <2>0, <2>1, <2>2, <2>3, <2>5, <3>3, <3>4 DEF TimelineInv
  <2>6. CASE timeline.next = 3
    <3>1. source = "approval" /\ all = entries \cup Entries("approval")
      BY <2>6 DEF Sources, source, all
    <3>2. /\ \A e \in entries : Announces(e) => \E j \in Announced : e.at = 3 * j
          /\ \A e \in entries : IsAttempt(e) => OfRecord(e)
          /\ \A e \in entries : e.what # "approval_requested"
          /\ \A e \in entries : Announces(e) => ReadLimit < Len(attempts) \/ ComesWithAttempt(e, entries)
      BY <2>6 DEF TimelineInv, NeedsDecision, entries
    <3>3. \A e \in Entries("approval") : ~Announces(e) /\ ~IsAttempt(e)
      BY DEF Entries, Entry, DecisionEvent, Announces, IsAttempt
    <3>4. \A e \in entries : ComesWithAttempt(e, entries) => ComesWithAttempt(e, all)
      BY <3>1, <3>3 DEF ComesWithAttempt
    <3>5. (\E f \in all : f.what = "approval_requested") => \A e \in all : IsAttempt(e) => ComesWithDecision(e, all)
      BY <1>0, <3>1, <3>2, ApprovalRead
    <3>6. /\ \A e \in all : Announces(e) => \E j \in Announced : e.at = 3 * j
          /\ \A e \in all : IsAttempt(e) => OfRecord(e)
          /\ \A e \in all : Announces(e) => ReadLimit < Len(attempts) \/ ComesWithAttempt(e, all)
      BY <3>1, <3>2, <3>3, <3>4
    <3> QED
      BY <2>0, <2>1, <2>2, <2>3, <2>6, <3>5, <3>6 DEF TimelineInv
  <2> QED
    BY <2>0, <2>4, <2>5, <2>6
<1>4. UNCHANGED timeline \/ BeginTimeline \/ ReadSource
  BY DEF ReadNext, readVars, Elapse, Ask, Act, Proceed
<1> QED
  BY <1>1, <1>2, <1>3, <1>4

(* Whoever is shown an entry is shown what stands before it.               *)
LEMMA CutKeepsWhatComesBefore ==
    ASSUME IsFiniteSet(timeline.entries), \A e \in timeline.entries : e.at \in Nat,
           NEW limit \in Nat, NEW e \in Shown(limit), NEW f \in timeline.entries, f.at < e.at
    PROVE  f \in Shown(limit)
<1> DEFINE before(x) == {g \in timeline.entries : g.at < x.at}
<1>1. IsFiniteSet(before(e)) /\ before(f) \subseteq before(e)
  <2>1. e \in timeline.entries /\ before(e) \in SUBSET timeline.entries
    BY DEF Shown
  <2>2. IsFiniteSet(before(e))
    BY <2>1, FS_Subset
  <2>3. before(f) \subseteq before(e)
    BY <2>1
  <2> QED
    BY <2>2, <2>3
<1>2. Cardinality(before(f)) <= Cardinality(before(e)) /\ IsFiniteSet(before(f))
  BY <1>1, FS_Subset
<1>3. Cardinality(before(e)) \in Nat /\ Cardinality(before(f)) \in Nat
  BY <1>1, <1>2, FS_CardinalityType
<1>4. Cardinality(before(e)) < limit
  BY DEF Shown
<1> QED
  BY <1>2, <1>3, <1>4 DEF Shown

LEMMA CutsExplain ==
    ASSUME TimelineInv, IsComposed, NEW limit \in Nat
    PROVE  TimelineExplains(Shown(limit))
<1>0. timeline.next = 4 /\ IsFiniteSet(timeline.entries) /\ \A e \in timeline.entries : e.at \in Nat
  BY DEF TimelineInv, IsComposed, Sources
<1>1. Shown(limit) \subseteq timeline.entries
  BY DEF Shown
<1>2. ASSUME NEW e \in Shown(limit), ComesWithAttempt(e, timeline.entries)
      PROVE  ComesWithAttempt(e, Shown(limit))
  <2>1. PICK f \in timeline.entries : /\ f.what = "attempt" /\ f.at < e.at
                                      /\ \A g \in timeline.entries : Announces(g) => ~(f.at < g.at /\ g.at < e.at)
    BY <1>2 DEF ComesWithAttempt
  <2>2. f \in Shown(limit)
    BY <1>0, <2>1, CutKeepsWhatComesBefore
  <2> QED
    BY <1>1, <2>1, <2>2 DEF ComesWithAttempt
<1>3. ASSUME NEW e \in Shown(limit), ComesWithDecision(e, timeline.entries)
      PROVE  ComesWithDecision(e, Shown(limit))
  <2>1. PICK f \in timeline.entries : f.what = "approval_approved" /\ f.at < e.at
    BY <1>3 DEF ComesWithDecision
  <2>2. f \in Shown(limit)
    BY <1>0, <2>1, CutKeepsWhatComesBefore
  <2> QED
    BY <2>1, <2>2 DEF ComesWithDecision
<1>4. ASSUME NEW e \in Shown(limit), Announces(e)
      PROVE  ReadLimit < Len(attempts) \/ ComesWithAttempt(e, Shown(limit))
  BY <1>0, <1>1, <1>2, <1>4 DEF TimelineInv
<1>5. ASSUME NEW e \in Shown(limit), e.what = "attempt", NeedsDecision
      PROVE  ComesWithDecision(e, Shown(limit))
  BY <1>0, <1>1, <1>3, <1>5 DEF TimelineInv, IsAttempt
<1> QED
  BY <1>4, <1>5 DEF TimelineExplains

(* Wherever the client cuts it, a timeline explains itself, and the state  *)
(* history tells the status of the row, however long the trail has grown   *)
(* by archiving (outbound_action_timeline.py, outbound_action_state_       *)
(* history.py).                                                            *)
THEOREM TimelinesExplain == (Overlap = FALSE) /\ ReadSpec => []HistoryExplains
<1> SUFFICES ASSUME Overlap = FALSE
             PROVE  ReadSpec => []HistoryExplains
  OBVIOUS
<1> DEFINE Inv == CoreInv /\ AccountInv /\ SerialInv /\ GateInv /\ OpenInv /\ TrailInv /\ StampInv /\ TimelineInv
<1>1. ReadInit => Inv
  <2> SUFFICES ASSUME ReadInit
               PROVE  Inv
    OBVIOUS
  <2>0. Init /\ DOMAIN attempts = {} /\ Len(audit) = 1 /\ audit = <<"created">>
    BY DEF ReadInit, Init
  <2>1. CoreInv /\ AccountInv /\ SerialInv /\ GateInv
    <3>1. CoreInv
      BY <2>0, InitCore
    <3>2. AccountInv /\ GateInv
      BY <2>0 DEF Init, AccountInv, GateInv, ApprovalPrecedesDelivery, Attempting, NewAction
    <3>3. SerialInv
      BY <2>0 DEF Init, SerialInv, HoldingInv, Holding, InFlight
    <3> QED
      BY <3>1, <3>2, <3>3
  <2>2. OpenInv
    BY <2>0 DEF Init, OpenInv, OpenOK, Attempting, NewAction
  <2>3. TrailInv
    BY <2>0 DEF TrailInv, TransitionEvents, Statuses
  <2>4. StampInv
    BY <2>0 DEF ReadInit, Init, StampInv, Attempting, Announced
  <2>5. TimelineInv
    BY FS_EmptySet DEF ReadInit, TimelineInv, NeedsDecision, Sources
  <2> QED
    BY <2>1, <2>2, <2>3, <2>4, <2>5
<1>2. Inv /\ [ReadNext]_<<vars, readVars>> => Inv'
  <2> SUFFICES ASSUME Inv, [ReadNext]_<<vars, readVars>>
               PROVE  Inv'
    OBVIOUS
  <2>0. [Next]_vars /\ ApprovalPrecedesDelivery
    BY ReadStepIsStep DEF GateInv
  <2>1. CoreInv' /\ AccountInv' /\ SerialInv' /\ GateInv'
    BY <2>0, TypeStep, PhaseStep, NumberingStep, AccountStep, SerialStep, GateStep DEF CoreInv
  <2>2. OpenInv' /\ TrailInv'
    BY <2>0, OpenStep, TrailStep
  <2>3. StampInv' /\ TimelineInv'
    BY <2>0, StampStep, TimelineStep
  <2> QED
    BY <2>1, <2>2, <2>3
<1>3. Inv /\ SerialRecords => HistoryExplains
  <2> SUFFICES ASSUME Inv, SerialRecords
               PROVE  HistoryExplains
    OBVIOUS
  <2>1. HistoryTells
    BY HistoryOfStatus DEF CoreInv, SerialRecords
  <2>2. ASSUME IsComposed, NEW limit \in 1 .. ReadLimit
        PROVE  TimelineExplains(Shown(limit))
    BY <2>2, CutsExplain, ReadAssumptions
  <2> QED
    BY <2>1, <2>2 DEF HistoryExplains
<1>4. ReadSpec => []SerialRecords
  BY RecordsBesideReads
<1> QED
  BY <1>1, <1>2, <1>3, <1>4, PTL DEF ReadSpec

-----------------------------------------------------------------------------
(* What an operator is told.                                               *)

(* What readiness tells of a pending action, and what may have come of it. *)
PendingAnswer(answer) ==
    /\ answer \subseteq {"action_expired", "not_before_not_reached"}
                           \cup (IF GateIsOpen THEN {} ELSE {ApprovalReason[approval]})
    /\ "action_expired" \in answer => IsExpired
    /\ IsBeforeNotBefore => "not_before_not_reached" \in answer
    /\ ~GateIsOpen => answer # {}

(* What it tells of a failed one.                                          *)
FailedAnswer(answer) ==
    /\ answer \subseteq {"retry_not_eligible", "action_expired"}
    /\ ~RetryAllowed(Len(attempts), action.failure) => answer # {}

(* While it is fresh, before its request begins.                           *)
AnswerFits(o, answer) ==
    /\ o \in {"deliver", "retry"} =>
          /\ ~account => answer # {}
          /\ account /\ action.status = "pending" => PendingAnswer(answer)
          /\ account /\ action.status = "failed" => FailedAnswer(answer)
          /\ action.status \notin {"pending", "failed"} => answer # {}
    /\ o = "cancel" => (answer = {} => CanTransition(action.status, "cancelled"))
    /\ o \in {"approve", "reject"} => (answer = {} => approval = "pending")

(* While it is fresh, phase by phase.                                      *)
DeliverTold(r, answer) ==
    /\ pc[r] = "admitted" => IF action.status = "pending" THEN PendingAnswer(answer)
                             ELSE action.status = "failed" \/ answer # {}
    /\ pc[r] = "gate" => /\ answer \subseteq {"not_before_not_reached"}
                                       \cup (IF GateIsOpen THEN {} ELSE {ApprovalReason[approval]})
                         /\ ~GateIsOpen => answer # {}
    /\ pc[r] \in {"number", "call"} => answer \subseteq {"not_before_not_reached"}
    /\ pc[r] = "refused" => answer # {} \/ seen[r].status = "failed"

RetryTold(r, answer) ==
    /\ pc[r] = "admitted" => IF action.status = "failed" THEN FailedAnswer(answer)
                             ELSE action.status = "pending" \/ answer # {}
    /\ pc[r] = "evaluate" => FailedAnswer(answer)
    /\ pc[r] \in {"number", "call"} => answer \subseteq {"retry_not_eligible", "action_expired"}
    /\ pc[r] = "refused" => answer # {} \/ seen[r].status = "pending"

ChangeTold(r, answer, possible) ==
    /\ pc[r] = "admitted" => (answer = {} => possible)
    /\ pc[r] = "refused" => answer # {}

FreshlyTold(r, answer) ==
    /\ op[r] = "deliver" => DeliverTold(r, answer)
    /\ op[r] = "retry" => RetryTold(r, answer)
    /\ op[r] = "cancel" => ChangeTold(r, answer, CanTransition(action.status, "cancelled"))
    /\ op[r] \in {"approve", "reject"} => ChangeTold(r, answer, approval = "pending")

(* However old it is.                                                      *)
Lasting(o, answer) ==
    /\ o = "deliver" /\ action.status = "pending" =>
          /\ answer \subseteq Removable("deliver") \cup {"action_expired", "approval_rejected"}
          /\ "action_expired" \in answer => IsExpired
          /\ "approval_rejected" \in answer => approval = "rejected"
    /\ o = "retry" /\ action.status \in {"pending", "failed"} =>
          /\ answer \subseteq Removable("retry") \cup {"approval_rejected"}
          /\ "approval_rejected" \in answer => action.status = "pending" /\ approval = "rejected"
    /\ o = "cancel" /\ answer # {} => action.status # "pending"
    /\ o \in {"approve", "reject"} /\ answer # {} => approval # "pending"

Begun(r, o, answer) ==
    /\ op[r] = o
    /\ pc[r] \in {"gate", "number", "call"} /\ o = "deliver" => "action_expired" \notin answer
    /\ pc[r] \in {"commit", "done"} /\ o \in {"cancel", "approve", "reject"} => answer = {}

ToldOK(r) ==
    /\ Lasting(told.op, told.answer)
    /\ pc[r] # "new" => Begun(r, told.op, told.answer)
    /\ told.fresh => IF pc[r] = "new" THEN AnswerFits(told.op, told.answer) ELSE FreshlyTold(r, told.answer)

ToldInv ==
    /\ told \in [to : SUBSET Requests, op : Operations, answer : {told.answer}, fresh : BOOLEAN]
    /\ \A r \in told.to : ToldOK(r)

(* Serially, what makes a refusal final.                                   *)
LEMMA NothingComesBack ==
    ASSUME Overlap = FALSE, CoreInv, SerialInv, OpenInv, [Next]_vars
    PROVE  /\ action'.status = "pending" => action.status = "pending"
           /\ action'.status = "failed" => action.status \in {"pending", "failed"}
           /\ approval = "rejected" => approval' = "rejected"
           /\ approval # "pending" => approval' # "pending"
           /\ clock \in Nat /\ clock' \in Nat /\ clock <= clock'
<1>0. TypeOK /\ PhaseInv /\ action \in ActionRow /\ clock \in Nat
  BY DEF CoreInv, TypeOK
<1>1. /\ action'.status = "pending" => action.status = "pending"
      /\ action'.status = "failed" => action.status \in {"pending", "failed"}
  <2>1. ASSUME NEW r \in Requests, CommitAttempt(r)
        PROVE  action'.status # "pending" /\ action.status \in {"pending", "failed"}
    <3>1. pc[r] = "commit" /\ op[r] \in {"deliver", "retry"} /\ result[r].status \in {"delivered", "failed"}
      BY <2>1 DEF CommitAttempt
    <3>2. seen[r] = action /\ action.status \in {"pending", "failed"}
      BY <3>1 DEF SerialInv, HoldingInv, Holding
    <3>3. \/ action' = WithDelivered(action, seen[r])
          \/ action' = WithFailed(action, seen[r], result[r].failure)
      BY <2>1 DEF CommitAttempt
    <3> QED
      BY <1>0, <3>2, <3>3 DEF WithDelivered, WithFailed, ActionRow
  <2>2. ASSUME NEW r \in Requests, CommitExpiry(r) \/ CommitCancel(r)
        PROVE  action'.status \in {"expired", "cancelled"}
    BY <2>2, WithdrawalRow
  <2> QED
    BY <2>1, <2>2, OtherSteps
<1>2. UNCHANGED approval \/ (approval = "pending" /\ approval' \in {"approved", "rejected"})
  <2>1. ASSUME NEW r \in Requests, CommitDecision(r)
        PROVE  approval = "pending" /\ approval' \in {"approved", "rejected"}
    BY <1>0, <2>1 DEF CommitDecision, OpenInv, OpenOK, PhaseInv
  <2>2. UNCHANGED approval \/ \E r \in Requests : CommitDecision(r)
    BY DEF Next, vars, rowVars, ToggleAccount, Archive, Unarchive, SetArchived, Tick, RequestStep, Begin,
           LoadForDelivery, RequireApproved, LoadForRetry, EvaluateRetry, NewAttempt, CallAdapter, CommitAttempt,
           AttemptConflict, CommitExpiry, LoadForCancel, CommitCancel, LoadForDecision, Lose
  <2> QED
    BY <2>1, <2>2
<1>3. clock' \in Nat /\ clock <= clock'
  <2>1. UNCHANGED clock \/ Tick
    BY DEF Next, vars, rowVars, ToggleAccount, Archive, Unarchive, SetArchived, RequestStep, Begin,
           LoadForDelivery, RequireApproved, LoadForRetry, EvaluateRetry, NewAttempt, CallAdapter, CommitAttempt,
           AttemptConflict, CommitExpiry, LoadForCancel, CommitCancel, LoadForDecision, CommitDecision, Lose
  <2> QED
    BY <1>0, <2>1 DEF Tick
<1> QED
  BY <1>0, <1>1, <1>2, <1>3

LEMMA RefusalsLast ==
    ASSUME Overlap = FALSE, CoreInv, SerialInv, OpenInv, OpenInv', [Next]_vars,
           NEW o, NEW answer, Lasting(o, answer)
    PROVE  /\ o = "deliver" /\ action'.status = "pending" =>
                 /\ answer \subseteq Removable("deliver") \cup {"action_expired", "approval_rejected"}
                 /\ "action_expired" \in answer => ExpiresAt <= clock'
                 /\ "approval_rejected" \in answer => approval' = "rejected"
           /\ o = "retry" /\ action'.status \in {"pending", "failed"} =>
                 /\ answer \subseteq Removable("retry") \cup {"approval_rejected"}
                 /\ "approval_rejected" \in answer => action'.status = "pending" /\ approval' = "rejected"
           /\ o = "cancel" /\ answer # {} => action'.status # "pending"
           /\ o \in {"approve", "reject"} /\ answer # {} => approval' # "pending"
<1>1. /\ action'.status = "pending" => action.status = "pending"
      /\ action'.status = "failed" => action.status \in {"pending", "failed"}
      /\ approval = "rejected" => approval' = "rejected"
      /\ approval # "pending" => approval' # "pending"
      /\ clock \in Nat /\ clock' \in Nat /\ clock <= clock' /\ ExpiresAt \in Nat
  BY NothingComesBack, DeliveryAssumptions
<1>2. action'.status = "failed" => approval' # "rejected"
  BY DEF OpenInv, GateIsOpen
<1>3. IsExpired => ExpiresAt <= clock'
  BY <1>1 DEF IsExpired
<1> QED
  BY <1>1, <1>2, <1>3 DEF Lasting

(* What readiness answers of a row that may still be delivered or retried, *)
(* and of any other.                                                       *)
LEMMA ReadinessAnswers ==
    ASSUME CoreInv, OpenInv
    PROVE  /\ ~account => BlockingReasons # {}
           /\ account /\ action.status = "pending" => PendingAnswer(BlockingReasons)
           /\ account /\ action.status = "failed" => FailedAnswer(BlockingReasons)
           /\ action.status \notin {"pending", "failed"} => BlockingReasons # {}
<1>0. /\ action.status \in Statuses
      /\ approval \in {"none", "pending", "approved", "rejected"} /\ account \in BOOLEAN
  BY DEF CoreInv, TypeOK, ActionRow
<1>1. ASSUME ~account
      PROVE  BlockingReasons # {}
  BY <1>1 DEF BlockingReasons
<1>2. ASSUME account, action.status = "pending"
      PROVE  PendingAnswer(BlockingReasons)
  <2>1. BlockingReasons = (IF IsExpired THEN {"action_expired"} ELSE {})
                              \cup (IF IsBeforeNotBefore THEN {"not_before_not_reached"} ELSE {})
                              \cup (IF ~GateIsOpen THEN {ApprovalReason[approval]} ELSE {})
    BY <1>2 DEF BlockingReasons, IsCandidate
  <2>2. ~GateIsOpen => ApprovalReason[approval] \in {"approval_pending", "approval_rejected"}
    BY <1>0 DEF GateIsOpen, ApprovalReason
  <2> QED
    BY <2>1, <2>2 DEF PendingAnswer
<1>3. ASSUME account, action.status = "failed"
      PROVE  FailedAnswer(BlockingReasons)
  <2>1. ~IsBeforeNotBefore /\ GateIsOpen
    BY <1>3 DEF OpenInv
  <2>2. BlockingReasons = (IF RetryIsEligible THEN {} ELSE {"retry_not_eligible"})
                              \cup (IF RetryIsEligible /\ IsExpired THEN {"action_expired"} ELSE {})
    BY <1>3, <2>1 DEF BlockingReasons, IsCandidate, StatusReason
  <2>3. RetryIsEligible => RetryAllowed(Len(attempts), action.failure)
    BY DEF RetryIsEligible, RowCount
  <2> QED
    BY <2>2, <2>3 DEF FailedAnswer
<1>4. ASSUME action.status \notin {"pending", "failed"}
      PROVE  BlockingReasons # {}
  <2>1. ~IsCandidate
    BY <1>4 DEF IsCandidate
  <2>2. StatusReason[action.status] \in BlockingReasons
    BY <2>1 DEF BlockingReasons
  <2> QED
    BY <2>2
<1> QED
  BY <1>0, <1>1, <1>2, <1>3, <1>4

(* What is asked is fresh, and what it refuses stays refused.              *)
LEMMA AnswersFit ==
    ASSUME CoreInv, OpenInv, NEW o \in Operations
    PROVE  AnswerFits(o, Answer(o)) /\ Lasting(o, Answer(o))
<1>0. action.status \in Statuses /\ approval \in {"none", "pending", "approved", "rejected"} /\ account \in BOOLEAN
  BY DEF CoreInv, TypeOK, ActionRow
<1>1. CASE o \in {"deliver", "retry"}
  <2> DEFINE answer == BlockingReasons
  <2>1. /\ ~account => answer # {}
        /\ account /\ action.status = "pending" => PendingAnswer(answer)
        /\ account /\ action.status = "failed" => FailedAnswer(answer)
        /\ action.status \notin {"pending", "failed"} => answer # {}
    BY ReadinessAnswers
  <2>2. Answer(o) = answer
    BY <1>1 DEF Answer
  <2>3. action.status = "pending" =>
           /\ answer \subseteq {"integration_account_inactive", "not_before_not_reached", "approval_pending",
                                "action_expired", "approval_rejected"}
           /\ "action_expired" \in answer => IsExpired
           /\ "approval_rejected" \in answer => approval = "rejected"
    BY <1>0 DEF BlockingReasons, IsCandidate, GateIsOpen, ApprovalReason
  <2>4. action.status = "failed" => answer \subseteq {"integration_account_inactive", "retry_not_eligible", "action_expired"}
    <3>1. action.status = "failed" => ~IsBeforeNotBefore /\ GateIsOpen
      BY DEF OpenInv
    <3> QED
      BY <3>1 DEF BlockingReasons, IsCandidate, StatusReason
  <2> HIDE DEF answer
  <2>5. Lasting(o, answer)
    BY <1>1, <2>3, <2>4 DEF Lasting, Removable
  <2>6. AnswerFits(o, answer)
    BY <1>1, <2>1 DEF AnswerFits
  <2> QED
    BY <2>2, <2>5, <2>6
<1>2. CASE o = "cancel"
  <2>1. /\ Answer(o) = {} <=> CanTransition(action.status, "cancelled")
    BY <1>2 DEF Answer, Validated
  <2>2. CanTransition("pending", "cancelled")
    BY DEF CanTransition, AllowedTargets
  <2> QED
    BY <1>2, <2>1, <2>2 DEF AnswerFits, Lasting
<1>3. CASE o \in {"approve", "reject"}
  <2>1. Answer(o) = {} <=> approval = "pending"
    BY <1>3 DEF Answer, ApprovalStatus
  <2> QED
    BY <1>3, <2>1 DEF AnswerFits, Lasting
<1> QED
  BY <1>1, <1>2, <1>3 DEF Operations

(* Whoever is not the one that moves keeps what it was told.               *)
LEMMA ToldKept ==
    ASSUME Overlap = FALSE, CoreInv, SerialInv, OpenInv, OpenInv', [Next]_vars,
           NEW r \in Requests, ToldOK(r),
           UNCHANGED <<told.op, told.answer>>, told.fresh' => told.fresh,
           pc'[r] = pc[r], op'[r] = op[r], seen'[r] = seen[r],
           pc[r] \in InFlight => UNCHANGED <<action, approval, attempts>>,
           told.fresh' /\ pc[r] = "new" => UNCHANGED <<account, action, approval, attempts>>
    PROVE  ToldOK(r)'
<1> DEFINE o == told.op
           answer == told.answer
<1>0. told.op' = o /\ told.answer' = answer
  OBVIOUS
<1>1. /\ clock \in Nat /\ clock' \in Nat /\ clock <= clock' /\ ExpiresAt \in Nat /\ NotBefore \in Nat
      /\ approval \in {"none", "pending", "approved", "rejected"}
  BY NothingComesBack, DeliveryAssumptions DEF CoreInv, TypeOK
<1>2. Lasting(told.op, told.answer)'
  <2>1. PICK p, a : p = told.op /\ a = told.answer
    OBVIOUS
  <2>2. Lasting(p, a)
    BY <2>1 DEF ToldOK
  <2> QED
    BY <1>0, <2>1, <2>2, RefusalsLast DEF Lasting, IsExpired
<1>3. (pc[r] # "new" => Begun(r, told.op, told.answer))'
  BY <1>0 DEF ToldOK, Begun
<1>4. ASSUME UNCHANGED <<action, approval, attempts>>
      PROVE  /\ \A a : PendingAnswer(a) => PendingAnswer(a)'
             /\ \A a : FailedAnswer(a) <=> FailedAnswer(a)'
             /\ GateIsOpen <=> GateIsOpen'
  BY <1>1, <1>4 DEF PendingAnswer, FailedAnswer, RetryAllowed, GateIsOpen, IsExpired, IsBeforeNotBefore
<1>5. ASSUME told.fresh', pc[r] = "new"
      PROVE  AnswerFits(told.op, told.answer)'
  <2>1. UNCHANGED <<account, action, approval, attempts>> /\ AnswerFits(told.op, told.answer)
    BY <1>5 DEF ToldOK
  <2> QED
    BY <1>0, <1>4, <2>1 DEF AnswerFits
<1>6. ASSUME told.fresh', pc[r] # "new"
      PROVE  FreshlyTold(r, told.answer)'
  <2>1. FreshlyTold(r, told.answer)
    BY <1>6 DEF ToldOK
  <2>2. CASE pc[r] \in InFlight
    BY <1>0, <1>4, <2>1, <2>2 DEF FreshlyTold, DeliverTold, RetryTold, ChangeTold
  <2>3. CASE pc[r] \notin InFlight
    <3>1. pc[r] \notin {"admitted", "gate", "evaluate", "number", "call"}
      BY <2>3 DEF InFlight
    <3> QED
      BY <1>0, <2>1, <3>1 DEF FreshlyTold, DeliverTold, RetryTold, ChangeTold
  <2> QED
    BY <2>2, <2>3
<1> QED
  BY <1>2, <1>3, <1>5, <1>6 DEF ToldOK

(* The request that was told something goes on: what it was told of a row  *)
(* that stays, ...                                                         *)
LEMMA BegunProceeds ==
    ASSUME Overlap = FALSE, CoreInv, SerialInv, NEW r \in Requests, NEW o, NEW answer,
           Begun(r, o, answer), Lasting(o, answer), Proceed(r)
    PROVE  /\ pc'[r] # "new" /\ op'[r] = o
           /\ pc'[r] \in {"gate", "number", "call"} /\ o = "deliver" => "action_expired" \notin answer
           /\ pc'[r] \in {"commit", "done"} /\ o \in {"cancel", "approve", "reject"} => answer = {}
<1> USE DEF Goto, rowVars, Outcome
<1>0. /\ pc \in [Requests -> Phases] /\ op \in [Requests -> Operations] /\ PhaseInv /\ op[r] = o
      /\ result \in [Requests -> Results]
  BY DEF CoreInv, TypeOK, Begun
<1>1. UNCHANGED op
  BY DEF Proceed, LoadForDelivery, RequireApproved, LoadForRetry, EvaluateRetry, NewAttempt, CallAdapter,
         CommitAttempt, AttemptConflict, CommitExpiry, LoadForCancel, CommitCancel, LoadForDecision,
         CommitDecision, Lose
<1>2. CASE LoadForDelivery(r)
  <2>1. o = "deliver" /\ pc'[r] # "new"
    BY <1>0, <1>2 DEF LoadForDelivery
  <2>2. pc'[r] \in {"gate", "number", "call"} => action.status = "pending" /\ ~IsExpired
    BY <1>0, <1>2 DEF LoadForDelivery
  <2> QED
    BY <1>0, <1>1, <2>1, <2>2 DEF Lasting
<1>3. CASE RequireApproved(r)
  <2>1. pc[r] = "gate" /\ pc'[r] \in {"number", "refused"}
    BY <1>0, <1>3 DEF RequireApproved
  <2> QED
    BY <1>0, <1>1, <2>1 DEF Begun
<1>4. CASE NewAttempt(r)
  <2>1. pc[r] = "number" /\ pc'[r] = "call"
    BY <1>0, <1>4 DEF NewAttempt
  <2> QED
    BY <1>0, <1>1, <2>1 DEF Begun
<1>5. CASE LoadForRetry(r) \/ EvaluateRetry(r) \/ CallAdapter(r) \/ CommitAttempt(r) \/ CommitExpiry(r)
  <2>1. o \in {"deliver", "retry"} /\ pc'[r] # "new" /\ (o = "deliver" => pc'[r] \in {"commit", "done"})
    BY <1>0, <1>5 DEF LoadForRetry, EvaluateRetry, CallAdapter, CommitAttempt, CommitExpiry, PhaseInv
  <2> QED
    BY <1>0, <1>1, <2>1
<1>6. CASE LoadForCancel(r)
  <2>1. /\ o = "cancel" /\ pc'[r] \in {"commit", "refused"}
        /\ pc'[r] = "commit" => CanTransition(action.status, "cancelled")
    BY <1>0, <1>6 DEF LoadForCancel
  <2>2. CanTransition(action.status, "cancelled") => action.status = "pending"
    BY DEF CanTransition, AllowedTargets, CoreInv, TypeOK, ActionRow, Statuses
  <2> QED
    BY <1>0, <1>1, <2>1, <2>2 DEF Lasting
<1>7. CASE LoadForDecision(r)
  <2>1. /\ o \in {"approve", "reject"} /\ pc'[r] \in {"commit", "refused"}
        /\ pc'[r] = "commit" => approval = "pending"
    BY <1>0, <1>7 DEF LoadForDecision
  <2> QED
    BY <1>0, <1>1, <2>1 DEF Lasting
<1>8. CASE CommitCancel(r) \/ CommitDecision(r)
  <2>1. pc[r] = "commit" /\ pc'[r] = "done" /\ op[r] \in {"cancel", "approve", "reject"}
    BY <1>0, <1>8 DEF CommitCancel, CommitDecision
  <2> QED
    BY <1>0, <1>1, <2>1 DEF Begun
<1>9. CASE AttemptConflict(r) \/ Lose(r)
  <2>1. pc'[r] = "lost"
    BY <1>0, <1>9 DEF AttemptConflict, Lose
  <2> QED
    BY <1>0, <1>1, <2>1
<1> QED
  BY <1>2, <1>3, <1>4, <1>5, <1>6, <1>7, <1>8, <1>9 DEF Proceed

(* ... and what it was told just before it began.                          *)
LEMMA FreshProceeds ==
    ASSUME CoreInv, SerialInv, NEW r \in Requests, FreshlyTold(r, told.answer), Proceed(r), UNCHANGED told.answer
    PROVE  FreshlyTold(r, told.answer)'
<1> USE DEF Goto, rowVars, Outcome
<1>0. /\ pc \in [Requests -> Phases] /\ op \in [Requests -> Operations]
      /\ seen \in [Requests -> ActionRow] /\ result \in [Requests -> Results]
      /\ PhaseInv /\ HoldingInv(r) /\ AttemptCount = Len(attempts)
  BY AttemptCountIsLength DEF CoreInv, TypeOK, SerialInv
<1>1. UNCHANGED <<told.answer, op>>
  BY DEF Proceed, LoadForDelivery, RequireApproved, LoadForRetry, EvaluateRetry, NewAttempt, CallAdapter,
         CommitAttempt, AttemptConflict, CommitExpiry, LoadForCancel, CommitCancel, LoadForDecision,
         CommitDecision, Lose
<1>2. ASSUME pc'[r] \in {"lost", "done"}
      PROVE  FreshlyTold(r, told.answer)'
  BY <1>1, <1>2 DEF FreshlyTold, DeliverTold, RetryTold, ChangeTold
<1>3. CASE LoadForDelivery(r)
  <2>0. /\ pc[r] = "admitted" /\ op[r] = "deliver" /\ seen'[r] = action
        /\ UNCHANGED <<action, approval, attempts, clock>>
    BY <1>0, <1>3 DEF LoadForDelivery
  <2>1. IF action.status = "pending" THEN PendingAnswer(told.answer)
        ELSE action.status = "failed" \/ told.answer # {}
    BY <2>0 DEF FreshlyTold, DeliverTold
  <2>2. CASE pc'[r] = "commit"
    BY <1>1, <2>0, <2>2 DEF FreshlyTold, DeliverTold
  <2>3. CASE pc'[r] = "refused"
    <3>1. action.status # "pending" \/ IsBeforeNotBefore
      BY <1>0, <1>3, <2>3 DEF LoadForDelivery
    <3>2. told.answer # {} \/ action.status = "failed"
      BY <2>1, <3>1 DEF PendingAnswer
    <3> QED
      BY <1>1, <2>0, <2>3, <3>2 DEF FreshlyTold, DeliverTold
  <2>4. CASE pc'[r] = "gate"
    <3>1. action.status = "pending" /\ ~IsExpired
      BY <1>0, <1>3, <2>4 DEF LoadForDelivery
    <3>2. /\ told.answer \subseteq {"not_before_not_reached"}
                              \cup (IF GateIsOpen THEN {} ELSE {ApprovalReason[approval]})
          /\ ~GateIsOpen => told.answer # {}
      BY <2>1, <3>1 DEF PendingAnswer
    <3>3. GateIsOpen' = GateIsOpen
      BY <2>0 DEF GateIsOpen
    <3> QED
      BY <1>1, <2>0, <2>4, <3>2, <3>3 DEF FreshlyTold, DeliverTold
  <2> QED
    BY <1>0, <1>3, <2>2, <2>3, <2>4 DEF LoadForDelivery
<1>4. CASE RequireApproved(r)
  <2>1. /\ pc[r] = "gate" /\ op[r] = "deliver" /\ seen'[r] = seen[r]
        /\ pc'[r] = IF GateIsOpen THEN "number" ELSE "refused"
    BY <1>0, <1>4 DEF RequireApproved, PhaseInv
  <2>2. /\ told.answer \subseteq {"not_before_not_reached"}
                            \cup (IF GateIsOpen THEN {} ELSE {ApprovalReason[approval]})
        /\ ~GateIsOpen => told.answer # {}
    BY <2>1 DEF FreshlyTold, DeliverTold
  <2> QED
    BY <1>1, <2>1, <2>2 DEF FreshlyTold, DeliverTold
<1>5. CASE LoadForRetry(r)
  <2>1. /\ pc[r] = "admitted" /\ op[r] = "retry" /\ seen'[r] = action
        /\ pc'[r] = IF action.status = "failed" THEN "evaluate" ELSE "refused"
        /\ UNCHANGED <<action, attempts>>
    BY <1>0, <1>5 DEF LoadForRetry
  <2>2. IF action.status = "failed" THEN FailedAnswer(told.answer)
        ELSE action.status = "pending" \/ told.answer # {}
    BY <2>1 DEF FreshlyTold, RetryTold
  <2>3. FailedAnswer(told.answer)' = FailedAnswer(told.answer)
    BY <1>1, <2>1 DEF FailedAnswer, RetryAllowed
  <2> QED
    BY <1>1, <2>1, <2>2, <2>3 DEF FreshlyTold, RetryTold
<1>6. CASE EvaluateRetry(r)
  <2>1. pc[r] = "evaluate" /\ op[r] = "retry" /\ seen[r] = action
    BY <1>0, <1>6 DEF EvaluateRetry, PhaseInv, HoldingInv, Holding
  <2>2. pc'[r] = IF RetryAllowed(Len(attempts), action.failure) THEN "number" ELSE "refused"
    BY <1>0, <1>6, <2>1 DEF EvaluateRetry
  <2>3. FailedAnswer(told.answer)
    BY <2>1 DEF FreshlyTold, RetryTold
  <2> QED
    BY <1>1, <2>1, <2>2, <2>3 DEF FreshlyTold, RetryTold, FailedAnswer
<1>7. CASE NewAttempt(r)
  <2>1. pc[r] = "number" /\ pc'[r] = "call" /\ op[r] \in {"deliver", "retry"}
    BY <1>0, <1>7 DEF NewAttempt, PhaseInv
  <2> QED
    BY <1>1, <2>1 DEF FreshlyTold, DeliverTold, RetryTold
<1>8. CASE CallAdapter(r)
  <2>1. pc[r] = "call" /\ pc'[r] = "commit" /\ op[r] \in {"deliver", "retry"}
    BY <1>0, <1>8 DEF CallAdapter, PhaseInv
  <2> QED
    BY <1>1, <2>1 DEF FreshlyTold, DeliverTold, RetryTold
<1>9. CASE CommitAttempt(r) \/ AttemptConflict(r) \/ CommitExpiry(r) \/ CommitCancel(r) \/ CommitDecision(r) \/ Lose(r)
  <2>1. pc'[r] \in {"lost", "done"}
    BY <1>0, <1>9 DEF CommitAttempt, AttemptConflict, CommitExpiry, CommitCancel, CommitDecision, Lose
  <2> QED
    BY <1>2, <2>1
<1>10. CASE LoadForCancel(r)
  <2>1. /\ pc[r] = "admitted" /\ op[r] = "cancel"
        /\ pc'[r] = IF CanTransition(action.status, "cancelled") THEN "commit" ELSE "refused"
    BY <1>0, <1>10 DEF LoadForCancel
  <2>2. told.answer = {} => CanTransition(action.status, "cancelled")
    BY <2>1 DEF FreshlyTold, ChangeTold
  <2> QED
    BY <1>1, <2>1, <2>2 DEF FreshlyTold, ChangeTold
<1>11. CASE LoadForDecision(r)
  <2>1. /\ pc[r] = "admitted" /\ op[r] \in {"approve", "reject"}
        /\ pc'[r] = IF approval = "pending" THEN "commit" ELSE "refused"
    BY <1>0, <1>11 DEF LoadForDecision
  <2>2. told.answer = {} => approval = "pending"
    BY <2>1 DEF FreshlyTold, ChangeTold
  <2> QED
    BY <1>1, <2>1, <2>2 DEF FreshlyTold, ChangeTold
<1> QED
  BY <1>3, <1>4, <1>5, <1>6, <1>7, <1>8, <1>9, <1>10, <1>11 DEF Proceed

(* A request begins as it was asked about.                                 *)
LEMMA AskedBegins ==
    ASSUME CoreInv, NEW r \in Requests, NEW o \in Operations, Act(r, o), r \in told.to, ToldOK(r)
    PROVE  ToldOK(r)'
<1>0. /\ pc[r] = "new" /\ o = told.op /\ pc \in [Requests -> Phases] /\ op \in [Requests -> Operations]
      /\ UNCHANGED <<told, action, approval, attempts, account, clock>>
  BY DEF Act, Begin, readVars, rowVars, CoreInv, TypeOK
<1>1. op'[r] = o /\ pc'[r] = (IF o \in {"deliver", "retry"} /\ ~account THEN "refused" ELSE "admitted")
  BY <1>0 DEF Act, Begin, Goto
<1>2. Lasting(told.op, told.answer)'
  BY <1>0 DEF ToldOK, Lasting, IsExpired
<1>3. Begun(r, told.op, told.answer)'
  BY <1>0, <1>1 DEF Begun
<1>4. ASSUME told.fresh
      PROVE  FreshlyTold(r, told.answer)'
  <2>1. AnswerFits(o, told.answer)
    BY <1>0, <1>4 DEF ToldOK
  <2>2. /\ \A a : PendingAnswer(a) <=> PendingAnswer(a)'
        /\ \A a : FailedAnswer(a) <=> FailedAnswer(a)'
    BY <1>0 DEF PendingAnswer, FailedAnswer, RetryAllowed, GateIsOpen, IsExpired, IsBeforeNotBefore
  <2>3. CASE o = "deliver"
    BY <1>0, <1>1, <2>1, <2>2, <2>3 DEF AnswerFits, FreshlyTold, DeliverTold
  <2>4. CASE o = "retry"
    BY <1>0, <1>1, <2>1, <2>2, <2>4 DEF AnswerFits, FreshlyTold, RetryTold
  <2>5. CASE o \in {"cancel", "approve", "reject"}
    BY <1>0, <1>1, <2>1, <2>5 DEF AnswerFits, FreshlyTold, ChangeTold
  <2> QED
    BY <2>3, <2>4, <2>5 DEF Operations
<1> QED
  BY <1>0, <1>1, <1>2, <1>3, <1>4 DEF ToldOK

LEMMA ToldStep ==
    ASSUME Overlap = FALSE, CoreInv, SerialInv, OpenInv, OpenInv', ToldInv, [ReadNext]_<<vars, readVars>>
    PROVE  ToldInv'
<1>0. /\ [Next]_vars /\ pc \in [Requests -> Phases] /\ op \in [Requests -> Operations]
      /\ seen \in [Requests -> ActionRow] /\ told.to \subseteq Requests
  BY ReadStepIsStep DEF CoreInv, TypeOK, ToldInv
<1>1. ASSUME NEW q \in Requests, NEW o \in Operations, Ask(q, o)
      PROVE  ToldInv'
  <2>1. /\ told' = [to |-> {q}, op |-> o, answer |-> Answer(o), fresh |-> TRUE]
        /\ UNCHANGED <<account, action, approval, attempts, clock, op, pc, seen>> /\ pc[q] = "new"
    BY <1>1 DEF Ask, vars
  <2>2. AnswerFits(o, Answer(o)) /\ Lasting(o, Answer(o))
    BY AnswersFit
  <2>3. PICK answer : answer = Answer(o)
    OBVIOUS
  <2>4. /\ told'.to = {q} /\ told'.op = o /\ told'.answer = answer /\ told'.fresh = TRUE
        /\ told' \in [to : SUBSET Requests, op : Operations, answer : {told'.answer}, fresh : BOOLEAN]
    BY <2>1, <2>3
  <2>5. /\ \A a : PendingAnswer(a) <=> PendingAnswer(a)'
        /\ \A a : FailedAnswer(a) <=> FailedAnswer(a)'
    BY <2>1 DEF PendingAnswer, FailedAnswer, RetryAllowed, GateIsOpen, IsExpired, IsBeforeNotBefore
  <2>6. AnswerFits(told.op, told.answer)'
    BY <2>1, <2>2, <2>3, <2>4, <2>5 DEF AnswerFits
  <2>7. Lasting(told.op, told.answer)'
    BY <2>1, <2>2, <2>3, <2>4 DEF Lasting, IsExpired
  <2>8. ToldOK(q)'
    BY <2>1, <2>6, <2>7 DEF ToldOK
  <2> QED
    BY <2>4, <2>8 DEF ToldInv
<1>2. ASSUME /\ told' \in [to : SUBSET Requests, op : Operations, answer : {told'.answer}, fresh : BOOLEAN]
             /\ told'.to = told.to,
             \A r \in told.to : ToldOK(r) => ToldOK(r)'
      PROVE  ToldInv'
  BY <1>2 DEF ToldInv
<1>3. ASSUME UNCHANGED <<vars, told>>
      PROVE  ToldInv'
  <2>1. UNCHANGED <<account, action, approval, attempts, clock, op, pc, seen, told>>
    BY <1>3 DEF vars
  <2>2. \A r \in told.to : ToldOK(r) => ToldOK(r)'
    BY <1>0, <2>1, ToldKept
  <2> QED
    BY <1>2, <2>1, <2>2 DEF ToldInv
<1>4. ASSUME NEW q \in Requests, NEW o \in Operations, Act(q, o)
      PROVE  ToldInv'
  <2>1. UNCHANGED <<account, action, approval, attempts, clock, seen, told>>
    BY <1>4 DEF Act, Begin, rowVars, readVars
  <2>2. \A r \in Requests : r # q => pc'[r] = pc[r] /\ op'[r] = op[r]
    BY <1>0, <1>4 DEF Act, Begin, Goto
  <2>3. ASSUME NEW r \in told.to, ToldOK(r)
        PROVE  ToldOK(r)'
    <3>1. CASE r = q
      BY <1>4, <2>3, <3>1, AskedBegins
    <3>2. CASE r # q
      BY <1>0, <2>1, <2>2, <2>3, <3>2, ToldKept
    <3> QED
      BY <3>1, <3>2
  <2> QED
    BY <1>2, <2>1, <2>3 DEF ToldInv
<1>5. ASSUME Age
      PROVE  /\ told' \in [to : SUBSET Requests, op : Operations, answer : {told'.answer}, fresh : BOOLEAN]
             /\ told'.to = told.to /\ told'.op = told.op /\ told'.answer = told.answer
             /\ told'.fresh => told.fresh
             /\ \A r \in told.to : told'.fresh /\ pc[r] = "new" => UNCHANGED <<account, action, approval, attempts>>
  <2>1. PICK fresh \in BOOLEAN : /\ told' = [told EXCEPT !.fresh = fresh]
                                 /\ fresh => told.fresh
                                 /\ \A r \in told.to : fresh /\ pc[r] = "new" => UNCHANGED <<account, action, approval, attempts>>
    BY <1>5 DEF Age, ToldInv
  <2>2. told \in [to : SUBSET Requests, op : Operations, answer : {told.answer}, fresh : BOOLEAN]
    BY DEF ToldInv
  <2>3. told'.to = told.to /\ told'.op = told.op /\ told'.answer = told.answer /\ told'.fresh = fresh
    BY <2>1, <2>2
  <2>4. told' \in [to : SUBSET Requests, op : Operations, answer : {told'.answer}, fresh : BOOLEAN]
    BY <2>1, <2>2, <2>3
  <2> QED
    BY <2>1, <2>3, <2>4
<1>6. ASSUME NEW q \in Requests, Proceed(q)
      PROVE  ToldInv'
  <2>0. Age /\ RequestStep(q)
    BY <1>6 DEF Proceed, RequestStep
  <2>1. /\ told'.op = told.op /\ told'.answer = told.answer
        /\ told'.fresh => told.fresh
        /\ \A r \in told.to : told'.fresh /\ pc[r] = "new" => UNCHANGED <<account, action, approval, attempts>>
    BY <1>5, <2>0
  <2>2. ASSUME NEW r \in told.to, ToldOK(r), r # q
        PROVE  ToldOK(r)'
    <3>1. pc'[r] = pc[r] /\ pc[r] \notin InFlight
      BY <1>0, <2>0, <2>2, OthersAtRest
    <3>2. op'[r] = op[r] /\ seen'[r] = seen[r]
      BY <1>0, <1>6, <2>2 DEF Proceed, LoadForDelivery, RequireApproved, LoadForRetry, EvaluateRetry, NewAttempt,
         CallAdapter, CommitAttempt, AttemptConflict, CommitExpiry, LoadForCancel, CommitCancel, LoadForDecision,
         CommitDecision, Lose
    <3> QED
      BY <1>0, <2>1, <2>2, <3>1, <3>2, ToldKept
  <2>3. ASSUME q \in told.to, ToldOK(q)
        PROVE  ToldOK(q)'
    <3>1. pc[q] # "new"
      BY <1>6 DEF Proceed, LoadForDelivery, RequireApproved, LoadForRetry, EvaluateRetry, NewAttempt, CallAdapter,
         CommitAttempt, AttemptConflict, CommitExpiry, LoadForCancel, CommitCancel, LoadForDecision,
         CommitDecision, Lose, InFlight
    <3>2. PICK o, answer : o = told.op /\ answer = told.answer
      OBVIOUS
    <3>3. Lasting(o, answer) /\ Begun(q, o, answer) /\ (told.fresh => FreshlyTold(q, told.answer))
      BY <2>3, <3>1, <3>2 DEF ToldOK
    <3>4. Lasting(told.op, told.answer)'
      BY <1>0, <2>1, <3>2, <3>3, RefusalsLast DEF Lasting, IsExpired
    <3>5. pc'[q] # "new" /\ Begun(q, told.op, told.answer)'
      BY <1>6, <2>1, <3>2, <3>3, BegunProceeds DEF Begun
    <3>6. told'.fresh => FreshlyTold(q, told.answer)'
      BY <1>6, <2>1, <3>3, FreshProceeds
    <3> QED
      BY <3>4, <3>5, <3>6 DEF ToldOK
  <2> QED
    BY <1>2, <1>5, <2>0, <2>2, <2>3
<1>7. CASE Elapse
  <2>0. Age /\ UNCHANGED <<action, approval, attempts, op, pc, seen>>
    BY <1>7, ArchivingMarks DEF Elapse, ToggleAccount, Tick, rowVars
  <2>1. /\ told'.op = told.op /\ told'.answer = told.answer
        /\ told'.fresh => told.fresh
        /\ \A r \in told.to : told'.fresh /\ pc[r] = "new" => UNCHANGED <<account, action, approval, attempts>>
    BY <1>5, <2>0
  <2>2. \A r \in told.to : ToldOK(r) => ToldOK(r)'
    BY <1>0, <2>0, <2>1, ToldKept
  <2> QED
    BY <1>2, <1>5, <2>0, <2>2
<1>8. CASE BeginTimeline \/ ReadSource \/ UNCHANGED <<vars, readVars>>
  BY <1>3, <1>8 DEF BeginTimeline, ReadSource, readVars
<1> QED
  BY <1>1, <1>4, <1>6, <1>7, <1>8 DEF ReadNext

(* What was asked before a request can be relied on as far as ToldIsTrue   *)
(* says, for every policy, delay and clock, whatever happens between the   *)
(* question and the request (OutboundDeliveryReadinessService.evaluate,    *)
(* OutboundActionTransitionValidationService, OutboundApprovalStatus-      *)
(* Service).                                                               *)
THEOREM ReadsAreTold == (Overlap = FALSE) /\ ReadSpec => []ToldIsTrue
<1> SUFFICES ASSUME Overlap = FALSE
             PROVE  ReadSpec => []ToldIsTrue
  OBVIOUS
<1> DEFINE Inv == CoreInv /\ SerialInv /\ GateInv /\ OpenInv /\ ToldInv
<1>1. ReadInit => Inv
  <2> SUFFICES ASSUME ReadInit
               PROVE  Inv
    OBVIOUS
  <2>0. Init
    BY DEF ReadInit
  <2>1. CoreInv
    BY <2>0, InitCore
  <2>2. GateInv /\ OpenInv
    BY <2>0 DEF Init, GateInv, ApprovalPrecedesDelivery, Attempting, NewAction, OpenInv, OpenOK
  <2>3. SerialInv
    BY <2>0 DEF Init, SerialInv, HoldingInv, Holding, InFlight
  <2>4. ToldInv
    BY DEF ReadInit, ToldInv, Operations
  <2> QED
    BY <2>1, <2>2, <2>3, <2>4
<1>2. Inv /\ [ReadNext]_<<vars, readVars>> => Inv'
  <2> SUFFICES ASSUME Inv, [ReadNext]_<<vars, readVars>>
               PROVE  Inv'
    OBVIOUS
  <2>0. [Next]_vars
    BY ReadStepIsStep
  <2>1. CoreInv' /\ SerialInv' /\ GateInv' /\ OpenInv'
    BY <2>0, TypeStep, PhaseStep, NumberingStep, SerialStep, GateStep, OpenStep DEF CoreInv
  <2>2. ToldInv'
    BY <2>1, ToldStep
  <2> QED
    BY <2>1, <2>2
<1>3. Inv => ToldIsTrue
  <2> SUFFICES ASSUME Inv, NEW r \in told.to
               PROVE  /\ told.fresh /\ pc[r] = "refused" /\ told.answer = {} =>
                            \/ op[r] = "deliver" /\ seen[r].status = "failed"
                            \/ op[r] = "retry" /\ seen[r].status = "pending"
                      /\ pc[r] = "call" =>
                            told.answer \subseteq IF told.fresh THEN Unasked(op[r]) ELSE Removable(op[r])
                      /\ pc[r] = "done" /\ op[r] \in {"cancel", "approve", "reject"} => told.answer = {}
    BY DEF ToldIsTrue
  <2>0. /\ r \in Requests /\ ToldOK(r) /\ PhaseInv /\ op[r] \in Operations /\ OpenOK(r) /\ HoldingInv(r)
        /\ seen[r] = seen[r]
    BY DEF ToldInv, CoreInv, TypeOK, OpenInv, SerialInv
  <2>1. ASSUME told.fresh, pc[r] = "refused", told.answer = {}
        PROVE  \/ op[r] = "deliver" /\ seen[r].status = "failed"
               \/ op[r] = "retry" /\ seen[r].status = "pending"
    BY <2>0, <2>1 DEF ToldOK, FreshlyTold, DeliverTold, RetryTold, ChangeTold, Operations
  <2>2. ASSUME pc[r] = "call"
        PROVE  told.answer \subseteq IF told.fresh THEN Unasked(op[r]) ELSE Removable(op[r])
    <3>0. op[r] \in {"deliver", "retry"} /\ op[r] = told.op /\ Lasting(told.op, told.answer) /\ approval # "rejected"
      <4>1. op[r] \in {"deliver", "retry"} /\ GateIsOpen
        BY <2>0, <2>2 DEF PhaseInv, OpenOK, Attempting
      <4>2. op[r] = told.op /\ Lasting(told.op, told.answer)
        BY <2>0, <2>2 DEF ToldOK, Begun
      <4> QED
        BY <4>1, <4>2 DEF GateIsOpen
    <3>1. CASE told.fresh
      <4>1. FreshlyTold(r, told.answer)
        BY <2>0, <2>2, <3>1 DEF ToldOK
      <4> QED
        BY <2>2, <3>0, <3>1, <4>1 DEF FreshlyTold, DeliverTold, RetryTold, Unasked
    <3>2. CASE ~told.fresh
      <4>1. CASE op[r] = "deliver"
        <5>1. action.status = "pending" /\ "action_expired" \notin told.answer
          BY <2>0, <2>2, <3>0, <4>1 DEF HoldingInv, Holding, ToldOK, Begun
        <5> QED
          BY <3>0, <3>2, <4>1, <5>1 DEF Lasting
      <4>2. CASE op[r] = "retry"
        <5>1. action.status = "failed"
          BY <2>0, <2>2, <4>2 DEF HoldingInv, Holding
        <5> QED
          BY <3>0, <3>2, <4>2, <5>1 DEF Lasting
      <4> QED
        BY <3>0, <4>1, <4>2
    <3> QED
      BY <3>1, <3>2
  <2>3. ASSUME pc[r] = "done", op[r] \in {"cancel", "approve", "reject"}
        PROVE  told.answer = {}
    BY <2>0, <2>3 DEF ToldOK, Begun
  <2> QED
    BY <2>1, <2>2, <2>3
<1> QED
  BY <1>1, <1>2, <1>3, PTL DEF ReadSpec

=============================================================================
