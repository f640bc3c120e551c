--------------------------- MODULE LeadJourneyProofs ---------------------------
(***************************************************************************)
(* Proofs about LeadJourney, for any leads, members and requests and any   *)
(* number of restarts.                                                     *)
(***************************************************************************)
EXTENDS LeadJourney, TLAPS

-----------------------------------------------------------------------------
(* The inductive invariant.                                                *)

(* Only a run has phases between load and end.                             *)
EditPhases == {"loaded", "failed", "done", "lost"}

RunRow == [phase : Phases, op : {"run"}, lead : Leads, status : Statuses]

AssignmentRow == [phase : EditPhases, op : {"assign"}, lead : Leads, actor : Members,
                  target : Members \cup {Nobody}, seen : Columns]

StageRow == [phase : EditPhases, op : {"stage"}, lead : Leads, seen : Stages, target : Stages]

Rows == RunRow \cup AssignmentRow \cup StageRow

(* Every request that was made has a row of its kind.                      *)
RequestsAreRows == request \in [Requests -> Rows \cup {Idle}]

(* A lead has been researched once a run says so, or has found it so; a    *)
(* run that goes on has scored enough.                                     *)
RunOk(r) ==
    request[r] # Idle /\ request[r].op = "run" =>
        /\ request[r].phase = "loaded" /\ request[r].status # "new" => research[request[r].lead] # 0
        /\ request[r].phase = "researched" => research[request[r].lead] # 0
        /\ request[r].phase = "qualified" => Qualified(Score(lead[request[r].lead].facts, mode))

RunInv == \A r \in Requests : RunOk(r)

(* Only who scored enough was contacted.                                   *)
OutreachInv ==
    \A l \in Leads : \A o \in outreach[l] : Exists(l) /\ Qualified(Score(lead[l].facts, o.mode))

(* A stage request has been admitted by the matrix.                        *)
StageInv ==
    \A r \in Requests : request[r] # Idle /\ request[r].op = "stage" =>
        request[r].target \in NextStages[request[r].seen]

(* Nobody researches a lead that does not exist.                           *)
UnseenInv == \A l \in Leads : ~Exists(l) => research[l] = 0

(* Leads are never deleted.                                                *)
LeadsExist == \A r \in Requests : request[r] # Idle => Exists(request[r].lead)

CoreInv == TypeOK /\ RequestsAreRows /\ LeadsExist

ProgressInv == CoreInv /\ UnseenInv /\ RunInv /\ OutreachInv /\ StatusTellsProgress

-----------------------------------------------------------------------------
(* A lead that does not exist is told from one that does by its status.    *)
LEMMA NoLeadIsNoRow == NoLead \notin Columns
<1>1. ASSUME NoLead \in Columns
      PROVE  FALSE
  <2>1. NoLead.status \in Statuses
    BY <1>1 DEF Columns
  <2> QED
    BY <2>1 DEF NoLead, Statuses
<1> QED
  BY <1>1

LEMMA IdleIsNoRow == \A row \in Rows : row # Idle /\ row.phase \in Phases
<1>1. ASSUME NEW row \in RunRow
      PROVE  row # Idle /\ row.phase \in Phases
  <2>1. "op" \in DOMAIN row /\ "op" \notin DOMAIN Idle
    BY DEF RunRow, Idle
  <2> QED
    BY <2>1 DEF RunRow
<1>2. ASSUME NEW row \in AssignmentRow
      PROVE  row # Idle /\ row.phase \in Phases
  <2>1. "op" \in DOMAIN row /\ "op" \notin DOMAIN Idle
    BY DEF AssignmentRow, Idle
  <2> QED
    BY <2>1 DEF AssignmentRow, EditPhases, Phases
<1>3. ASSUME NEW row \in StageRow
      PROVE  row # Idle /\ row.phase \in Phases
  <2>1. "op" \in DOMAIN row /\ "op" \notin DOMAIN Idle
    BY DEF StageRow, Idle
  <2> QED
    BY <2>1 DEF StageRow, EditPhases, Phases
<1> QED
  BY <1>1, <1>2, <1>3 DEF Rows

(* A score is at most 100.                                                 *)
LEMMA ScoreIsScore ==
    ASSUME NEW facts \in FactSets, NEW m \in Modes
    PROVE  Score(facts, m) \in 0 .. 100
<1> DEFINE worth(f) == IF f \in facts THEN Points(f) ELSE 0
<1>1. \A f \in Facts : worth(f) \in 0 .. 20
  BY DEF Points
<1>2. worth("contact") \in 0 .. 20 /\ worth("website") \in 0 .. 20
        /\ worth("job_title") \in 0 .. 20 /\ worth("notes") \in 0 .. 20
  BY <1>1 DEF Facts
<1>3. LesserOf(20, 10 * Opportunities(m)) \in 0 .. 20
  BY DEF LesserOf, Opportunities
<1>4. Score(facts, m) = LesserOf(100, 10 + worth("contact") + worth("website") + worth("job_title")
                                       + worth("notes") + LesserOf(20, 10 * Opportunities(m)))
  BY DEF Score
<1> HIDE DEF worth
<1> QED
  BY <1>2, <1>3, <1>4 DEF LesserOf

(* A move changes the phase of one request and nothing else of any.        *)
LEMMA MoveStep ==
    ASSUME RequestsAreRows, NEW r \in Requests, request[r] # Idle, NEW p \in Phases, Goto(r, p),
           request[r].op # "run" => p \in EditPhases
    PROVE  /\ RequestsAreRows'
           /\ request'[r].phase = p
           /\ request'[r] # Idle
           /\ request'[r].op = request[r].op
           /\ request'[r].lead = request[r].lead
           /\ request[r].op = "run" => request'[r].status = request[r].status
           /\ request[r].op = "assign" => /\ request'[r].actor = request[r].actor
                                          /\ request'[r].target = request[r].target
                                          /\ request'[r].seen = request[r].seen
           /\ request[r].op = "stage" => /\ request'[r].target = request[r].target
                                         /\ request'[r].seen = request[r].seen
           /\ \A other \in Requests \ {r} : request'[other] = request[other]
<1>1. request[r] \in Rows
  BY DEF RequestsAreRows
<1>2. request' = [request EXCEPT ![r] = [request[r] EXCEPT !.phase = p]]
  BY DEF Goto
<1>3. request'[r] = [request[r] EXCEPT !.phase = p]
  BY <1>2 DEF RequestsAreRows
<1>4. \A other \in Requests \ {r} : request'[other] = request[other]
  BY <1>2 DEF RequestsAreRows
<1>5. CASE request[r] \in RunRow
  <2>1. request'[r] \in RunRow
    BY <1>3, <1>5 DEF RunRow
  <2>2. RequestsAreRows'
    BY <1>2, <1>3, <2>1 DEF RequestsAreRows, Rows
  <2> QED
    BY <1>3, <1>4, <1>5, <2>1, <2>2, IdleIsNoRow DEF RunRow, Rows
<1>6. CASE request[r] \in AssignmentRow
  <2>1. request'[r] \in AssignmentRow
    BY <1>3, <1>6 DEF AssignmentRow
  <2>2. RequestsAreRows'
    BY <1>2, <1>3, <2>1 DEF RequestsAreRows, Rows
  <2> QED
    BY <1>3, <1>4, <1>6, <2>1, <2>2, IdleIsNoRow DEF AssignmentRow, Rows
<1>7. CASE request[r] \in StageRow
  <2>1. request'[r] \in StageRow
    BY <1>3, <1>7 DEF StageRow
  <2>2. RequestsAreRows'
    BY <1>2, <1>3, <2>1 DEF RequestsAreRows, Rows
  <2> QED
    BY <1>3, <1>4, <1>7, <2>1, <2>2, IdleIsNoRow DEF StageRow, Rows
<1> QED
  BY <1>1, <1>5, <1>6, <1>7 DEF Rows

LEMMA EntryStep ==
    ASSUME RequestsAreRows, NEW r \in Requests, request[r] = Idle, NEW row \in Rows,
           request' = [request EXCEPT ![r] = row]
    PROVE  /\ RequestsAreRows'
           /\ request'[r] = row
           /\ \A other \in Requests \ {r} : request'[other] = request[other]
BY DEF RequestsAreRows

(* What exists is a row, and what does not is told apart.                  *)
LEMMA ExistsIsRow ==
    ASSUME CoreInv, NEW l \in Leads
    PROVE  /\ Exists(l) => lead[l] \in Columns
           /\ ~Exists(l) => lead[l].status = "none"
           /\ \A row \in Columns : row # NoLead
<1>1. lead[l] \in Columns \cup {NoLead}
  BY DEF CoreInv, TypeOK
<1>2. NoLead.status = "none"
  BY DEF NoLead
<1> QED
  BY <1>1, <1>2, NoLeadIsNoRow DEF Exists

(* A request that was made, by its kind.                                   *)
LEMMA KindOfRequest ==
    ASSUME RequestsAreRows, NEW r \in Requests, request[r] # Idle
    PROVE  /\ request[r].lead \in Leads
           /\ request[r].phase \in Phases
           /\ request[r].op = "run" => request[r] \in RunRow
           /\ request[r].op = "assign" => request[r] \in AssignmentRow
           /\ request[r].op = "stage" => request[r] \in StageRow
           /\ request[r].op \in {"run", "assign", "stage"}
           /\ request[r].op # "run" => request[r].phase \in EditPhases
BY DEF RequestsAreRows, Rows, RunRow, AssignmentRow, StageRow, EditPhases, Phases

(* A request in a phase was made.                                          *)
LEMMA IdlePhase == Idle.phase = "idle" /\ "idle" \notin Phases
BY DEF Idle, Phases

(* What fails before its commit ends in a phase of its kind: only a run    *)
(* that has researched is counted as cut off after its research.           *)
LEMMA FailedStep ==
    ASSUME RequestsAreRows, NEW r \in Requests, StepFails(r)
    PROVE  \E p \in Phases :
              /\ Goto(r, p) /\ request[r] # Idle
              /\ p \notin {"loaded", "researched", "qualified"}
              /\ request[r].op # "run" => p \in EditPhases
              /\ request[r].phase = "researched" => p = "lost_researched"
<1> DEFINE p == IF request[r].phase = "researched" THEN "lost_researched" ELSE "failed"
<1>1. request[r] # Idle
  BY IdlePhase DEF StepFails
<1>2. request[r].op # "run" => request[r].phase # "researched"
  BY <1>1, KindOfRequest DEF EditPhases
<1>3. Goto(r, p) /\ p \in Phases /\ p \in {"lost_researched", "failed"}
  BY DEF StepFails, Phases
<1> QED
  BY <1>1, <1>2, <1>3 DEF EditPhases

(* An assignment leaves the other columns alone and, if nothing has        *)
(* changed since its load, is stored whole.                                *)
LEMMA AssignedRow ==
    ASSUME NEW row \in Columns, NEW seen \in Columns, NEW actor \in Members,
           NEW target \in Members \cup {Nobody}, NEW new, new = Assigned(row, seen, actor, target)
    PROVE  /\ new \in Columns /\ new.status = row.status /\ new.score = row.score
           /\ new.facts = row.facts /\ new.stage = row.stage
           /\ AssignmentOf(row) = AssignmentOf(seen) =>
                 /\ new.assignee = target
                 /\ new.assigned_at = (target # Nobody)
                 /\ new.assigned_by = IF target = Nobody THEN Nobody ELSE actor
<1> DEFINE by == IF target = Nobody THEN Nobody ELSE actor
           a == IF seen.assignee = target THEN row.assignee ELSE target
           t == IF target # Nobody THEN TRUE ELSE IF seen.assigned_at THEN FALSE ELSE row.assigned_at
           b == IF seen.assigned_by = by THEN row.assigned_by ELSE by
<1>1. new = [row EXCEPT !.assignee = a, !.assigned_at = t, !.assigned_by = b]
  BY DEF Assigned
<1>2. a \in Members \cup {Nobody} /\ b \in Members \cup {Nobody}
  BY DEF Columns
<1>3. t \in BOOLEAN
  BY DEF Columns
<1>4. ASSUME AssignmentOf(row) = AssignmentOf(seen)
      PROVE  a = target /\ b = by /\ t = (target # Nobody)
  <2>1. row.assignee = seen.assignee /\ row.assigned_by = seen.assigned_by
    BY <1>4 DEF AssignmentOf
  <2>2. row.assigned_at = seen.assigned_at
    BY <1>4 DEF AssignmentOf
  <2>3. row.assigned_at \in BOOLEAN
    BY DEF Columns
  <2>4. a = target /\ b = by
    BY <2>1
  <2>5. t = (target # Nobody)
    BY <2>2, <2>3
  <2> QED
    BY <2>4, <2>5
<1> HIDE DEF a, b, t, by
<1>5. /\ new \in Columns /\ new.status = row.status /\ new.score = row.score
      /\ new.facts = row.facts /\ new.stage = row.stage
      /\ new.assignee = a /\ new.assigned_at = t /\ new.assigned_by = b
  BY <1>1, <1>2, <1>3 DEF Columns
<1> QED
  BY <1>4, <1>5 DEF by

-----------------------------------------------------------------------------
(* What each commit does to the leads.                                     *)

(* Only the row of the request's lead changes, and only in these columns.  *)
OnlyLead(l) == \A other \in Leads \ {l} : lead'[other] = lead[other]

(* A table of leads in which one row is replaced is still one.             *)
LEMMA OneChanges ==
    ASSUME NEW l \in Leads, lead \in [Leads -> Columns \cup {NoLead}], NEW row, row \in Columns,
           lead' = [lead EXCEPT ![l] = row]
    PROVE  lead' \in [Leads -> Columns \cup {NoLead}] /\ lead'[l] = row /\ OnlyLead(l)
BY DEF OnlyLead

LEMMA ResearchEffect ==
    ASSUME CoreInv, NEW r \in Requests, Research(r)
    PROVE  LET l == request[r].lead
           IN  /\ l \in Leads /\ Exists(l) /\ OnlyLead(l)
               /\ request[r] # Idle /\ request[r].op = "run" /\ request[r].phase = "loaded"
               /\ lead'[l] \in Columns /\ lead' \in [Leads -> Columns \cup {NoLead}]
               /\ lead'[l].facts = lead[l].facts /\ lead'[l].stage = lead[l].stage
               /\ lead'[l].score = lead[l].score
               /\ AssignmentOf(lead'[l]) = AssignmentOf(lead[l])
               /\ \/ lead'[l].status = "researched"
                  \/ lead'[l].status = lead[l].status /\ request[r].status = "researched"
<1> DEFINE l == request[r].lead
           seen == IF mode = "live" THEN lead[l].status ELSE request[r].status
           st == IF seen = "researched" THEN lead[l].status ELSE "researched"
<1>1. request[r] # Idle /\ request[r].op = "run" /\ request[r].phase = "loaded"
  BY IdlePhase DEF Research
<1>2. l \in Leads /\ Exists(l)
  BY <1>1, KindOfRequest DEF CoreInv, LeadsExist
<1>3. lead[l] \in Columns
  BY <1>2, ExistsIsRow
<1>4. st \in Statuses
  BY <1>3 DEF Columns, Statuses
<1>5. lead' = [lead EXCEPT ![l] = [lead[l] EXCEPT !.status = st]]
  BY DEF Research
<1>6. lead \in [Leads -> Columns \cup {NoLead}]
  BY DEF CoreInv, TypeOK
<1>7. lead'[l] = [lead[l] EXCEPT !.status = st] /\ OnlyLead(l)
  BY <1>2, <1>5, <1>6 DEF OnlyLead
<1>8. \/ st = "researched"
      \/ st = lead[l].status /\ request[r].status = "researched"
  OBVIOUS
<1> HIDE DEF l, st, seen
<1>9. /\ lead'[l] \in Columns /\ lead'[l].status = st
      /\ lead'[l].facts = lead[l].facts /\ lead'[l].stage = lead[l].stage
      /\ lead'[l].score = lead[l].score
      /\ AssignmentOf(lead'[l]) = AssignmentOf(lead[l])
  BY <1>3, <1>4, <1>7 DEF Columns, AssignmentOf
<1>10. lead' \in [Leads -> Columns \cup {NoLead}]
  <2> DEFINE row == [lead[l] EXCEPT !.status = st]
  <2>1. row \in Columns /\ lead' = [lead EXCEPT ![l] = row]
    BY <1>5, <1>7, <1>9 DEF l
  <2> HIDE DEF row
  <2> QED
    BY <1>2, <1>6, <2>1, OneChanges
<1> QED
  BY <1>1, <1>2, <1>7, <1>8, <1>9, <1>10 DEF l

LEMMA QualifyEffect ==
    ASSUME CoreInv, NEW r \in Requests, Qualify(r)
    PROVE  LET l == request[r].lead
           IN  /\ l \in Leads /\ Exists(l) /\ OnlyLead(l)
               /\ request[r] # Idle /\ request[r].op = "run" /\ request[r].phase = "researched"
               /\ lead'[l] \in Columns /\ lead' \in [Leads -> Columns \cup {NoLead}]
               /\ lead'[l].facts = lead[l].facts /\ lead'[l].stage = lead[l].stage
               /\ lead'[l].score = Score(lead[l].facts, mode)
               /\ lead'[l].status = IF Qualified(lead'[l].score) THEN "qualified" ELSE "unqualified"
               /\ AssignmentOf(lead'[l]) = AssignmentOf(lead[l])
               /\ GoOn(r, QualificationRoute(lead'[l].score), "failed")
<1> DEFINE l == request[r].lead
           sc == Score(lead[l].facts, mode)
           st == IF Qualified(sc) THEN "qualified" ELSE "unqualified"
<1>1. request[r] # Idle /\ request[r].phase = "researched"
  BY IdlePhase DEF Qualify
<1>2. l \in Leads /\ request[r].op = "run"
  BY <1>1, KindOfRequest DEF CoreInv, EditPhases
<1>3. Exists(l)
  BY <1>1, <1>2 DEF CoreInv, LeadsExist
<1>4. lead[l] \in Columns
  BY <1>2, <1>3, ExistsIsRow
<1>5. st \in Statuses
  BY DEF Statuses
<1>6. sc \in 0 .. 100
  <2>1. lead[l].facts \in FactSets /\ mode \in Modes
    BY <1>4 DEF Columns, CoreInv, TypeOK
  <2> QED
    BY <2>1, ScoreIsScore
<1>7. lead' = [lead EXCEPT ![l] = [lead[l] EXCEPT !.score = sc, !.status = st]]
  BY DEF Qualify
<1>8. lead \in [Leads -> Columns \cup {NoLead}]
  BY DEF CoreInv, TypeOK
<1>9. lead'[l] = [lead[l] EXCEPT !.score = sc, !.status = st] /\ OnlyLead(l)
  BY <1>2, <1>7, <1>8 DEF OnlyLead
<1>10. GoOn(r, QualificationRoute(sc), "failed")
  BY DEF Qualify
<1>11. st = IF Qualified(sc) THEN "qualified" ELSE "unqualified"
  OBVIOUS
<1>12. sc = Score(lead[l].facts, mode)
  OBVIOUS
<1> HIDE DEF l, st, sc
<1>13. /\ lead'[l] \in Columns /\ lead'[l].status = st /\ lead'[l].score = sc
       /\ lead'[l].facts = lead[l].facts /\ lead'[l].stage = lead[l].stage
       /\ AssignmentOf(lead'[l]) = AssignmentOf(lead[l])
  BY <1>4, <1>5, <1>6, <1>9 DEF Columns, AssignmentOf
<1>14. lead' \in [Leads -> Columns \cup {NoLead}]
  <2> DEFINE row == [lead[l] EXCEPT !.score = sc, !.status = st]
  <2>1. row \in Columns /\ lead' = [lead EXCEPT ![l] = row]
    BY <1>7, <1>9, <1>13 DEF l
  <2> HIDE DEF row
  <2> QED
    BY <1>2, <1>8, <2>1, OneChanges
<1> QED
  BY <1>1, <1>2, <1>3, <1>9, <1>10, <1>11, <1>12, <1>13, <1>14 DEF l

LEMMA AssignEffect ==
    ASSUME CoreInv, NEW r \in Requests, CommitAssignment(r)
    PROVE  LET l == request[r].lead
           IN  /\ l \in Leads /\ OnlyLead(l)
               /\ request[r] # Idle /\ request[r].op = "assign" /\ request[r].phase = "loaded"
               /\ lead'[l] \in Columns /\ lead' \in [Leads -> Columns \cup {NoLead}]
               /\ lead'[l].facts = lead[l].facts /\ lead'[l].stage = lead[l].stage
               /\ lead'[l].score = lead[l].score /\ lead'[l].status = lead[l].status
               /\ AssignmentOf(lead[l]) = AssignmentOf(request[r].seen) =>
                     /\ lead'[l].assignee = request[r].target
                     /\ lead'[l].assigned_at = (request[r].target # Nobody)
                     /\ lead'[l].assigned_by = IF request[r].target = Nobody THEN Nobody ELSE request[r].actor
<1> DEFINE l == request[r].lead
           row == Assigned(lead[l], request[r].seen, request[r].actor, request[r].target)
<1>1. request[r] # Idle /\ request[r].op = "assign" /\ request[r].phase = "loaded"
  BY IdlePhase DEF CommitAssignment
<1>2. l \in Leads /\ request[r] \in AssignmentRow
  BY <1>1, KindOfRequest DEF CoreInv
<1>3. lead[l] \in Columns
  BY <1>1, <1>2, ExistsIsRow DEF CoreInv, LeadsExist
<1>4. /\ request[r].seen \in Columns /\ request[r].actor \in Members
      /\ request[r].target \in Members \cup {Nobody}
  BY <1>2 DEF AssignmentRow
<1>5. lead' = [lead EXCEPT ![l] = row]
  BY DEF CommitAssignment
<1>6. lead \in [Leads -> Columns \cup {NoLead}]
  BY DEF CoreInv, TypeOK
<1>7. /\ row \in Columns /\ row.status = lead[l].status /\ row.score = lead[l].score
      /\ row.facts = lead[l].facts /\ row.stage = lead[l].stage
      /\ AssignmentOf(lead[l]) = AssignmentOf(request[r].seen) =>
            /\ row.assignee = request[r].target
            /\ row.assigned_at = (request[r].target # Nobody)
            /\ row.assigned_by = IF request[r].target = Nobody THEN Nobody ELSE request[r].actor
  <2> DEFINE current == lead[l]
             seen == request[r].seen
             actor == request[r].actor
             target == request[r].target
  <2>1. current \in Columns /\ seen \in Columns /\ actor \in Members /\ target \in Members \cup {Nobody}
    BY <1>3, <1>4
  <2>2. row = Assigned(current, seen, actor, target)
    OBVIOUS
  <2> HIDE DEF current, seen, actor, target, row
  <2>3. /\ row \in Columns /\ row.status = current.status /\ row.score = current.score
        /\ row.facts = current.facts /\ row.stage = current.stage
        /\ AssignmentOf(current) = AssignmentOf(seen) =>
              /\ row.assignee = target
              /\ row.assigned_at = (target # Nobody)
              /\ row.assigned_by = IF target = Nobody THEN Nobody ELSE actor
    BY <2>1, <2>2, AssignedRow
  <2> QED
    BY <2>3 DEF current, seen, actor, target
<1> HIDE DEF row, l
<1>8. lead' \in [Leads -> Columns \cup {NoLead}] /\ lead'[l] = row /\ OnlyLead(l)
  BY <1>2, <1>5, <1>6, <1>7, OneChanges
<1> QED
  BY <1>1, <1>2, <1>7, <1>8 DEF l

LEMMA StageEffect ==
    ASSUME CoreInv, NEW r \in Requests, CommitStage(r)
    PROVE  LET l == request[r].lead
           IN  /\ l \in Leads /\ OnlyLead(l)
               /\ request[r] # Idle /\ request[r].op = "stage" /\ request[r].phase = "loaded"
               /\ lead'[l] \in Columns /\ lead' \in [Leads -> Columns \cup {NoLead}]
               /\ lead'[l].facts = lead[l].facts /\ lead'[l].stage = request[r].target
               /\ lead'[l].score = lead[l].score /\ lead'[l].status = lead[l].status
               /\ AssignmentOf(lead'[l]) = AssignmentOf(lead[l])
<1> DEFINE l == request[r].lead
           row == [lead[l] EXCEPT !.stage = request[r].target]
<1>1. request[r] # Idle /\ request[r].op = "stage" /\ request[r].phase = "loaded"
  BY IdlePhase DEF CommitStage
<1>2. l \in Leads /\ request[r].target \in Stages
  BY <1>1, KindOfRequest DEF CoreInv, StageRow
<1>3. lead[l] \in Columns
  BY <1>1, <1>2, ExistsIsRow DEF CoreInv, LeadsExist
<1>4. lead' = [lead EXCEPT ![l] = row]
  BY DEF CommitStage
<1>5. lead \in [Leads -> Columns \cup {NoLead}]
  BY DEF CoreInv, TypeOK
<1>6. /\ row \in Columns /\ row.status = lead[l].status /\ row.score = lead[l].score
      /\ row.facts = lead[l].facts /\ row.stage = request[r].target
      /\ AssignmentOf(row) = AssignmentOf(lead[l])
  BY <1>2, <1>3 DEF Columns, AssignmentOf
<1> HIDE DEF row, l
<1>7. lead' \in [Leads -> Columns \cup {NoLead}] /\ lead'[l] = row /\ OnlyLead(l)
  BY <1>2, <1>4, <1>5, <1>6, OneChanges
<1> QED
  BY <1>1, <1>2, <1>6, <1>7 DEF l

LEMMA CreateEffect ==
    ASSUME CoreInv, NEW l \in Leads, NEW facts \in FactSets, CreateLead(l, facts)
    PROVE  /\ lead' \in [Leads -> Columns \cup {NoLead}] /\ OnlyLead(l) /\ ~Exists(l)
           /\ lead'[l] = NewLead(facts) /\ NewLead(facts) \in Columns
<1>1. NewLead(facts) \in Columns
  BY DEF NewLead, Columns, Statuses, Stages
<1>2. lead \in [Leads -> Columns \cup {NoLead}]
  BY DEF CoreInv, TypeOK
<1>3. lead' = [lead EXCEPT ![l] = NewLead(facts)] /\ ~Exists(l)
  BY DEF CreateLead
<1> QED
  BY <1>1, <1>2, <1>3, OneChanges

(* A restart moves the phases of the requests under way.                   *)
LEMMA RestartStep ==
    ASSUME CoreInv, NEW m \in Modes, Restart(m)
    PROVE  /\ RequestsAreRows'
           /\ \A r \in Requests :
                 /\ request[r] = Idle <=> request'[r] = Idle
                 /\ request'[r].phase \notin {"loaded", "researched", "qualified"}
                 /\ request[r] # Idle =>
                       /\ request'[r].op = request[r].op /\ request'[r].lead = request[r].lead
                       /\ request[r].phase \in {"done", "lost_researched"} => request'[r] = request[r]
                       /\ request[r].phase = "researched" => request'[r].phase = "lost_researched"
                       /\ request[r].op = "stage" => /\ request'[r].seen = request[r].seen
                                                     /\ request'[r].target = request[r].target
<1> DEFINE cut == {"loaded", "researched", "qualified"}
           moved(r) == IF request[r].phase = "researched" THEN "lost_researched" ELSE "lost"
           new(r) == IF request[r].phase \in cut THEN [request[r] EXCEPT !.phase = moved(r)] ELSE request[r]
<1>1. request' = [r \in Requests |-> new(r)]
  BY DEF Restart
<1>2. ASSUME NEW r \in Requests
      PROVE  /\ new(r) \in Rows \cup {Idle}
             /\ request[r] = Idle <=> new(r) = Idle
             /\ new(r).phase \notin cut
             /\ request[r] # Idle =>
                   /\ new(r).op = request[r].op /\ new(r).lead = request[r].lead
                   /\ request[r].phase \in {"done", "lost_researched"} => new(r) = request[r]
                   /\ request[r].phase = "researched" => new(r).phase = "lost_researched"
                   /\ request[r].op = "stage" => /\ new(r).seen = request[r].seen
                                                 /\ new(r).target = request[r].target
  <2>1. CASE request[r] = Idle
    BY <2>1, IdlePhase
  <2>2. CASE request[r] # Idle /\ request[r].phase \notin cut
    BY <2>2 DEF CoreInv, RequestsAreRows
  <2>3. CASE request[r] \in RunRow /\ request[r].phase \in cut
    <3>1. new(r) = [request[r] EXCEPT !.phase = moved(r)] /\ moved(r) \in Phases \ cut
      BY <2>3 DEF Phases
    <3>2. new(r) \in RunRow
      BY <2>3, <3>1 DEF RunRow
    <3> QED
      BY <2>3, <3>1, <3>2, IdleIsNoRow DEF RunRow, Rows
  <2>4. CASE request[r] \in AssignmentRow /\ request[r].phase \in cut
    <3>1. new(r) = [request[r] EXCEPT !.phase = moved(r)] /\ moved(r) = "lost"
      BY <2>4 DEF AssignmentRow, EditPhases
    <3>2. new(r) \in AssignmentRow
      BY <2>4, <3>1 DEF AssignmentRow, EditPhases
    <3> QED
      BY <2>4, <3>1, <3>2, IdleIsNoRow DEF AssignmentRow, Rows, EditPhases
  <2>5. CASE request[r] \in StageRow /\ request[r].phase \in cut
    <3>1. new(r) = [request[r] EXCEPT !.phase = moved(r)] /\ moved(r) = "lost"
      BY <2>5 DEF StageRow, EditPhases
    <3>2. new(r) \in StageRow
      BY <2>5, <3>1 DEF StageRow, EditPhases
    <3> QED
      BY <2>5, <3>1, <3>2, IdleIsNoRow DEF StageRow, Rows, EditPhases
  <2> QED
    BY <2>1, <2>2, <2>3, <2>4, <2>5 DEF CoreInv, RequestsAreRows, Rows
<1>3. \A r \in Requests : request'[r] = new(r)
  BY <1>1
<1>4. RequestsAreRows'
  BY <1>1, <1>2, <1>3 DEF RequestsAreRows
<1> HIDE DEF new
<1> QED
  BY <1>2, <1>3, <1>4

-----------------------------------------------------------------------------
LEMMA InitCore == Init => CoreInv
<1> SUFFICES ASSUME Init
             PROVE  CoreInv
  OBVIOUS
<1>1. TypeOK
  BY JourneyAssumptions DEF Init, TypeOK
<1>2. RequestsAreRows /\ LeadsExist
  BY DEF Init, RequestsAreRows, LeadsExist
<1> QED
  BY <1>1, <1>2 DEF CoreInv

(* What is known of a lead is set at its creation.                         *)
FactsKept == \A l \in Leads : Exists(l) => Exists(l)' /\ lead'[l].facts = lead[l].facts

LEMMA RowReplaced ==
    ASSUME CoreInv, NEW l \in Leads, OnlyLead(l), lead'[l] \in Columns,
           Exists(l) => lead'[l].facts = lead[l].facts
    PROVE  FactsKept
BY ExistsIsRow DEF OnlyLead, FactsKept, Exists

LEMMA RowsUntouched ==
    ASSUME lead' = lead
    PROVE  FactsKept
BY DEF FactsKept, Exists

(* The requests keep to existing leads if only one of them moves.          *)
LEMMA LeadsStillExist ==
    ASSUME CoreInv, FactsKept, RequestsAreRows', NEW r \in Requests,
           \A other \in Requests \ {r} : request'[other] = request[other],
           request'[r].lead \in Leads /\ Exists(request'[r].lead)
    PROVE  LeadsExist'
<1>1. ASSUME NEW q \in Requests, request'[q] # Idle
      PROVE  request'[q].lead \in Leads /\ Exists(request'[q].lead)
  BY <1>1, KindOfRequest DEF CoreInv, LeadsExist
<1> QED
  BY <1>1 DEF FactsKept, LeadsExist, Exists

LEMMA PhasesFollow ==
    ASSUME RequestsAreRows'
    PROVE  (\A r \in Requests : request[r] = Idle \/ request[r].phase \in Phases)'
BY IdleIsNoRow DEF RequestsAreRows

LEMMA CoreStep ==
    ASSUME CoreInv, [Next]_vars
    PROVE  CoreInv' /\ FactsKept
<1>0. TypeOK /\ RequestsAreRows /\ LeadsExist
  BY DEF CoreInv
<1>1. ASSUME NEW l \in Leads, NEW facts \in FactSets, CreateLead(l, facts)
      PROVE  CoreInv' /\ FactsKept
  <2>1. lead' \in [Leads -> Columns \cup {NoLead}] /\ FactsKept
    BY <1>1, CreateEffect, RowReplaced
  <2>2. TypeOK'
    BY <1>0, <1>1, <2>1 DEF CreateLead, TypeOK
  <2>3. RequestsAreRows' /\ LeadsExist'
    BY <1>0, <1>1, <2>1, KindOfRequest DEF CreateLead, RequestsAreRows, LeadsExist, FactsKept
  <2> QED
    BY <2>1, <2>2, <2>3 DEF CoreInv
<1>2. ASSUME NEW m \in Members, Deactivate(m)
      PROVE  CoreInv' /\ FactsKept
  BY <1>0, <1>2, RowsUntouched DEF Deactivate, CoreInv, TypeOK, RequestsAreRows, LeadsExist, Exists
<1>3. ASSUME NEW m \in Modes, Restart(m)
      PROVE  CoreInv' /\ FactsKept
  <2>1. RequestsAreRows' /\ lead' = lead
    BY <1>3, RestartStep DEF Restart
  <2>2. TypeOK'
    <3>1. restarts' \in 0 .. MaxRestarts
      BY <1>0, <1>3, JourneyAssumptions DEF Restart, TypeOK
    <3> QED
      BY <1>0, <1>3, <2>1, <3>1, PhasesFollow DEF Restart, TypeOK
  <2>3. LeadsExist'
    BY <1>0, <1>3, <2>1, RestartStep DEF LeadsExist, Exists
  <2> QED
    BY <2>1, <2>2, <2>3, RowsUntouched DEF CoreInv
<1>4. ASSUME NEW r \in Requests, RequestStep(r)
      PROVE  CoreInv' /\ FactsKept
  <2>0. ASSUME RequestsAreRows', FactsKept,
               lead' \in [Leads -> Columns \cup {NoLead}],
               research' \in [Leads -> Nat],
               outreach' \in [Leads -> SUBSET [run : Requests, mode : Modes]],
               mixed' \subseteq Leads, UNCHANGED <<active, mode, restarts>>,
               \A other \in Requests \ {r} : request'[other] = request[other],
               request'[r].lead \in Leads /\ Exists(request'[r].lead)
        PROVE  CoreInv' /\ FactsKept
    <3>1. LeadsExist'
      BY <2>0, LeadsStillExist
    <3>2. TypeOK'
      BY <1>0, <2>0, PhasesFollow DEF TypeOK
    <3> QED
      BY <2>0, <3>1, <3>2 DEF CoreInv
  <2>1. ASSUME NEW l \in Leads, BeginRun(r, l)
        PROVE  CoreInv' /\ FactsKept
    <3> DEFINE row == [phase |-> "loaded", op |-> "run", lead |-> l, status |-> lead[l].status]
    <3>1. row \in Rows /\ row.lead = l
      BY <2>1, ExistsIsRow DEF BeginRun, Columns, RunRow, Rows, Phases
    <3>2. request[r] = Idle /\ request' = [request EXCEPT ![r] = row] /\ Exists(l)
      BY <2>1 DEF BeginRun
    <3> HIDE DEF row
    <3>3. /\ RequestsAreRows' /\ request'[r] = row
          /\ \A other \in Requests \ {r} : request'[other] = request[other]
      BY <1>0, <3>1, <3>2, EntryStep
    <3> QED
      BY <1>0, <2>0, <2>1, <3>1, <3>2, <3>3, RowsUntouched DEF BeginRun, TypeOK
  <2>2. ASSUME NEW l \in Leads, NEW actor \in Members, NEW target \in Members \cup {Nobody},
               LoadAssignment(r, l, actor, target)
        PROVE  CoreInv' /\ FactsKept
    <3> DEFINE row == [phase |-> "loaded", op |-> "assign", lead |-> l,
                       actor |-> actor, target |-> target, seen |-> lead[l]]
    <3>1. row \in Rows /\ row.lead = l
      BY <2>2, ExistsIsRow DEF LoadAssignment, AssignmentRow, Rows, EditPhases
    <3>2. request[r] = Idle /\ request' = [request EXCEPT ![r] = row] /\ Exists(l)
      BY <2>2 DEF LoadAssignment
    <3> HIDE DEF row
    <3>3. /\ RequestsAreRows' /\ request'[r] = row
          /\ \A other \in Requests \ {r} : request'[other] = request[other]
      BY <1>0, <3>1, <3>2, EntryStep
    <3> QED
      BY <1>0, <2>0, <2>2, <3>1, <3>2, <3>3, RowsUntouched DEF LoadAssignment, TypeOK
  <2>3. ASSUME NEW l \in Leads, NEW stage \in Stages, LoadStage(r, l, stage)
        PROVE  CoreInv' /\ FactsKept
    <3> DEFINE row == [phase |-> "loaded", op |-> "stage", lead |-> l, seen |-> lead[l].stage, target |-> stage]
    <3>1. row \in Rows /\ row.lead = l
      BY <2>3, ExistsIsRow DEF LoadStage, Columns, StageRow, Rows, EditPhases
    <3>2. request[r] = Idle /\ request' = [request EXCEPT ![r] = row] /\ Exists(l)
      BY <2>3 DEF LoadStage
    <3> HIDE DEF row
    <3>3. /\ RequestsAreRows' /\ request'[r] = row
          /\ \A other \in Requests \ {r} : request'[other] = request[other]
      BY <1>0, <3>1, <3>2, EntryStep
    <3> QED
      BY <1>0, <2>0, <2>3, <3>1, <3>2, <3>3, RowsUntouched DEF LoadStage, TypeOK
  <2>4. ASSUME NEW p \in Phases, Goto(r, p), request[r] # Idle, request[r].op # "run" => p \in EditPhases
        PROVE  /\ RequestsAreRows'
               /\ \A other \in Requests \ {r} : request'[other] = request[other]
               /\ request'[r].lead \in Leads /\ Exists(request'[r].lead)
    BY <1>0, <2>4, MoveStep, KindOfRequest DEF LeadsExist
  <2>5. CASE Research(r)
    <3>1. /\ request[r] # Idle /\ request[r].op = "run" /\ \E p \in Phases : Goto(r, p)
          /\ lead' \in [Leads -> Columns \cup {NoLead}] /\ FactsKept
      BY <2>5, ResearchEffect, RowReplaced DEF Research, GoOn, Phases
    <3>2. research' \in [Leads -> Nat]
      <4> DEFINE l == request[r].lead
      <4>1. l \in Leads /\ research' = [research EXCEPT ![l] = research[l] + 1]
        BY <1>0, <2>5, <3>1, KindOfRequest DEF Research
      <4>2. research \in [Leads -> Nat]
        BY <1>0 DEF TypeOK
      <4> HIDE DEF l
      <4> QED
        BY <4>1, <4>2
    <3> QED
      BY <1>0, <2>0, <2>4, <2>5, <3>1, <3>2 DEF Research, TypeOK
  <2>6. CASE StepFails(r)
    <3>1. PICK p \in Phases : Goto(r, p) /\ request[r] # Idle /\ (request[r].op # "run" => p \in EditPhases)
      BY <1>0, <2>6, FailedStep
    <3> QED
      BY <1>0, <2>0, <2>4, <2>6, <3>1, RowsUntouched DEF StepFails, TypeOK
  <2>7. CASE Qualify(r)
    <3>1. /\ request[r] # Idle /\ request[r].op = "run"
          /\ lead' \in [Leads -> Columns \cup {NoLead}] /\ FactsKept
      BY <2>7, QualifyEffect, RowReplaced
    <3>2. \E p \in Phases : Goto(r, p)
      BY <2>7 DEF Qualify, QualificationRoute, GoOn, Phases
    <3> QED
      BY <1>0, <2>0, <2>4, <2>7, <3>1, <3>2 DEF Qualify, TypeOK
  <2>8. CASE PrepareOutreach(r)
    <3>1. /\ request[r] # Idle /\ request[r].op = "run"
          /\ \E p \in Phases : Goto(r, p)
      BY <1>0, <2>8, IdlePhase, KindOfRequest DEF PrepareOutreach, GoOn, Phases, EditPhases
    <3>2. outreach' \in [Leads -> SUBSET [run : Requests, mode : Modes]]
      <4> DEFINE l == request[r].lead
                 row == [run |-> r, mode |-> mode]
      <4>1. l \in Leads /\ outreach' = [outreach EXCEPT ![l] = outreach[l] \cup {row}]
        BY <1>0, <2>8, <3>1, KindOfRequest DEF PrepareOutreach
      <4>2. outreach \in [Leads -> SUBSET [run : Requests, mode : Modes]] /\ row \in [run : Requests, mode : Modes]
        BY <1>0 DEF TypeOK
      <4> HIDE DEF l, row
      <4> QED
        BY <4>1, <4>2
    <3> QED
      BY <1>0, <2>0, <2>4, <2>8, <3>1, <3>2, RowsUntouched DEF PrepareOutreach, TypeOK
  <2>9. CASE CommitAssignment(r)
    <3>1. /\ request[r] # Idle /\ Goto(r, "done") /\ "done" \in Phases /\ "done" \in EditPhases
          /\ lead' \in [Leads -> Columns \cup {NoLead}] /\ FactsKept
      BY <2>9, AssignEffect, RowReplaced DEF CommitAssignment, Phases, EditPhases
    <3>2. mixed' \subseteq Leads
      BY <1>0, <2>9, AssignEffect DEF CommitAssignment, TypeOK
    <3> QED
      BY <1>0, <2>0, <2>4, <2>9, <3>1, <3>2 DEF CommitAssignment, TypeOK
  <2>10. CASE CommitStage(r)
    <3>1. /\ request[r] # Idle /\ Goto(r, "done") /\ "done" \in Phases /\ "done" \in EditPhases
          /\ lead' \in [Leads -> Columns \cup {NoLead}] /\ FactsKept
      BY <2>10, StageEffect, RowReplaced DEF CommitStage, Phases, EditPhases
    <3> QED
      BY <1>0, <2>0, <2>4, <2>10, <3>1 DEF CommitStage, TypeOK
  <2> QED
    BY <1>4, <2>1, <2>2, <2>3, <2>5, <2>6, <2>7, <2>8, <2>9, <2>10 DEF RequestStep
<1>5. CASE UNCHANGED vars
  BY <1>0, <1>5, RowsUntouched DEF vars, CoreInv, TypeOK, RequestsAreRows, LeadsExist, Exists
<1> QED
  BY <1>1, <1>2, <1>3, <1>4, <1>5 DEF Next

(* Every variable of the lead journey keeps its type.                      *)
THEOREM JourneyIsTyped == Spec => []TypeOK
<1>1. CoreInv /\ [Next]_vars => CoreInv'
  BY CoreStep
<1>2. CoreInv => TypeOK
  BY DEF CoreInv
<1> QED
  BY InitCore, <1>1, <1>2, PTL DEF Spec

-----------------------------------------------------------------------------
(* Progress: status, score and outreach.                                   *)

ResearchKept == \A l \in Leads : research[l] # 0 => research'[l] # 0

LEMMA ResearchGrows ==
    ASSUME CoreInv, [Next]_vars
    PROVE  ResearchKept
<1>1. ASSUME NEW r \in Requests, Research(r)
      PROVE  ResearchKept
  <2> DEFINE l == request[r].lead
  <2>1. research \in [Leads -> Nat] /\ research' = [research EXCEPT ![l] = research[l] + 1]
    BY <1>1 DEF CoreInv, TypeOK, Research
  <2> HIDE DEF l
  <2> QED
    BY <2>1 DEF ResearchKept
<1>2. ASSUME research' = research
      PROVE  ResearchKept
  BY <1>2 DEF ResearchKept
<1> QED
  BY <1>1, <1>2 DEF Next, CreateLead, Deactivate, Restart, RequestStep, BeginRun, StepFails, Qualify,
         PrepareOutreach, LoadAssignment, CommitAssignment, LoadStage, CommitStage, vars

(* A run that a step does not move stays as it should be.                  *)
LEMMA RunUnmoved ==
    ASSUME CoreInv, FactsKept, ResearchKept, NEW r \in Requests, RunOk(r),
           request'[r] = request[r], mode' = mode
    PROVE  RunOk(r)'
<1> SUFFICES ASSUME request[r] # Idle, request[r].op = "run"
             PROVE  RunOk(r)'
  BY DEF RunOk
<1>1. request[r].lead \in Leads /\ Exists(request[r].lead)
  BY KindOfRequest DEF CoreInv, LeadsExist
<1>2. lead'[request[r].lead].facts = lead[request[r].lead].facts
  BY <1>1 DEF FactsKept
<1> QED
  BY <1>1, <1>2 DEF RunOk, ResearchKept

LEMMA RunStep ==
    ASSUME ProgressInv, [Next]_vars
    PROVE  RunInv'
<1>0. CoreInv /\ RunInv /\ FactsKept /\ ResearchKept /\ StatusTellsProgress /\ TypeOK /\ RequestsAreRows
  BY CoreStep, ResearchGrows DEF ProgressInv, CoreInv
<1>1. ASSUME NEW r \in Requests, mode' = mode, RunOk(r)',
             \A other \in Requests \ {r} : request'[other] = request[other]
      PROVE  RunInv'
  BY <1>0, <1>1, RunUnmoved DEF RunInv
<1>2. ASSUME request' = request, mode' = mode
      PROVE  RunInv'
  BY <1>0, <1>2, RunUnmoved DEF RunInv
<1>3. ASSUME NEW l \in Leads, NEW facts \in FactSets, CreateLead(l, facts)
      PROVE  RunInv'
  BY <1>2, <1>3 DEF CreateLead
<1>4. ASSUME NEW m \in Members, Deactivate(m)
      PROVE  RunInv'
  BY <1>2, <1>4 DEF Deactivate
<1>5. ASSUME NEW m \in Modes, Restart(m)
      PROVE  RunInv'
  BY <1>0, <1>5, RestartStep DEF RunInv, RunOk
<1>6. ASSUME NEW r \in Requests, RequestStep(r)
      PROVE  RunInv'
  <2>0. mode' = mode /\ \A other \in Requests \ {r} : request'[other] = request[other]
    BY <1>0, <1>6 DEF RequestStep, BeginRun, Research, StepFails, Qualify, PrepareOutreach, LoadAssignment,
           CommitAssignment, LoadStage, CommitStage, GoOn, Goto, RequestsAreRows
  <2>1. ASSUME NEW l \in Leads, BeginRun(r, l)
        PROVE  RunInv'
    <3>1. /\ request'[r] = [phase |-> "loaded", op |-> "run", lead |-> l, status |-> lead[l].status]
          /\ Exists(l) /\ research' = research
      BY <1>0, <2>1 DEF BeginRun, RequestsAreRows
    <3>2. lead[l].status # "new" => research[l] # 0
      BY <3>1, <1>0 DEF StatusTellsProgress
    <3>3. /\ request'[r].phase = "loaded" /\ request'[r].lead = l /\ request'[r].status = lead[l].status
      BY <3>1
    <3> QED
      BY <1>1, <2>0, <3>1, <3>2, <3>3 DEF RunOk
  <2>2. ASSUME NEW l \in Leads, NEW actor \in Members, NEW target \in Members \cup {Nobody},
               LoadAssignment(r, l, actor, target)
        PROVE  RunInv'
    <3>1. request'[r].op = "assign"
      BY <1>0, <2>2 DEF LoadAssignment, RequestsAreRows
    <3> QED
      BY <1>1, <2>0, <3>1 DEF RunOk
  <2>3. ASSUME NEW l \in Leads, NEW stage \in Stages, LoadStage(r, l, stage)
        PROVE  RunInv'
    <3>1. request'[r].op = "stage"
      BY <1>0, <2>3 DEF LoadStage, RequestsAreRows
    <3> QED
      BY <1>1, <2>0, <3>1 DEF RunOk
  <2>4. ASSUME NEW p \in Phases, Goto(r, p), p \notin {"loaded", "researched", "qualified"},
               request[r] # Idle, request[r].op # "run" => p \in EditPhases
        PROVE  RunInv'
    <3>1. request'[r].phase = p
      BY <1>0, <2>4, MoveStep
    <3> QED
      BY <1>1, <2>0, <2>4, <3>1 DEF RunOk
  <2>5. CASE Research(r)
    <3> DEFINE l == request[r].lead
    <3>1. PICK p \in {"researched", "lost_researched"} :
             request[r] # Idle /\ request[r].op = "run" /\ Goto(r, p) /\ p \in Phases /\ l \in Leads
      BY <1>0, <2>5, ResearchEffect DEF Research, GoOn, Phases
    <3>2. request'[r].phase \in {"researched", "lost_researched"} /\ request'[r].lead = l
      BY <1>0, <3>1, MoveStep
    <3>3. research'[l] # 0
      <4>1. research \in [Leads -> Nat] /\ research' = [research EXCEPT ![l] = research[l] + 1]
        BY <1>0, <2>5 DEF TypeOK, Research
      <4> HIDE DEF l
      <4> QED
        BY <3>1, <4>1
    <3> QED
      BY <1>1, <2>0, <3>2, <3>3 DEF RunOk
  <2>6. CASE StepFails(r)
    BY <1>0, <2>4, <2>6, FailedStep
  <2>7. CASE Qualify(r)
    <3> DEFINE l == request[r].lead
               route == QualificationRoute(lead'[l].score)
    <3>1. /\ l \in Leads /\ request[r] # Idle /\ request[r].op = "run" /\ GoOn(r, route, "failed")
          /\ lead'[l].facts = lead[l].facts /\ lead'[l].score = Score(lead[l].facts, mode)
      BY <1>0, <2>7, QualifyEffect
    <3>2. PICK p \in {"qualified", "stopped", "failed"} :
             Goto(r, p) /\ p \in Phases /\ (p = "qualified" => Qualified(lead'[l].score))
      BY <3>1 DEF GoOn, QualificationRoute, Phases
    <3> HIDE DEF route
    <3>3. request'[r].phase = p /\ request'[r].lead = l
      BY <1>0, <3>1, <3>2, MoveStep
    <3> QED
      BY <1>1, <2>0, <3>1, <3>2, <3>3 DEF RunOk
  <2>8. CASE PrepareOutreach(r)
    <3>1. PICK p \in {"awaiting_approval", "failed"} :
             request[r] # Idle /\ request[r].op = "run" /\ Goto(r, p) /\ p \in Phases
      BY <1>0, <2>8, IdlePhase, KindOfRequest DEF PrepareOutreach, GoOn, Phases, EditPhases
    <3> QED
      BY <2>4, <3>1
  <2>9. CASE CommitAssignment(r)
    BY <2>4, <2>9, IdlePhase DEF CommitAssignment, Phases, EditPhases
  <2>10. CASE CommitStage(r)
    BY <2>4, <2>10, IdlePhase DEF CommitStage, Phases, EditPhases
  <2> QED
    BY <1>6, <2>1, <2>2, <2>3, <2>5, <2>6, <2>7, <2>8, <2>9, <2>10 DEF RequestStep
<1>7. CASE UNCHANGED vars
  BY <1>2, <1>7 DEF vars
<1> QED
  BY <1>3, <1>4, <1>5, <1>6, <1>7 DEF Next

LEMMA OutreachStep ==
    ASSUME ProgressInv, [Next]_vars
    PROVE  OutreachInv'
<1>0. CoreInv /\ RunInv /\ OutreachInv /\ FactsKept /\ TypeOK
  BY CoreStep DEF ProgressInv, CoreInv
<1>1. ASSUME outreach' = outreach
      PROVE  OutreachInv'
  BY <1>0, <1>1 DEF OutreachInv, FactsKept, Exists
<1>2. ASSUME NEW r \in Requests, PrepareOutreach(r)
      PROVE  OutreachInv'
  <2> DEFINE l == request[r].lead
             row == [run |-> r, mode |-> mode]
  <2>1. request[r] # Idle /\ request[r].op = "run" /\ request[r].phase = "qualified"
    BY <1>0, <1>2, IdlePhase, KindOfRequest DEF CoreInv, PrepareOutreach, EditPhases
  <2>2. l \in Leads /\ Exists(l) /\ Qualified(Score(lead[l].facts, mode))
    BY <1>0, <2>1, KindOfRequest DEF CoreInv, LeadsExist, RunInv, RunOk
  <2>3. /\ outreach' = [outreach EXCEPT ![l] = outreach[l] \cup {row}] /\ lead' = lead
        /\ outreach \in [Leads -> SUBSET [run : Requests, mode : Modes]]
    BY <1>0, <1>2 DEF PrepareOutreach, TypeOK
  <2>4. row.mode = mode
    OBVIOUS
  <2> HIDE DEF l, row
  <2>5. ASSUME NEW k \in Leads, NEW o \in outreach'[k]
        PROVE  Exists(k) /\ Qualified(Score(lead[k].facts, o.mode))
    <3>1. o \in outreach[k] \/ (k = l /\ o = row)
      BY <2>2, <2>3, <2>5
    <3> QED
      BY <1>0, <2>2, <2>4, <3>1 DEF OutreachInv
  <2> QED
    BY <2>3, <2>5 DEF OutreachInv, Exists
<1> QED
  BY <1>1, <1>2 DEF Next, CreateLead, Deactivate, Restart, RequestStep, BeginRun, Research, StepFails, Qualify,
         LoadAssignment, CommitAssignment, LoadStage, CommitStage, vars

LEMMA UnseenStep ==
    ASSUME CoreInv, UnseenInv, [Next]_vars
    PROVE  UnseenInv'
<1>1. FactsKept
  BY CoreStep
<1>2. ASSUME NEW r \in Requests, Research(r)
      PROVE  UnseenInv'
  <2> DEFINE l == request[r].lead
  <2>1. l \in Leads /\ Exists(l)
    BY <1>2, ResearchEffect
  <2>2. research \in [Leads -> Nat] /\ research' = [research EXCEPT ![l] = research[l] + 1]
    BY <1>2 DEF CoreInv, TypeOK, Research
  <2> HIDE DEF l
  <2> QED
    BY <1>1, <2>1, <2>2 DEF UnseenInv, FactsKept
<1>3. ASSUME research' = research
      PROVE  UnseenInv'
  BY <1>1, <1>3 DEF UnseenInv, FactsKept
<1> QED
  BY <1>2, <1>3 DEF Next, CreateLead, Deactivate, Restart, RequestStep, BeginRun, StepFails, Qualify,
         PrepareOutreach, LoadAssignment, CommitAssignment, LoadStage, CommitStage, vars

(* The parts of StatusTellsProgress for one lead.                          *)
Between(l) == \E r \in Requests : /\ request[r] # Idle /\ request[r].lead = l /\ request[r].op = "run"
                                   /\ request[r].phase \in {"researched", "lost_researched"}

ProgressOk(l) ==
    Exists(l) =>
        /\ lead[l].status = "new" <=> research[l] = 0
        /\ lead[l].status \in {"qualified", "unqualified"} =>
              (lead[l].status = "qualified" <=> lead[l].score >= Threshold)
        /\ lead[l].status = "researched" => Between(l)

LEMMA ProgressByLead == StatusTellsProgress <=> \A l \in Leads : ProgressOk(l)
<1>1. ASSUME NEW l
      PROVE  (\E r \in Runs(l) : request[r].phase \in {"researched", "lost_researched"}) <=> Between(l)
  BY DEF Runs, On, Between
<1> QED
  BY <1>1 DEF StatusTellsProgress, ProgressOk

LEMMA ProgressUnmoved ==
    ASSUME CoreInv, NEW l \in Leads, ProgressOk(l), research'[l] = research[l], Exists(l)' => Exists(l),
           Exists(l) => lead'[l].status = lead[l].status /\ lead'[l].score = lead[l].score,
           Between(l) => Between(l)'
    PROVE  ProgressOk(l)'
BY DEF ProgressOk

(* Who is between research and qualification stays there unless it moves.  *)
LEMMA OthersStayBetween ==
    ASSUME CoreInv, NEW l, NEW r \in Requests,
           \A other \in Requests \ {r} : request'[other] = request[other],
           request[r] = Idle \/ request[r].lead # l \/ request[r].phase \notin {"researched", "lost_researched"}
    PROVE  Between(l) => Between(l)'
BY DEF Between

LEMMA StatusStep ==
    ASSUME ProgressInv, [Next]_vars
    PROVE  StatusTellsProgress'
<1>0. /\ CoreInv /\ RunInv /\ FactsKept /\ TypeOK /\ RequestsAreRows
      /\ \A l \in Leads : ProgressOk(l)
  BY CoreStep, ProgressByLead DEF ProgressInv, CoreInv
<1> SUFFICES \A l \in Leads : ProgressOk(l)'
  <2>1. (StatusTellsProgress <=> \A l \in Leads : ProgressOk(l))'
    BY ProgressByLead, PTL
  <2> QED
    BY <2>1
<1>1. ASSUME NEW l \in Leads, NEW facts \in FactSets, CreateLead(l, facts)
      PROVE  \A k \in Leads : ProgressOk(k)'
  <2>1. OnlyLead(l) /\ ~Exists(l) /\ lead'[l] = NewLead(facts) /\ UNCHANGED <<research, request>>
    BY <1>0, <1>1, CreateEffect DEF CreateLead
  <2>2. ASSUME NEW k \in Leads \ {l}
        PROVE  ProgressOk(k)'
    BY <1>0, <2>1, <2>2 DEF OnlyLead, ProgressOk, Between, Exists
  <2>3. lead'[l].status = "new"
    BY <2>1 DEF NewLead
  <2>4. research[l] = 0
    BY <1>0, <2>1 DEF ProgressInv, UnseenInv
  <2> QED
    BY <2>1, <2>2, <2>3, <2>4 DEF ProgressOk
<1>2. ASSUME NEW m \in Members, Deactivate(m)
      PROVE  \A k \in Leads : ProgressOk(k)'
  BY <1>0, <1>2 DEF Deactivate, ProgressOk, Between, Exists
<1>3. ASSUME NEW m \in Modes, Restart(m)
      PROVE  \A k \in Leads : ProgressOk(k)'
  <2>1. ASSUME NEW k \in Leads, Between(k)
        PROVE  Between(k)'
    <3>1. PICK r \in Requests : /\ request[r] # Idle /\ request[r].lead = k /\ request[r].op = "run"
                                /\ request[r].phase \in {"researched", "lost_researched"}
      BY <2>1 DEF Between
    <3>2. /\ request'[r] # Idle /\ request'[r].lead = k /\ request'[r].op = "run"
          /\ request'[r].phase = "lost_researched"
      BY <1>0, <1>3, <3>1, RestartStep
    <3> QED
      BY <3>2 DEF Between
  <2> QED
    BY <1>0, <1>3, <2>1, ProgressUnmoved DEF Restart, Exists
<1>4. ASSUME NEW r \in Requests, RequestStep(r)
      PROVE  \A k \in Leads : ProgressOk(k)'
  <2>0. \A other \in Requests \ {r} : request'[other] = request[other]
    BY <1>0, <1>4 DEF RequestStep, BeginRun, Research, StepFails, Qualify, PrepareOutreach, LoadAssignment,
           CommitAssignment, LoadStage, CommitStage, GoOn, Goto, RequestsAreRows
  <2>1. ASSUME research' = research,
               \A k \in Leads : /\ Exists(k)' => Exists(k)
                                /\ Exists(k) => lead'[k].status = lead[k].status /\ lead'[k].score = lead[k].score,
               request[r] = Idle \/ request[r].phase \notin {"researched", "lost_researched"}
        PROVE  \A k \in Leads : ProgressOk(k)'
    BY <1>0, <2>0, <2>1, ProgressUnmoved, OthersStayBetween
  <2>2. ASSUME NEW l \in Leads, ProgressOk(l)', OnlyLead(l),
               \A k \in Leads \ {l} : research'[k] = research[k],
               request[r] # Idle /\ request[r].lead = l
        PROVE  \A k \in Leads : ProgressOk(k)'
    <3>1. ASSUME NEW k \in Leads \ {l}
          PROVE  ProgressOk(k)'
      <4>1. Between(k) => Between(k)'
        BY <1>0, <2>0, <2>2, OthersStayBetween
      <4>2. lead'[k] = lead[k] /\ research'[k] = research[k]
        BY <2>2 DEF OnlyLead
      <4> QED
        BY <1>0, <4>1, <4>2, ProgressUnmoved DEF Exists
    <3> QED
      BY <2>2, <3>1
  <2>3. CASE Research(r)
    <3>0. PICK l \in Leads : l = request[r].lead
      BY <1>0, <2>3, ResearchEffect
    <3>1. /\ request[r] # Idle /\ request[r].op = "run" /\ request[r].phase = "loaded"
          /\ l \in Leads /\ Exists(l) /\ OnlyLead(l) /\ lead'[l].score = lead[l].score
          /\ \/ lead'[l].status = "researched"
             \/ lead'[l].status = lead[l].status /\ request[r].status = "researched"
          /\ GoOn(r, "researched", "lost_researched")
      BY <1>0, <2>3, <3>0, ResearchEffect DEF Research
    <3>2. Between(l)'
      <4>0. PICK p \in {"researched", "lost_researched"} : Goto(r, p) /\ p \in Phases
        BY <3>1 DEF GoOn, Phases
      <4>1. request'[r] # Idle /\ request'[r].lead = l /\ request'[r].op = "run" /\ request'[r].phase = p
        BY <1>0, <3>0, <3>1, <4>0, MoveStep
      <4> QED
        BY <4>1 DEF Between
    <3>3. research'[l] # 0 /\ \A k \in Leads \ {l} : research'[k] = research[k]
      <4>1. research \in [Leads -> Nat] /\ research' = [research EXCEPT ![l] = research[l] + 1]
        BY <1>0, <2>3, <3>0 DEF TypeOK, Research
      <4> QED
        BY <3>1, <4>1
    <3>4. lead'[l].status # "new"
      <4>1. CASE lead'[l].status = lead[l].status /\ request[r].status = "researched"
        <5>1. research[l] # 0
          BY <1>0, <3>0, <3>1, <4>1 DEF RunInv, RunOk
        <5> QED
          BY <1>0, <3>1, <4>1, <5>1 DEF ProgressOk
      <4> QED
        BY <3>1, <4>1
    <3>5. ProgressOk(l)'
      BY <1>0, <3>1, <3>2, <3>3, <3>4 DEF ProgressOk
    <3> QED
      BY <2>2, <3>0, <3>1, <3>3, <3>5
  <2>4. CASE Qualify(r)
    <3>0. PICK l \in Leads : l = request[r].lead
      BY <1>0, <2>4, QualifyEffect
    <3>1. /\ request[r] # Idle /\ request[r].op = "run" /\ request[r].phase = "researched"
          /\ l \in Leads /\ Exists(l) /\ OnlyLead(l)
          /\ lead'[l].status = IF Qualified(lead'[l].score) THEN "qualified" ELSE "unqualified"
          /\ research' = research
      BY <1>0, <2>4, <3>0, QualifyEffect DEF Qualify
    <3>2. research[l] # 0
      BY <1>0, <3>0, <3>1 DEF RunInv, RunOk
    <3>3. ProgressOk(l)'
      BY <3>1, <3>2 DEF ProgressOk, Qualified
    <3> QED
      BY <2>2, <3>0, <3>1, <3>3
  <2>5. CASE CommitAssignment(r)
    <3>1. /\ request[r] # Idle /\ request[r].phase = "loaded" /\ OnlyLead(request[r].lead)
          /\ request[r].lead \in Leads /\ Exists(request[r].lead)
          /\ lead'[request[r].lead].status = lead[request[r].lead].status
          /\ lead'[request[r].lead].score = lead[request[r].lead].score
          /\ research' = research
      BY <1>0, <2>5, AssignEffect DEF CommitAssignment, CoreInv, LeadsExist
    <3> QED
      BY <2>1, <3>1 DEF OnlyLead, Exists
  <2>6. CASE CommitStage(r)
    <3>1. /\ request[r] # Idle /\ request[r].phase = "loaded" /\ OnlyLead(request[r].lead)
          /\ request[r].lead \in Leads /\ Exists(request[r].lead)
          /\ lead'[request[r].lead].status = lead[request[r].lead].status
          /\ lead'[request[r].lead].score = lead[request[r].lead].score
          /\ research' = research
      BY <1>0, <2>6, StageEffect DEF CommitStage, CoreInv, LeadsExist
    <3> QED
      BY <2>1, <3>1 DEF OnlyLead, Exists
  <2>7. CASE PrepareOutreach(r)
    BY <2>1, <2>7 DEF PrepareOutreach, Exists
  <2>9. CASE StepFails(r)
    <3>1. PICK p \in Phases :
             /\ Goto(r, p) /\ request[r] # Idle /\ (request[r].op # "run" => p \in EditPhases)
             /\ request[r].phase = "researched" => p = "lost_researched"
      BY <1>0, <2>9, FailedStep
    <3>2. /\ request'[r].phase = p /\ request'[r] # Idle
          /\ request'[r].op = request[r].op /\ request'[r].lead = request[r].lead
      BY <1>0, <3>1, MoveStep
    <3>3. request[r].phase # "lost_researched"
      BY <2>9 DEF StepFails
    <3>4. ASSUME NEW k \in Leads, Between(k)
          PROVE  Between(k)'
      BY <2>0, <3>1, <3>2, <3>3, <3>4 DEF Between
    <3> QED
      BY <1>0, <2>9, <3>4, ProgressUnmoved DEF StepFails, Exists
  <2>8. ASSUME request[r] = Idle, UNCHANGED <<lead, research>>
        PROVE  \A k \in Leads : ProgressOk(k)'
    BY <2>1, <2>8 DEF Exists
  <2> QED
    BY <1>4, <2>3, <2>4, <2>5, <2>6, <2>7, <2>8, <2>9 DEF RequestStep, BeginRun, LoadAssignment, LoadStage
<1>5. CASE UNCHANGED vars
  BY <1>0, <1>5 DEF vars, ProgressOk, Between, Exists
<1> QED
  BY <1>1, <1>2, <1>3, <1>4, <1>5 DEF Next

(* Status and score tell how far a lead came, for any number of            *)
(* overlapping runs, edits and restarts.                                   *)
THEOREM StatusTellsTheProgress == Spec => []StatusTellsProgress
<1>1. Init => ProgressInv
  BY InitCore DEF Init, ProgressInv, UnseenInv, RunInv, RunOk, OutreachInv, StatusTellsProgress, Exists
<1>2. ProgressInv /\ [Next]_vars => ProgressInv'
  BY CoreStep, UnseenStep, RunStep, OutreachStep, StatusStep DEF ProgressInv
<1>3. ProgressInv => StatusTellsProgress
  BY DEF ProgressInv
<1> QED
  BY <1>1, <1>2, <1>3, PTL DEF Spec

(* A lead that stands as unqualified was contacted, if at all, by a run    *)
(* that scored it otherwise.                                               *)
THEOREM UnqualifiedLeadsAreLeftAlone == Spec => []UnqualifiedIsNotContacted
<1>1. Init => ProgressInv
  BY InitCore DEF Init, ProgressInv, UnseenInv, RunInv, RunOk, OutreachInv, StatusTellsProgress, Exists
<1>2. ProgressInv /\ [Next]_vars => ProgressInv'
  BY CoreStep, UnseenStep, RunStep, OutreachStep, StatusStep DEF ProgressInv
<1>3. ProgressInv => UnqualifiedIsNotContacted
  <2> SUFFICES ASSUME ProgressInv, NEW l \in Leads, lead[l].status = "unqualified", NEW o \in outreach[l]
               PROVE  Score(lead[l].facts, o.mode) # lead[l].score
    BY DEF UnqualifiedIsNotContacted
  <2>1. Exists(l) /\ Score(lead[l].facts, o.mode) >= Threshold
    BY DEF ProgressInv, OutreachInv, Qualified
  <2>2. ~(lead[l].score >= Threshold)
    BY <2>1 DEF ProgressInv, StatusTellsProgress
  <2> QED
    BY <2>1, <2>2
<1> QED
  BY <1>1, <1>2, <1>3, PTL DEF Spec

-----------------------------------------------------------------------------
(* Assignments.                                                            *)

(* Some finished request made the assignment of lead l.                    *)
Made(l) == \E r \in Requests : /\ request[r] # Idle /\ request[r].lead = l
                                /\ request[r].phase = "done" /\ request[r].op = "assign"
                                /\ request[r].target = lead[l].assignee
                                /\ request[r].actor = lead[l].assigned_by

WholeOk(l) ==
    Exists(l) /\ l \notin mixed =>
        IF lead[l].assignee = Nobody
        THEN ~lead[l].assigned_at /\ lead[l].assigned_by = Nobody
        ELSE lead[l].assigned_at /\ Made(l)

LEMMA WholeByLead == AssignmentIsWhole <=> \A l \in Leads : WholeOk(l)
<1>1. ASSUME NEW l
      PROVE  Made(l) <=> \E r \in On(l) : /\ request[r].phase = "done" /\ request[r].op = "assign"
                                           /\ request[r].target = lead[l].assignee
                                           /\ request[r].actor = lead[l].assigned_by
  BY DEF Made, On
<1> QED
  BY <1>1 DEF AssignmentIsWhole, WholeOk

(* Columns that stay, and requests that are done and stay done.            *)
DoneStays == \A r \in Requests : request[r] # Idle /\ request[r].phase = "done" => request'[r] = request[r]

LEMMA DoneIsDone ==
    ASSUME CoreInv, [Next]_vars
    PROVE  DoneStays
<1>1. ASSUME NEW m \in Modes, Restart(m)
      PROVE  DoneStays
  BY <1>1, RestartStep DEF DoneStays
<1>2. ASSUME NEW r \in Requests, RequestStep(r)
      PROVE  DoneStays
  BY <1>2, IdlePhase DEF RequestStep, BeginRun, Research, StepFails, Qualify, PrepareOutreach, LoadAssignment,
         CommitAssignment, LoadStage, CommitStage, GoOn, Goto, CoreInv, RequestsAreRows, DoneStays
<1>3. ASSUME request' = request
      PROVE  DoneStays
  BY <1>3 DEF DoneStays
<1> QED
  BY <1>1, <1>2, <1>3 DEF Next, CreateLead, Deactivate, vars

LEMMA WholeUnmoved ==
    ASSUME CoreInv, DoneStays, NEW l \in Leads, WholeOk(l), Exists(l)' => Exists(l),
           l \in mixed => l \in mixed',
           Exists(l) => AssignmentOf(lead'[l]) = AssignmentOf(lead[l])
    PROVE  WholeOk(l)'
<1>1. SUFFICES ASSUME Exists(l)', l \notin mixed'
               PROVE  WholeOk(l)'
  BY DEF WholeOk
<1>2. /\ lead'[l].assignee = lead[l].assignee /\ lead'[l].assigned_at = lead[l].assigned_at
      /\ lead'[l].assigned_by = lead[l].assigned_by
  BY <1>1 DEF AssignmentOf
<1>3. Made(l) => Made(l)'
  <2>1. ASSUME NEW r \in Requests,
               request[r] # Idle, request[r].lead = l, request[r].phase = "done", request[r].op = "assign",
               request[r].target = lead[l].assignee, request[r].actor = lead[l].assigned_by
        PROVE  Made(l)'
    <3>1. request'[r] = request[r]
      BY <2>1 DEF DoneStays
    <3> QED
      BY <1>2, <2>1, <3>1 DEF Made
  <2> QED
    BY <2>1 DEF Made
<1>4. CASE lead[l].assignee = Nobody
  <2>1. ~lead[l].assigned_at /\ lead[l].assigned_by = Nobody
    BY <1>1, <1>4 DEF WholeOk
  <2> QED
    BY <1>2, <1>4, <2>1 DEF WholeOk
<1>5. CASE lead[l].assignee # Nobody
  <2>1. lead[l].assigned_at /\ Made(l)
    BY <1>1, <1>5 DEF WholeOk
  <2> QED
    BY <1>2, <1>3, <1>5, <2>1 DEF WholeOk
<1> QED
  BY <1>4, <1>5

LEMMA WholeStep ==
    ASSUME CoreInv, AssignmentIsWhole, [Next]_vars
    PROVE  AssignmentIsWhole'
<1>0. /\ DoneStays /\ TypeOK /\ RequestsAreRows
      /\ \A l \in Leads : WholeOk(l)
  BY DoneIsDone, WholeByLead DEF CoreInv
<1> SUFFICES \A l \in Leads : WholeOk(l)'
  <2>1. (AssignmentIsWhole <=> \A l \in Leads : WholeOk(l))'
    BY WholeByLead, PTL
  <2> QED
    BY <2>1
<1>1. ASSUME NEW l \in Leads, OnlyLead(l), WholeOk(l)', mixed \subseteq mixed'
      PROVE  \A k \in Leads : WholeOk(k)'
  <2>1. ASSUME NEW k \in Leads \ {l}
        PROVE  WholeOk(k)'
    <3>1. lead'[k] = lead[k]
      BY <1>1 DEF OnlyLead
    <3> QED
      BY <1>0, <1>1, <3>1, WholeUnmoved DEF Exists
  <2> QED
    BY <1>1, <2>1
<1>2. ASSUME NEW l \in Leads, OnlyLead(l), Exists(l), AssignmentOf(lead'[l]) = AssignmentOf(lead[l]), mixed' = mixed
      PROVE  \A k \in Leads : WholeOk(k)'
  BY <1>0, <1>1, <1>2, WholeUnmoved
<1>3. ASSUME lead' = lead, mixed' = mixed
      PROVE  \A k \in Leads : WholeOk(k)'
  BY <1>0, <1>3, WholeUnmoved DEF Exists
<1>4. ASSUME NEW l \in Leads, NEW facts \in FactSets, CreateLead(l, facts)
      PROVE  \A k \in Leads : WholeOk(k)'
  <2>1. OnlyLead(l) /\ lead'[l] = NewLead(facts) /\ mixed' = mixed
    BY <1>4, CreateEffect DEF CreateLead
  <2>2. lead'[l].assignee = Nobody /\ lead'[l].assigned_by = Nobody
    BY <2>1 DEF NewLead
  <2>3. ~lead'[l].assigned_at
    BY <2>1 DEF NewLead
  <2>4. WholeOk(l)'
    BY <2>2, <2>3 DEF WholeOk
  <2> QED
    BY <1>1, <2>1, <2>4
<1>5. ASSUME NEW r \in Requests, CommitAssignment(r)
      PROVE  \A k \in Leads : WholeOk(k)'
  <2>0. PICK l \in Leads : l = request[r].lead
    BY <1>5, AssignEffect
  <2>1. /\ OnlyLead(l) /\ request[r] # Idle /\ request[r].op = "assign" /\ Goto(r, "done")
        /\ "done" \in Phases /\ "done" \in EditPhases
    BY <1>5, <2>0, AssignEffect DEF CommitAssignment, Phases, EditPhases
  <2>2. mixed \subseteq mixed' /\ (l \notin mixed' => AssignmentOf(lead[l]) = AssignmentOf(request[r].seen))
    BY <1>5, <2>0 DEF CommitAssignment
  <2>3. /\ request'[r] # Idle /\ request'[r].lead = l /\ request'[r].phase = "done" /\ request'[r].op = "assign"
        /\ request'[r].target = request[r].target /\ request'[r].actor = request[r].actor
    BY <1>0, <2>0, <2>1, MoveStep
  <2>4. ASSUME l \notin mixed'
        PROVE  WholeOk(l)'
    <3>1. /\ lead'[l].assignee = request[r].target
          /\ lead'[l].assigned_by = IF request[r].target = Nobody THEN Nobody ELSE request[r].actor
      BY <1>5, <2>0, <2>2, <2>4, AssignEffect
    <3>2. lead'[l].assigned_at = (request[r].target # Nobody)
      BY <1>5, <2>0, <2>2, <2>4, AssignEffect
    <3>3. CASE request[r].target = Nobody
      <4>1. ~lead'[l].assigned_at
        BY <3>2, <3>3
      <4> QED
        BY <3>1, <3>3, <4>1 DEF WholeOk
    <3>4. CASE request[r].target # Nobody
      <4>1. lead'[l].assigned_at
        BY <3>2, <3>4
      <4>2. Made(l)'
        BY <2>3, <3>1, <3>4 DEF Made
      <4> QED
        BY <3>1, <3>4, <4>1, <4>2 DEF WholeOk
    <3> QED
      BY <3>3, <3>4
  <2>5. WholeOk(l)'
    BY <2>4 DEF WholeOk
  <2> QED
    BY <1>1, <2>1, <2>2, <2>5
<1>6. ASSUME NEW r \in Requests, Research(r)
      PROVE  \A k \in Leads : WholeOk(k)'
  BY <1>2, <1>6, ResearchEffect DEF Research
<1>7. ASSUME NEW r \in Requests, Qualify(r)
      PROVE  \A k \in Leads : WholeOk(k)'
  BY <1>2, <1>7, QualifyEffect DEF Qualify
<1>8. ASSUME NEW r \in Requests, CommitStage(r)
      PROVE  \A k \in Leads : WholeOk(k)'
  BY <1>2, <1>8, StageEffect DEF CommitStage, CoreInv, LeadsExist
<1> QED
  BY <1>3, <1>4, <1>5, <1>6, <1>7, <1>8 DEF Next, Deactivate, Restart, RequestStep, BeginRun, StepFails,
     PrepareOutreach, LoadAssignment, LoadStage, vars

(* Assignee, time and author of an assignment fit together and come from   *)
(* one request, unless two assignments crossed.                            *)
THEOREM AssignmentsAreWhole == Spec => []AssignmentIsWhole
<1>1. Init => CoreInv /\ AssignmentIsWhole
  BY InitCore DEF Init, AssignmentIsWhole, Exists
<1>2. CoreInv /\ AssignmentIsWhole /\ [Next]_vars => (CoreInv /\ AssignmentIsWhole)'
  BY CoreStep, WholeStep
<1> QED
  BY <1>1, <1>2, PTL DEF Spec

-----------------------------------------------------------------------------
(* Stages.                                                                 *)

LEMMA StageInvStep ==
    ASSUME CoreInv, StageInv, [Next]_vars
    PROVE  StageInv'
<1>0. RequestsAreRows
  BY DEF CoreInv
<1>1. ASSUME NEW m \in Modes, Restart(m)
      PROVE  StageInv'
  BY <1>1, RestartStep DEF StageInv
<1>2. ASSUME NEW r \in Requests, RequestStep(r)
      PROVE  StageInv'
  <2>1. ASSUME NEW p \in Phases, Goto(r, p), request[r] # Idle, request[r].op # "run" => p \in EditPhases
        PROVE  StageInv'
    BY <1>0, <2>1, MoveStep DEF StageInv
  <2>2. ASSUME NEW l \in Leads, NEW stage \in Stages, LoadStage(r, l, stage)
        PROVE  StageInv'
    <3>1. /\ request'[r].target = stage /\ request'[r].seen = lead[l].stage
          /\ \A other \in Requests \ {r} : request'[other] = request[other]
          /\ stage \in NextStages[lead[l].stage]
      BY <1>0, <2>2 DEF LoadStage, StageChange, RequestsAreRows
    <3> QED
      BY <3>1 DEF StageInv
  <2>3. ASSUME request'[r].op # "stage", \A other \in Requests \ {r} : request'[other] = request[other]
        PROVE  StageInv'
    BY <2>3 DEF StageInv
  <2>4. ASSUME NEW l \in Leads, BeginRun(r, l)
        PROVE  StageInv'
    BY <1>0, <2>3, <2>4 DEF BeginRun, RequestsAreRows
  <2>5. ASSUME NEW l \in Leads, NEW actor \in Members, NEW target \in Members \cup {Nobody},
               LoadAssignment(r, l, actor, target)
        PROVE  StageInv'
    BY <1>0, <2>3, <2>5 DEF LoadAssignment, RequestsAreRows
  <2>6. CASE Research(r)
    BY <2>1, <2>6, IdlePhase DEF Research, GoOn, Phases
  <2>7. CASE StepFails(r)
    BY <1>0, <2>1, <2>7, FailedStep
  <2>8. CASE Qualify(r)
    <3>1. \E p \in Phases : Goto(r, p)
      BY <2>8 DEF Qualify, QualificationRoute, GoOn, Phases
    <3> QED
      BY <2>1, <2>8, <3>1, QualifyEffect
  <2>9. CASE PrepareOutreach(r)
    <3>1. request[r] # Idle /\ request[r].op = "run" /\ \E p \in Phases : Goto(r, p)
      BY <1>0, <2>9, IdlePhase, KindOfRequest DEF PrepareOutreach, GoOn, Phases, EditPhases
    <3> QED
      BY <2>1, <3>1
  <2>10. CASE CommitAssignment(r)
    BY <2>1, <2>10, IdlePhase DEF CommitAssignment, Phases, EditPhases
  <2>11. CASE CommitStage(r)
    BY <2>1, <2>11, IdlePhase DEF CommitStage, Phases, EditPhases
  <2> QED
    BY <1>2, <2>2, <2>4, <2>5, <2>6, <2>7, <2>8, <2>9, <2>10, <2>11 DEF RequestStep
<1>3. ASSUME request' = request
      PROVE  StageInv'
  BY <1>3 DEF StageInv
<1> QED
  BY <1>1, <1>2, <1>3 DEF Next, CreateLead, Deactivate, vars

(* A step that moves a lead to another stage is the commit of a request    *)
(* that asked for it.                                                      *)
MatrixStep ==
    \A l \in Leads : Exists(l) /\ lead'[l].stage # lead[l].stage =>
       \E r \in On(l) :
          /\ request[r].op = "stage" /\ request[r].phase = "loaded" /\ request'[r].phase = "done"
          /\ request[r].target = lead'[l].stage
          /\ request[r].seen = lead[l].stage => lead'[l].stage \in NextStages[lead[l].stage]

LEMMA StageChangeStep ==
    ASSUME CoreInv, StageInv, [Next]_vars
    PROVE  MatrixStep
<1>0. RequestsAreRows
  BY DEF CoreInv
<1>1. ASSUME NEW r \in Requests, CommitStage(r)
      PROVE  MatrixStep
  <2>0. PICK l \in Leads : l = request[r].lead
    BY <1>1, StageEffect
  <2>1. /\ OnlyLead(l) /\ request[r] # Idle /\ request[r].op = "stage" /\ request[r].phase = "loaded"
        /\ lead'[l].stage = request[r].target /\ Goto(r, "done") /\ "done" \in Phases /\ "done" \in EditPhases
    BY <1>1, <2>0, StageEffect DEF CommitStage, Phases, EditPhases
  <2>2. request'[r].phase = "done"
    BY <1>0, <2>1, MoveStep
  <2>3. request[r].target \in NextStages[request[r].seen] /\ r \in On(l)
    BY <2>0, <2>1 DEF StageInv, On
  <2>4. ASSUME NEW k \in Leads, lead'[k].stage # lead[k].stage
        PROVE  k = l
    BY <2>1, <2>4 DEF OnlyLead
  <2> QED
    BY <2>1, <2>2, <2>3, <2>4 DEF MatrixStep
<1>2. ASSUME NEW l \in Leads, OnlyLead(l), Exists(l) => lead'[l].stage = lead[l].stage
      PROVE  MatrixStep
  BY <1>2 DEF MatrixStep, OnlyLead
<1>3. ASSUME lead' = lead
      PROVE  MatrixStep
  BY <1>3 DEF MatrixStep
<1>4. ASSUME NEW l \in Leads, NEW facts \in FactSets, CreateLead(l, facts)
      PROVE  MatrixStep
  BY <1>2, <1>4, CreateEffect
<1>5. ASSUME NEW r \in Requests, Research(r) \/ Qualify(r) \/ CommitAssignment(r)
      PROVE  MatrixStep
  BY <1>2, <1>5, ResearchEffect, QualifyEffect, AssignEffect
<1> QED
  BY <1>1, <1>3, <1>4, <1>5 DEF Next, Deactivate, Restart, RequestStep, BeginRun, StepFails,
     PrepareOutreach, LoadAssignment, LoadStage, vars

(* Only a stage request moves a lead, to the stage it asked for, and out   *)
(* of the matrix only if it was overtaken.                                 *)
THEOREM StagesFollowTheMatrix == Spec => StageFollowsMatrix
<1>1. Init => CoreInv /\ StageInv
  BY InitCore DEF Init, StageInv
<1>2. CoreInv /\ StageInv /\ [Next]_vars => (CoreInv /\ StageInv)'
  BY CoreStep, StageInvStep
<1>3. CoreInv /\ StageInv /\ [Next]_vars => MatrixStep
  BY StageChangeStep
<1> QED
  BY <1>1, <1>2, <1>3, PTL DEF Spec, StageFollowsMatrix, MatrixStep

=============================================================================
