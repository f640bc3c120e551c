----------------------------- MODULE LeadJourney -----------------------------
(***************************************************************************)
(* What happens to one row of the lead table: the new-lead workflow (load, *)
(* research, qualify, prepare outreach or stop), the assignment of an      *)
(* operator, and the moves between the sales stages.  The workflow runs on *)
(* the event loop and lets other runs in between its nodes, each of which  *)
(* commits on its own and may fail, before its commit or in the refresh    *)
(* that follows it; assignment and stage requests load in one step and     *)
(* commit in another.  A commit sends only the columns that differ from    *)
(* the loaded ones, so writers of one lead mix column by column.           *)
(***************************************************************************)
EXTENDS Integers, FiniteSets

CONSTANTS
    Requests,       \* bound: requests that are ever made
    Leads,
    FactSets,       \* bound: what may be known of a lead at its creation
    Members,        \* memberships of the workspace
    MaxRestarts,    \* bound: how often the process restarts
    Nobody

Facts == {"contact", "website", "job_title", "notes"}

Modes == {"demo", "live"}       \* Settings.llm_mode: a bundled brief, or the gateway

ASSUME JourneyAssumptions ==
    /\ FactSets \subseteq SUBSET Facts
    /\ MaxRestarts \in Nat
    /\ Nobody \notin Members

VARIABLES
    lead,       \* the row of each lead
    research,   \* number of LeadResearch rows of each lead
    outreach,   \* approval requests of each lead: the run and the mode that made them
    active,     \* members that are active, as are their users
    request,    \* the requests
    mode,
    restarts,
    mixed       \* ghost: leads an assignment was committed on that had changed since its load

vars == <<lead, research, outreach, active, request, mode, restarts, mixed>>

-----------------------------------------------------------------------------
(* The pure parts.                                                         *)

Threshold == 55

Opportunities(m) == IF m = "demo" THEN 2 ELSE 1

Points(fact) == IF fact = "contact" THEN 20 ELSE 15

LesserOf(a, b) == IF a < b THEN a ELSE b

(* QualificationAgent.run: what is known of the lead and how much the      *)
(* brief found, at most 100 points.                                        *)
Score(facts, m) ==
    LET worth(f) == IF f \in facts THEN Points(f) ELSE 0
    IN  LesserOf(100, 10 + worth("contact") + worth("website") + worth("job_title")
                         + worth("notes") + LesserOf(20, 10 * Opportunities(m)))

Qualified(score) == score >= Threshold

QualificationRouteAlways(score) == "qualified"     \* faulty: nobody is stopped

QualificationRoute(score) == IF Qualified(score) THEN "qualified" ELSE "stopped"

Stages == {"introduction", "discovery", "qualification", "value_proposition",
           "objection_handling", "closing", "follow_up"}

(* SalesStageTransitionService._ALLOWED_NEXT_STAGES                        *)
NextStages ==
    [introduction       |-> {"discovery"},
     discovery          |-> {"qualification"},
     qualification      |-> {"value_proposition"},
     value_proposition  |-> {"objection_handling", "closing"},
     objection_handling |-> {"value_proposition", "closing", "follow_up"},
     closing            |-> {"follow_up"},
     follow_up          |-> {"discovery"}]

StageChangeAny(current, requested) == requested # current    \* faulty: no matrix

(* A request for the stage the lead is at is allowed and writes nothing.   *)
StageChange(current, requested) == requested \in NextStages[current]

Statuses == {"new", "researched", "qualified", "unqualified"}

Columns == [facts : FactSets, status : Statuses, score : 0 .. 100, stage : Stages,
            assignee : Members \cup {Nobody}, assigned_at : BOOLEAN,
            assigned_by : Members \cup {Nobody}]

NoLead == [facts |-> {}, status |-> "none"]

NewLead(facts) == [facts |-> facts, status |-> "new", score |-> 0, stage |-> "introduction",
                   assignee |-> Nobody, assigned_at |-> FALSE, assigned_by |-> Nobody]

Exists(l) == lead[l] # NoLead

Idle == [phase |-> "idle"]

On(l) == {r \in Requests : request[r] # Idle /\ request[r].lead = l}

Runs(l) == {r \in On(l) : request[r].op = "run"}

-----------------------------------------------------------------------------
Init ==
    /\ lead = [l \in Leads |-> NoLead]
    /\ research = [l \in Leads |-> 0]
    /\ outreach = [l \in Leads |-> {}]
    /\ active = Members
    /\ request = [r \in Requests |-> Idle]
    /\ mode \in Modes
    /\ restarts = 0
    /\ mixed = {}

(* POST /leads                                                             *)
CreateLead(l, facts) ==
    /\ ~Exists(l)
    /\ lead' = [lead EXCEPT ![l] = NewLead(facts)]
    /\ UNCHANGED <<research, outreach, active, request, mode, restarts, mixed>>

Goto(r, phase) == request' = [request EXCEPT ![r].phase = phase]

(* A node has committed; the refresh of what it wrote may still fail, and  *)
(* the run with it.                                                        *)
GoOn(r, phase, otherwise) == Goto(r, phase) \/ Goto(r, otherwise)

(* POST /workflows/{lead}/run: the route and load_lead.  The second reads  *)
(* what the first has loaded.                                              *)
BeginRun(r, l) ==
    /\ request[r] = Idle
    /\ Exists(l)
    /\ request' = [request EXCEPT ![r] = [phase |-> "loaded", op |-> "run", lead |-> l,
                                          status |-> lead[l].status]]
    /\ UNCHANGED <<lead, research, outreach, active, mode, restarts, mixed>>

(* research_lead and save_research.  The commit of the gateway's usage row *)
(* makes a live run read the lead again; a demo run compares with what the *)
(* route loaded, and so may write "researched" over a later status.  The   *)
(* research row and the status go into one commit.                         *)
Research(r) ==
    LET l    == request[r].lead
        seen == IF mode = "live" THEN lead[l].status ELSE request[r].status
    IN  /\ request[r].phase = "loaded" /\ request[r].op = "run"
        /\ lead' = [lead EXCEPT ![l].status = IF seen = "researched" THEN @ ELSE "researched"]
        /\ research' = [research EXCEPT ![l] = @ + 1]
        /\ GoOn(r, "researched", "lost_researched")
        /\ UNCHANGED <<outreach, active, mode, restarts, mixed>>

(* A node or a request ends before its commit: the gateway refuses or      *)
(* fails the call or returns no content, the lead cannot be read again, or *)
(* the commit itself fails.  What earlier nodes committed stays.           *)
StepFails(r) ==
    /\ request[r].phase \in {"loaded", "researched", "qualified"}
    /\ Goto(r, IF request[r].phase = "researched" THEN "lost_researched" ELSE "failed")
    /\ UNCHANGED <<lead, research, outreach, active, mode, restarts, mixed>>

(* faulty: the status is kept if the lead was scored before                *)
QualifyOnce(r) ==
    LET l     == request[r].lead
        score == Score(lead[l].facts, mode)
    IN  /\ request[r].phase = "researched"
        /\ lead' = [lead EXCEPT ![l].score = score,
                                ![l].status = IF lead[l].score > 0 THEN @
                                              ELSE IF Qualified(score) THEN "qualified"
                                              ELSE "unqualified"]
        /\ GoOn(r, QualificationRoute(score), "failed")
        /\ UNCHANGED <<research, outreach, active, mode, restarts, mixed>>

(* qualify_lead and qualification_route; stop_unqualified changes nothing. *)
(* The lead is read again, scored and stored without an await.             *)
Qualify(r) ==
    LET l     == request[r].lead
        score == Score(lead[l].facts, mode)
    IN  /\ request[r].phase = "researched"
        /\ lead' = [lead EXCEPT ![l].score = score,
                                ![l].status = IF Qualified(score) THEN "qualified" ELSE "unqualified"]
        /\ GoOn(r, QualificationRoute(score), "failed")
        /\ UNCHANGED <<research, outreach, active, mode, restarts, mixed>>

(* prepare_outreach asks for an approval of its own, whoever asked before. *)
PrepareOutreach(r) ==
    LET l == request[r].lead
    IN  /\ request[r].phase = "qualified"
        /\ outreach' = [outreach EXCEPT ![l] = @ \cup {[run |-> r, mode |-> mode]}]
        /\ GoOn(r, "awaiting_approval", "failed")
        /\ UNCHANGED <<lead, research, active, mode, restarts, mixed>>

-----------------------------------------------------------------------------
(* assign_lead and clear_lead: the actor is an active member; the target   *)
(* must be one when it is looked up.                                       *)
LoadAssignment(r, l, actor, target) ==
    /\ request[r] = Idle
    /\ Exists(l)
    /\ actor \in active
    /\ target \in active \cup {Nobody}
    /\ request' = [request EXCEPT ![r] = [phase |-> "loaded", op |-> "assign", lead |-> l,
                                          actor |-> actor, target |-> target, seen |-> lead[l]]]
    /\ UNCHANGED <<lead, research, outreach, active, mode, restarts, mixed>>

(* faulty: clearing keeps who assigned                                     *)
AssignedByKept(row, seen, actor, target) ==
    [row EXCEPT !.assignee = target, !.assigned_at = (target # Nobody),
                !.assigned_by = IF target = Nobody THEN @ ELSE actor]

(* _set_assignment and _clear_assignment: a column is sent if it differs   *)
(* from the loaded one; a fresh time always does.                          *)
Assigned(row, seen, actor, target) ==
    LET by == IF target = Nobody THEN Nobody ELSE actor
    IN  [row EXCEPT !.assignee    = IF seen.assignee = target THEN @ ELSE target,
                    !.assigned_at = IF target # Nobody THEN TRUE
                                    ELSE IF seen.assigned_at THEN FALSE ELSE @,
                    !.assigned_by = IF seen.assigned_by = by THEN @ ELSE by]

AssignmentOf(row) == <<row.assignee, row.assigned_at, row.assigned_by>>

(* Whether the refresh after the commit succeeds changes only the answer.  *)
CommitAssignment(r) ==
    LET l == request[r].lead
    IN  /\ request[r].phase = "loaded" /\ request[r].op = "assign"
        /\ lead' = [lead EXCEPT ![l] =
                       Assigned(@, request[r].seen, request[r].actor, request[r].target)]
        /\ mixed' = IF AssignmentOf(lead[l]) # AssignmentOf(request[r].seen)
                    THEN mixed \cup {l} ELSE mixed
        /\ Goto(r, "done")
        /\ UNCHANGED <<research, outreach, active, mode, restarts>>

(* IdentityMembershipService.deactivate_user, or a membership taken back.  *)
Deactivate(m) ==
    /\ m \in active
    /\ active' = active \ {m}
    /\ UNCHANGED <<lead, research, outreach, request, mode, restarts, mixed>>

(* SalesStageTransitionService.transition                                  *)
LoadStage(r, l, stage) ==
    /\ request[r] = Idle
    /\ Exists(l)
    /\ StageChange(lead[l].stage, stage)
    /\ request' = [request EXCEPT ![r] = [phase |-> "loaded", op |-> "stage", lead |-> l,
                                          seen |-> lead[l].stage, target |-> stage]]
    /\ UNCHANGED <<lead, research, outreach, active, mode, restarts, mixed>>

CommitStage(r) ==
    /\ request[r].phase = "loaded" /\ request[r].op = "stage"
    /\ lead' = [lead EXCEPT ![request[r].lead].stage = request[r].target]
    /\ Goto(r, "done")
    /\ UNCHANGED <<research, outreach, active, mode, restarts, mixed>>

(* The process stops and starts again, perhaps in the other mode: the runs *)
(* and requests under way are lost, the commits stay.                      *)
Restart(m) ==
    /\ restarts < MaxRestarts
    /\ restarts' = restarts + 1
    /\ mode' = m
    /\ request' = [r \in Requests |->
                      IF request[r].phase \in {"loaded", "researched", "qualified"}
                      THEN [request[r] EXCEPT !.phase =
                               IF @ = "researched" THEN "lost_researched" ELSE "lost"]
                      ELSE request[r]]
    /\ UNCHANGED <<lead, research, outreach, active, mixed>>

RequestStep(r) ==
    \/ \E l \in Leads : BeginRun(r, l)
    \/ Research(r)
    \/ StepFails(r)
    \/ Qualify(r)
    \/ PrepareOutreach(r)
    \/ \E l \in Leads, actor \in Members, target \in Members \cup {Nobody} :
          LoadAssignment(r, l, actor, target)
    \/ CommitAssignment(r)
    \/ \E l \in Leads, stage \in Stages : LoadStage(r, l, stage)
    \/ CommitStage(r)

Next ==
    \/ \E l \in Leads, facts \in FactSets : CreateLead(l, facts)
    \/ \E r \in Requests : RequestStep(r)
    \/ \E m \in Members : Deactivate(m)
    \/ \E m \in Modes : Restart(m)

Spec == Init /\ [][Next]_vars

-----------------------------------------------------------------------------
Phases == {"loaded", "researched", "qualified", "stopped", "awaiting_approval", "failed", "done",
           "lost", "lost_researched"}

TypeOK ==
    /\ lead \in [Leads -> Columns \cup {NoLead}]
    /\ research \in [Leads -> Nat]
    /\ outreach \in [Leads -> SUBSET [run : Requests, mode : Modes]]
    /\ active \subseteq Members
    /\ mode \in Modes
    /\ restarts \in 0 .. MaxRestarts
    /\ mixed \subseteq Leads
    /\ \A r \in Requests : request[r] = Idle \/ request[r].phase \in Phases

(* The status and the score of a lead tell how far it came.  A scored lead *)
(* is qualified or not as its score says; it falls back to "researched"    *)
(* only while another run is between research and qualification, or for    *)
(* good if such a run failed or was cut off there (save_research,          *)
(* update_lead_score, two commits of NewLeadWorkflow).                     *)
StatusTellsProgress ==
    \A l \in Leads : Exists(l) =>
        /\ lead[l].status = "new" <=> research[l] = 0
        /\ lead[l].status \in {"qualified", "unqualified"} =>
              (lead[l].status = "qualified" <=> lead[l].score >= Threshold)
        /\ lead[l].status = "researched" =>
              \E r \in Runs(l) : request[r].phase \in {"researched", "lost_researched"}

(* A lead that stands as unqualified has an outreach waiting for approval  *)
(* only from a run of a process in another mode, which scored it otherwise:*)
(* overlapping runs of one process cannot disagree (QualificationAgent,    *)
(* prepare_outreach).                                                      *)
UnqualifiedIsNotContacted ==
    \A l \in Leads : lead[l].status = "unqualified" =>
        \A o \in outreach[l] : Score(lead[l].facts, o.mode) # lead[l].score

(* Whoever a lead is assigned to, by whom and since when fit together: an  *)
(* assignee has both, nobody has neither, and some request made exactly    *)
(* this assignment - unless an assignment was committed over another that  *)
(* it had not seen, when the columns of the two may mix                    *)
(* (OperatorAssignmentService._set_assignment, _commit_and_refresh).       *)
AssignmentIsWhole ==
    \A l \in Leads : Exists(l) /\ l \notin mixed =>
        IF lead[l].assignee = Nobody
        THEN ~lead[l].assigned_at /\ lead[l].assigned_by = Nobody
        ELSE /\ lead[l].assigned_at
             /\ \E r \in On(l) : /\ request[r].phase = "done" /\ request[r].op = "assign"
                                 /\ request[r].target = lead[l].assignee
                                 /\ request[r].actor = lead[l].assigned_by

(* However many requests move a lead, only a stage request changes its    *)
(* stage, to the one it asked for; it leaves the matrix only if another    *)
(* moved the lead since it looked (SalesStageTransitionService.transition, *)
(* update_sales_stage).                                                    *)
StageFollowsMatrix ==
    [][\A l \in Leads : Exists(l) /\ lead'[l].stage # lead[l].stage =>
          \E r \in On(l) :
             /\ request[r].op = "stage" /\ request[r].phase = "loaded" /\ request'[r].phase = "done"
             /\ request[r].target = lead'[l].stage
             /\ request[r].seen = lead[l].stage => lead'[l].stage \in NextStages[lead[l].stage]]_vars
=============================================================================
