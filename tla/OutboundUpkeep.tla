---------------------------- MODULE OutboundUpkeep ----------------------------
(***************************************************************************)
(* The life of the outbound actions of one account around their delivery:  *)
(* idempotent creation, the operators' labels, notes, priority, owner and  *)
(* archive flag, and the cleanup that deletes what lapsed.  Every request  *)
(* reads in one step and commits in another, without locks, so any two of  *)
(* them may overlap.  Of delivery, retry, cancellation and expiry, which   *)
(* OutboundDelivery models whole, only the load and the status written at  *)
(* the commit are here: what the upkeep can meet.                          *)
(* A read that refuses its request changes nothing and is not a step.      *)
(***************************************************************************)
EXTENDS OutboundTransitions, Integers, FiniteSets, Sequences

CONSTANTS
    Requests,       \* bound: requests that are ever made
    Ids,            \* bound: actions that are ever created
    Keys,           \* idempotency keys
    Contents,       \* what an action says, and to whom
    Labels,
    MaxLabels,      \* MAX_OUTBOUND_ACTION_LABELS
    Owners,
    ExpiryTimes,    \* bound: expires_at a caller may give
    MaxClock,       \* bound: how long time passes
    ForeignKeys,    \* does the database enforce them?  SQLite as configured: no
    None

ASSUME UpkeepAssumptions ==
    /\ MaxLabels \in Nat \ {0}
    /\ MaxClock \in Nat
    /\ ExpiryTimes \subseteq Nat
    /\ ForeignKeys \in BOOLEAN
    /\ None \notin Ids \cup Owners \cup ExpiryTimes \cup Contents
    /\ \A k \in Keys : k # None

VARIABLES
    row,        \* OutboundIntegrationAction by id; None before creation and after deletion
    audit,      \* audit events of each id, in commit order
    labels,     \* OutboundActionLabel rows of each id
    notes,      \* number of OutboundActionAnnotation rows of each id
    approvals,  \* ids for which an ApprovalRequest was stored
    call,       \* the requests
    clock,
    cleanup,    \* how the last cleanup that found anything ended
    sent,       \* ghost: ids whose message a provider took
    stale,      \* ghost: ids whose row had another status, or was gone, at a status commit
    adders      \* ghost: most requests that were adding a label to an id at once

rows  == <<row, audit, labels, notes, approvals>>
ghost == <<sent, stale, adders>>
vars  == <<rows, call, clock, cleanup, ghost>>

-----------------------------------------------------------------------------
Live(i) == row[i] # None

Created(i) == audit[i] # << >>

Deleted(i) == Created(i) /\ ~Live(i)

Idle == [phase |-> "idle"]

Columns == [key : Keys, content : Contents, approval : BOOLEAN, expires : ExpiryTimes \cup {None},
            status : Statuses, priority : {"normal", "high"}, owner : Owners \cup {None},
            archived : BOOLEAN]

ASSUME NoneIsNoRow == None \notin Columns

Fresh(k, c, approval, expires) ==
    [key |-> k, content |-> c, approval |-> approval, expires |-> expires, status |-> "pending",
     priority |-> "normal", owner |-> None, archived |-> FALSE]

(* _matches looks at what is said, to whom and under which gate; neither   *)
(* at expires_at nor at not_before.                                        *)
Matches(i, c, approval) == row[i].content = c /\ row[i].approval = approval

WithKey(k) == {i \in Ids : Live(i) /\ row[i].key = k}

KeyIsFreeUnchecked(k) == TRUE     \* faulty: no unique constraint

(* uq_outbound_integration_action_idempotency                              *)
KeyIsFree(k) == WithKey(k) = {}

Adding(i) == {r \in Requests : call[r].phase = "loaded" /\ call[r].op = "label" /\ call[r].id = i}

(* What list_for_workspace shows without filters.                          *)
ListedByDefault == {i \in Ids : Live(i) /\ ~row[i].archived}

-----------------------------------------------------------------------------
Init ==
    /\ row = [i \in Ids |-> None]
    /\ audit = [i \in Ids |-> << >>]
    /\ labels = [i \in Ids |-> {}]
    /\ notes = [i \in Ids |-> 0]
    /\ approvals = {}
    /\ call = [r \in Requests |-> Idle]
    /\ clock = 0
    /\ cleanup = "none"
    /\ sent = {} /\ stale = {} /\ adders = [i \in Ids |-> 0]

End(r, result, id) == call' = [call EXCEPT ![r] =
    [phase |-> "ended", op |-> call[r].op, arg |-> call[r].arg, id |-> id, result |-> result]]

(* create_action looks for the key: an action that has it is the answer if *)
(* it is the same intent, and a conflict otherwise ...                     *)
Lookup(r, k, c, approval, expires) ==
    /\ call[r] = Idle
    /\ LET asked == [key |-> k, content |-> c, approval |-> approval, expires |-> expires]
           found == WithKey(k)
       IN  call' = [call EXCEPT ![r] =
              IF found = {}
              THEN [phase |-> "looked", op |-> "create", arg |-> asked]
              ELSE LET i == CHOOSE i \in found : TRUE
                   IN  [phase |-> "ended", op |-> "create", arg |-> asked, id |-> i,
                        result |-> IF Matches(i, c, approval) THEN "existing" ELSE "conflict"]]
    /\ UNCHANGED <<rows, clock, cleanup, ghost>>

(* ... and, if there was none, inserts it in one transaction with its      *)
(* approval request and its first audit event.  A row with the key that    *)
(* was committed meanwhile fails the flush, which nobody handles.          *)
Insert(r) ==
    /\ call[r].phase = "looked"
    /\ LET asked == call[r].arg
       IN  \/ \E i \in Ids :
                 /\ ~Created(i)
                 /\ KeyIsFree(asked.key)
                 /\ row' = [row EXCEPT ![i] =
                               Fresh(asked.key, asked.content, asked.approval, asked.expires)]
                 /\ approvals' = IF asked.approval THEN approvals \cup {i} ELSE approvals
                 /\ audit' = [audit EXCEPT ![i] = <<"created">>]
                 /\ End(r, "created", i)
           \/ /\ ~KeyIsFree(asked.key)
              /\ End(r, "error", None)
              /\ UNCHANGED <<row, audit, approvals>>
    /\ UNCHANGED <<labels, notes, clock, cleanup, ghost>>

-----------------------------------------------------------------------------
(* The requests about an action that exists.                               *)

ArchivableAnyStatus(i) == ~row[i].archived     \* faulty: open actions too

Archivable(i) == ~row[i].archived /\ IsTerminal(row[i].status)

(* faulty: the limit is passed by one                                      *)
LabelFitsOneMore(i, l) == l \notin labels[i] /\ Cardinality(labels[i]) <= MaxLabels

LabelFits(i, l) == l \notin labels[i] /\ Cardinality(labels[i]) < MaxLabels

(* What each request demands of the rows it reads.  A label that is there  *)
(* is returned as it is.  Delivery needs its hour not to have passed,      *)
(* expiry needs it to have.                                                *)
ReadAllows(op, i, arg) ==
    /\ op = "label"     => LabelFits(i, arg)
    /\ op = "unlabel"   => arg \in labels[i]
    /\ op = "archive"   => Archivable(i)
    /\ op = "unarchive" => row[i].archived
    /\ op = "status"    =>
          /\ CanTransition(row[i].status, arg)
          /\ arg = "cancelled" => row[i].status = "pending"
          /\ row[i].status = "pending" /\ row[i].expires # None =>
                (arg \in {"delivered", "failed"} => clock < row[i].expires)
          /\ arg = "expired" => row[i].expires # None /\ row[i].expires <= clock

Inputs == {<<"archive", None>>, <<"unarchive", None>>, <<"note", None>>}
            \cup ({"label", "unlabel"} \X Labels)
            \cup ({"priority"} \X {"normal", "high"})
            \cup ({"owner"} \X (Owners \cup {None}))
            \cup ({"status"} \X TransitionEvents)

Load(r, i, input) ==
    LET op  == input[1]
        arg == input[2]
    IN  /\ call[r] = Idle
        /\ Live(i)
        /\ ReadAllows(op, i, arg)
        /\ call' = [call EXCEPT ![r] = [phase |-> "loaded", op |-> op, arg |-> arg, id |-> i,
                                        status |-> row[i].status]]
        /\ adders' = IF op = "label"
                     THEN [adders EXCEPT ![i] = LET n == Cardinality(Adding(i)) + 1
                                                IN  IF n > @ THEN n ELSE @]
                     ELSE adders
        /\ UNCHANGED <<rows, clock, cleanup, sent, stale>>

Loaded(r, op) == call[r].phase = "loaded" /\ call[r].op = op

(* One commit updates a column and adds the audit events of the change; of *)
(* a row that is gone it updates nothing, and the ORM rolls it all back.   *)
Update(r, changed, events) ==
    LET i == call[r].id
    IN  /\ Live(i)
        /\ row' = [row EXCEPT ![i] = changed]
        /\ audit' = [audit EXCEPT ![i] = @ \o events]
        /\ End(r, "done", i)
        /\ UNCHANGED <<labels, notes, approvals, clock, cleanup, adders>>

(* set_priority and set_owner_reference                                    *)
SetColumn(r) ==
    LET i == call[r].id
    IN  /\ \/ /\ Loaded(r, "priority")
              /\ Update(r, [row[i] EXCEPT !.priority = call[r].arg], << >>)
           \/ /\ Loaded(r, "owner")
              /\ Update(r, [row[i] EXCEPT !.owner = call[r].arg], << >>)
        /\ UNCHANGED <<sent, stale>>

Archive(r) ==
    /\ Loaded(r, "archive")
    /\ Update(r, [row[call[r].id] EXCEPT !.archived = TRUE], <<"archived">>)
    /\ UNCHANGED <<sent, stale>>

(* faulty: the event is forgotten                                          *)
UnarchiveSilently(r) ==
    /\ Loaded(r, "unarchive")
    /\ Update(r, [row[call[r].id] EXCEPT !.archived = FALSE], << >>)
    /\ UNCHANGED <<sent, stale>>

Unarchive(r) ==
    /\ Loaded(r, "unarchive")
    /\ Update(r, [row[call[r].id] EXCEPT !.archived = FALSE], <<"unarchived">>)
    /\ UNCHANGED <<sent, stale>>

(* Delivery, retry, cancellation and expiry write over what the row holds  *)
(* by then; a status that does not differ from the loaded one is not sent. *)
WriteStatus(r) ==
    LET i == call[r].id
    IN  /\ Loaded(r, "status")
        /\ Update(r, IF call[r].arg = call[r].status THEN row[i]
                     ELSE [row[i] EXCEPT !.status = call[r].arg], <<call[r].arg>>)
        /\ sent' = IF call[r].arg = "delivered" THEN sent \cup {i} ELSE sent
        /\ stale' = IF row[i].status # call[r].status THEN stale \cup {i} ELSE stale

(* The row of any of these is gone.                                        *)
FindDeleted(r) ==
    LET i == call[r].id
    IN  /\ call[r].phase = "loaded"
        /\ call[r].op \in {"priority", "owner", "archive", "unarchive", "status"}
        /\ ~Live(i)
        /\ End(r, "error", i)
        /\ IF call[r].op = "status"
           THEN /\ sent' = IF call[r].arg = "delivered" THEN sent \cup {i} ELSE sent
                /\ stale' = stale \cup {i}
           ELSE UNCHANGED <<sent, stale>>
        /\ UNCHANGED <<rows, clock, cleanup, adders>>

(* uq_outbound_action_label lets one of two concurrent additions in; the   *)
(* labels and notes of an action that is gone are stored all the same.     *)
AddLabel(r) ==
    LET i == call[r].id
    IN  /\ Loaded(r, "label")
        /\ labels' = [labels EXCEPT ![i] = @ \cup {call[r].arg}]
        /\ End(r, IF call[r].arg \in labels[i] THEN "error" ELSE "done", i)
        /\ UNCHANGED <<row, audit, notes, approvals, clock, cleanup, ghost>>

(* A label that another request removed meanwhile is removed just as well. *)
RemoveLabel(r) ==
    /\ Loaded(r, "unlabel")
    /\ labels' = [labels EXCEPT ![call[r].id] = @ \ {call[r].arg}]
    /\ End(r, "done", call[r].id)
    /\ UNCHANGED <<row, audit, notes, approvals, clock, cleanup, ghost>>

Annotate(r) ==
    /\ Loaded(r, "note")
    /\ notes' = [notes EXCEPT ![call[r].id] = @ + 1]
    /\ End(r, "done", call[r].id)
    /\ UNCHANGED <<row, audit, labels, approvals, clock, cleanup, ghost>>

-----------------------------------------------------------------------------
(* faulty: whatever is past its hour goes                                  *)
LapsedAnyStatus == {i \in Ids : /\ Live(i)
                                /\ row[i].expires # None /\ row[i].expires < clock
                                /\ ~row[i].archived}

Lapsed == {i \in Ids : /\ Live(i)
                       /\ row[i].status \in {"expired", "cancelled"}
                       /\ row[i].expires # None /\ row[i].expires < clock
                       /\ ~row[i].archived}

(* cleanup_expired_for_workspace is one DELETE.  Every action has at least *)
(* the audit event of its creation, whose foreign key does not cascade:    *)
(* where the database enforces it, the statement fails as a whole.         *)
Cleanup ==
    /\ Lapsed # {}
    /\ row' = IF ForeignKeys THEN row
              ELSE [i \in Ids |-> IF i \in Lapsed THEN None ELSE row[i]]
    /\ cleanup' = IF ForeignKeys THEN "error" ELSE "done"
    /\ UNCHANGED <<audit, labels, notes, approvals, call, clock, ghost>>

Tick ==
    /\ clock < MaxClock
    /\ clock' = clock + 1
    /\ UNCHANGED <<rows, call, cleanup, ghost>>

RequestStep(r) ==
    \/ \E k \in Keys, c \in Contents, approval \in BOOLEAN, expires \in ExpiryTimes \cup {None} :
          Lookup(r, k, c, approval, expires)
    \/ Insert(r)
    \/ \E i \in Ids, input \in Inputs : Load(r, i, input)
    \/ SetColumn(r)
    \/ Archive(r)
    \/ Unarchive(r)
    \/ WriteStatus(r)
    \/ FindDeleted(r)
    \/ AddLabel(r)
    \/ RemoveLabel(r)
    \/ Annotate(r)

Next == (\E r \in Requests : RequestStep(r)) \/ Cleanup \/ Tick

Spec == Init /\ [][Next]_vars

-----------------------------------------------------------------------------
(* The rows, their events and the requests have their types; what hangs on *)
(* an action exists only for an action that was created.                   *)
TypeOK ==
    /\ row \in [Ids -> Columns \cup {None}]
    /\ \A i \in Ids :
          /\ audit[i] \in Seq(AuditEvents)
          /\ labels[i] \subseteq Labels
          /\ notes[i] \in Nat
          /\ Live(i) => Created(i)
          /\ ~Created(i) => labels[i] = {} /\ notes[i] = 0 /\ i \notin approvals
    /\ clock \in 0 .. MaxClock
    /\ cleanup \in {"none", "done", "error"}
    /\ \A r \in Requests : call[r].phase \in {"idle", "looked", "loaded", "ended"}

(* Creation with a key answers every caller with an action that says what  *)
(* it asked for, and two callers with two different actions only if the    *)
(* cleanup deleted one of them: two requests that both missed the key      *)
(* cannot both insert (create_action, uq_outbound_integration_action_      *)
(* idempotency).                                                           *)
Answered(r) == call[r].phase = "ended" /\ call[r].op = "create"
                  /\ call[r].result \in {"created", "existing"}

OneActionPerKey ==
    \A r, s \in Requests :
        Answered(r) /\ Answered(s) /\ call[r].arg.key = call[s].arg.key =>
            \/ Deleted(call[r].id) \/ Deleted(call[s].id)
            \/ /\ call[r].id = call[s].id
               /\ call[r].arg.content = call[s].arg.content
               /\ call[r].arg.approval = call[s].arg.approval

(* The last event of a history that concerns the archive is an archiving. *)
LastArchivedIn(history) ==
    \E n \in DOMAIN history :
        /\ history[n] = "archived"
        /\ \A m \in DOMAIN history : m > n => history[m] # "unarchived"

(* However archiving, unarchiving, status changes and cleanups interleave, *)
(* an action is there and archived exactly if the last of its archiving    *)
(* events says so: flag and event are decided on a read of their own and   *)
(* written in one commit, and what an operator archived is never cleaned   *)
(* up (OutboundActionArchivingService, cleanup_expired_for_workspace).     *)
ArchiveFollowsHistory ==
    \A i \in Ids : (Live(i) /\ row[i].archived) <=> LastArchivedIn(audit[i])

(* An action that may still be sent is hidden from the default list only   *)
(* if a status was written over another one that the request had not seen: *)
(* archiving does not hide open work by itself, although it decides on a   *)
(* status it read earlier (archive, list_for_workspace).                   *)
OpenWorkIsListed ==
    \A i \in Ids : Live(i) /\ ~IsTerminal(row[i].status) => i \in ListedByDefault \cup stale

(* The action of a message that a provider took is deleted only if its     *)
(* status was written over, or the delivery was still under way when the   *)
(* cleanup came: otherwise its key goes on refusing a second message       *)
(* (cleanup_expired_for_workspace).                                        *)
SentIsKept == \A i \in sent : Live(i) \/ i \in stale

(* The limit on labels is checked before the insert and by no constraint:  *)
(* it is passed at most by the requests that were adding at once, less one *)
(* (OutboundActionLabelService.add).                                       *)
LabelsWithinConcurrency ==
    \A i \in Ids : Cardinality(labels[i]) <= MaxLabels - 1 + (IF adders[i] = 0 THEN 1 ELSE adders[i])

(* A cleanup that finds lapsed actions deletes them and says how many      *)
(* (tests/test_outbound_expiration_cleanup.py).                            *)
CleanupSucceeds == cleanup # "error"
=============================================================================
