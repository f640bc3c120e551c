------------------------- MODULE OutboundUpkeepProofs -------------------------
(***************************************************************************)
(* Proofs about OutboundUpkeep, for any requests, actions, keys, contents, *)
(* labels and limit on labels, and with or without foreign keys.           *)
(***************************************************************************)
EXTENDS OutboundUpkeep, FiniteSetTheorems, SequenceTheorems, TLAPS

-----------------------------------------------------------------------------
(* The core of the inductive invariant.                                    *)

Asked == [key : Keys, content : Contents, approval : BOOLEAN, expires : ExpiryTimes \cup {None}]

FunctionsOK ==
    DOMAIN call = Requests /\ DOMAIN audit = Ids /\ DOMAIN labels = Ids /\ DOMAIN notes = Ids

(* A request between its two steps has been asked for something that can   *)
(* be asked for, and of an action that was created.                        *)
CallOK(r) ==
    /\ call[r].phase = "looked" => call[r].op = "create" /\ call[r].arg \in Asked
    /\ call[r].phase = "loaded" =>
          /\ call[r].id \in Ids /\ Created(call[r].id)
          /\ <<call[r].op, call[r].arg>> \in Inputs
          /\ call[r].op # "create"

CoreInv == TypeOK /\ FunctionsOK /\ \A r \in Requests : CallOK(r)

(* The answer of a creation is an action that was created, and that says   *)
(* what was asked for as long as it is there.                              *)
AnswerOK(r) ==
    Answered(r) =>
        /\ call[r].id \in Ids /\ Created(call[r].id)
        /\ Live(call[r].id) => /\ row[call[r].id].key = call[r].arg.key
                               /\ Matches(call[r].id, call[r].arg.content, call[r].arg.approval)

(* uq_outbound_integration_action_idempotency holds of the table.          *)
KeysAreUnique == \A i, j \in Ids : Live(i) /\ Live(j) /\ row[i].key = row[j].key => i = j

KeyInv == CoreInv /\ KeysAreUnique /\ \A r \in Requests : AnswerOK(r)

(* A request that read an action as archivable finds it so, unless a       *)
(* status was written over another one in between; a request about to      *)
(* write a status has been admitted by the table.                          *)
ReadStillTrue(r) ==
    call[r].phase = "loaded" =>
        /\ call[r].op = "archive" /\ Live(call[r].id) =>
              IsTerminal(row[call[r].id].status) \/ call[r].id \in stale
        /\ call[r].op = "status" => CanTransition(call[r].status, call[r].arg)

OpenInv == CoreInv /\ OpenWorkIsListed /\ \A r \in Requests : ReadStillTrue(r)

(* What was sent stands as delivered.                                      *)
SentInv == OpenInv /\ \A i \in sent : i \in stale \/ (i \in Ids /\ Live(i) /\ row[i].status = "delivered")

(* The labels there are and those about to be added.                       *)
LabelsOK(i) ==
    /\ IsFiniteSet(labels[i]) /\ IsFiniteSet(Adding(i))
    /\ adders[i] = 0 => labels[i] = {} /\ Adding(i) = {}
    /\ adders[i] > 0 => Cardinality(labels[i]) + Cardinality(Adding(i)) <= MaxLabels - 1 + adders[i]

LabelInv == CoreInv /\ adders \in [Ids -> Nat] /\ \A i \in Ids : LabelsOK(i)

(* What no step takes from an action.                                      *)
Keeps ==
    \A i \in Ids : Created(i) =>
        /\ Created(i)'
        /\ Live(i)' => /\ Live(i)
                       /\ row'[i].key = row[i].key
                       /\ row'[i].content = row[i].content
                       /\ row'[i].approval = row[i].approval

-----------------------------------------------------------------------------
LEMMA ColumnsAreRows == \A columns \in Columns : columns # None
BY NoneIsNoRow

LEMMA InitCore == Init => CoreInv
<1> SUFFICES ASSUME Init PROVE CoreInv
  OBVIOUS
<1>1. TypeOK
  BY UpkeepAssumptions DEF Init, TypeOK, Live, Created, Idle
<1>2. FunctionsOK
  BY DEF Init, FunctionsOK
<1>3. \A r \in Requests : CallOK(r)
  BY DEF Init, CallOK, Idle
<1> QED
  BY <1>1, <1>2, <1>3 DEF CoreInv

LEMMA EndStep ==
    ASSUME DOMAIN call = Requests, NEW r \in Requests, NEW result, NEW id, End(r, result, id)
    PROVE  /\ DOMAIN call' = Requests
           /\ call'[r].phase = "ended" /\ call'[r].op = call[r].op /\ call'[r].arg = call[r].arg
           /\ call'[r].id = id /\ call'[r].result = result
           /\ \A s \in Requests \ {r} : call'[s] = call[s]
BY DEF End

(* A request that is not of creation ends without an answer to one.        *)
LEMMA EndCalls ==
    ASSUME CoreInv, NEW r \in Requests, NEW result, NEW id, End(r, result, id),
           \A i \in Ids : Created(i) => Created(i)'
    PROVE  /\ DOMAIN call' = Requests
           /\ \A s \in Requests : CallOK(s)'
           /\ \A s \in Requests : call'[s].phase \in {"idle", "looked", "loaded", "ended"}
<1>1. /\ DOMAIN call' = Requests
      /\ call'[r].phase = "ended"
      /\ \A s \in Requests \ {r} : call'[s] = call[s]
  BY EndStep DEF CoreInv, FunctionsOK
<1>2. ASSUME NEW s \in Requests
      PROVE  CallOK(s)' /\ call'[s].phase \in {"idle", "looked", "loaded", "ended"}
  <2>1. CASE s = r
    BY <1>1, <2>1 DEF CallOK
  <2>2. CASE s # r
    BY <1>1, <2>2 DEF CoreInv, TypeOK, CallOK
  <2> QED
    BY <2>1, <2>2
<1> QED
  BY <1>1, <1>2

(* What a commit to one row leaves typed.                                  *)
LEMMA UpdateStep ==
    ASSUME CoreInv, NEW r \in Requests, call[r].phase = "loaded",
           NEW changed \in Columns, NEW events \in Seq(AuditEvents), Update(r, changed, events),
           Live(call[r].id) => /\ changed.key = row[call[r].id].key
                               /\ changed.content = row[call[r].id].content
                               /\ changed.approval = row[call[r].id].approval
    PROVE  CoreInv' /\ Keeps
<1> DEFINE i == call[r].id
<1>1. i \in Ids /\ Created(i) /\ Live(i)
  BY DEF CoreInv, CallOK, Update
<1>2. /\ row' = [row EXCEPT ![i] = changed]
      /\ audit' = [audit EXCEPT ![i] = @ \o events]
      /\ UNCHANGED <<labels, notes, approvals, clock, cleanup, adders>>
      /\ End(r, "done", i)
  BY DEF Update
<1> HIDE DEF i
<1>3. row' \in [Ids -> Columns \cup {None}]
  BY <1>1, <1>2 DEF CoreInv, TypeOK
<1>4. /\ row'[i] = changed /\ audit'[i] = audit[i] \o events
      /\ \A j \in Ids \ {i} : row'[j] = row[j] /\ audit'[j] = audit[j]
      /\ DOMAIN audit' = Ids
  BY <1>1, <1>2 DEF CoreInv, TypeOK, FunctionsOK
<1>5. audit[i] \in Seq(AuditEvents) /\ audit'[i] \in Seq(AuditEvents) /\ audit'[i] # << >>
  <2>1. audit[i] \in Seq(AuditEvents) /\ audit[i] # << >>
    BY <1>1 DEF CoreInv, TypeOK, Created
  <2>2. audit'[i] \in Seq(AuditEvents) /\ Len(audit'[i]) = Len(audit[i]) + Len(events)
    BY <1>4, <2>1, ConcatProperties
  <2>3. Len(audit[i]) > 0 /\ Len(audit[i]) \in Nat /\ Len(events) \in Nat
    BY <2>1, EmptySeq, LenProperties
  <2>4. audit'[i] # << >>
    BY <2>2, <2>3
  <2> QED
    BY <2>1, <2>2, <2>4
<1>6. \A j \in Ids : (Created(j)' <=> Created(j)) /\ (Live(j)' <=> Live(j))
  BY <1>1, <1>4, <1>5, ColumnsAreRows DEF Created, Live
<1>7. Keeps
  BY <1>1, <1>4, <1>6 DEF Keeps, i
<1>8. /\ DOMAIN call' = Requests
      /\ \A s \in Requests : CallOK(s)'
      /\ \A s \in Requests : call'[s].phase \in {"idle", "looked", "loaded", "ended"}
  BY <1>2, <1>6, EndCalls
<1>9. TypeOK'
  <2>1. \A j \in Ids : audit'[j] \in Seq(AuditEvents)
    BY <1>4, <1>5 DEF CoreInv, TypeOK
  <2>2. \A j \in Ids : /\ labels'[j] \subseteq Labels
                       /\ notes'[j] \in Nat
                       /\ Live(j)' => Created(j)'
                       /\ ~Created(j)' => labels'[j] = {} /\ notes'[j] = 0 /\ j \notin approvals'
    BY <1>2, <1>6 DEF CoreInv, TypeOK
  <2>3. clock' \in 0 .. MaxClock /\ cleanup' \in {"none", "done", "error"}
    BY <1>2 DEF CoreInv, TypeOK
  <2> QED
    BY <1>3, <1>8, <2>1, <2>2, <2>3 DEF TypeOK
<1>10. FunctionsOK'
  BY <1>2, <1>4, <1>8 DEF CoreInv, FunctionsOK
<1> QED
  BY <1>7, <1>8, <1>9, <1>10 DEF CoreInv

(* Rows that do not change keep their types and their history.             *)
LEMMA SameRows ==
    ASSUME CoreInv, UNCHANGED rows
    PROVE  /\ Keeps
           /\ row' \in [Ids -> Columns \cup {None}]
           /\ \A i \in Ids :
                 /\ audit'[i] \in Seq(AuditEvents)
                 /\ labels'[i] \subseteq Labels
                 /\ notes'[i] \in Nat
                 /\ Live(i)' => Created(i)'
                 /\ ~Created(i)' => labels'[i] = {} /\ notes'[i] = 0 /\ i \notin approvals'
           /\ \A i \in Ids : Created(i)' <=> Created(i)
BY DEF CoreInv, TypeOK, Keeps, rows, Live, Created

LEMMA LookupCore ==
    ASSUME CoreInv, NEW r \in Requests, NEW k \in Keys, NEW c \in Contents, NEW approval \in BOOLEAN,
           NEW expires \in ExpiryTimes \cup {None}, Lookup(r, k, c, approval, expires)
    PROVE  CoreInv' /\ Keeps
<1> DEFINE asked == [key |-> k, content |-> c, approval |-> approval, expires |-> expires]
<1>1. /\ DOMAIN call' = Requests
      /\ \A s \in Requests \ {r} : call'[s] = call[s]
      /\ call'[r].phase \in {"looked", "ended"} /\ call'[r].op = "create" /\ call'[r].arg = asked
  <2>1. CASE WithKey(k) = {}
    BY <2>1 DEF Lookup, CoreInv, FunctionsOK
  <2>2. CASE WithKey(k) # {}
    BY <2>2 DEF Lookup, CoreInv, FunctionsOK
  <2> QED
    BY <2>1, <2>2
<1>2. asked \in Asked
  BY DEF Asked
<1>3. UNCHANGED <<row, audit, labels, notes, approvals, clock, cleanup, sent, stale, adders>>
  BY DEF Lookup, rows, ghost
<1> HIDE DEF asked
<1>4. \A s \in Requests : CallOK(s)' /\ call'[s].phase \in {"idle", "looked", "loaded", "ended"}
  BY <1>1, <1>2, <1>3 DEF CoreInv, TypeOK, CallOK, Created
<1>5. TypeOK' /\ Keeps
  BY <1>3, <1>4, SameRows DEF TypeOK, CoreInv, rows
<1>6. FunctionsOK'
  BY <1>1, <1>3 DEF CoreInv, FunctionsOK
<1> QED
  BY <1>4, <1>5, <1>6 DEF CoreInv

LEMMA InsertCore ==
    ASSUME CoreInv, NEW r \in Requests, Insert(r)
    PROVE  CoreInv' /\ Keeps
<1> DEFINE asked == call[r].arg
<1>1. asked \in Asked /\ call[r].op = "create"
  BY DEF Insert, CoreInv, CallOK
<1>2. UNCHANGED <<labels, notes, clock, cleanup, sent, stale, adders>>
  BY DEF Insert, ghost
<1>3. ASSUME NEW i \in Ids, ~Created(i), KeyIsFree(asked.key),
             row' = [row EXCEPT ![i] = Fresh(asked.key, asked.content, asked.approval, asked.expires)],
             approvals' = IF asked.approval THEN approvals \cup {i} ELSE approvals,
             audit' = [audit EXCEPT ![i] = <<"created">>],
             End(r, "created", i)
      PROVE  CoreInv' /\ Keeps
  <2> DEFINE fresh == Fresh(asked.key, asked.content, asked.approval, asked.expires)
  <2>1. fresh \in Columns
    BY <1>1 DEF Asked, Fresh, Columns, Statuses
  <2> HIDE DEF fresh, asked
  <2>2. row' = [row EXCEPT ![i] = fresh] /\ approvals' \subseteq approvals \cup {i}
    BY <1>3 DEF fresh
  <2>3. /\ row' \in [Ids -> Columns \cup {None}] /\ DOMAIN audit' = Ids
        /\ row'[i] = fresh /\ audit'[i] = <<"created">>
        /\ \A j \in Ids \ {i} : row'[j] = row[j] /\ audit'[j] = audit[j]
    BY <1>3, <2>1, <2>2 DEF CoreInv, TypeOK, FunctionsOK
  <2>4. Created(i)' /\ Live(i)' /\ ~Live(i)
    BY <1>3, <2>1, <2>3, ColumnsAreRows DEF CoreInv, TypeOK, Created, Live
  <2>5. \A j \in Ids \ {i} : (Created(j)' <=> Created(j)) /\ (Live(j)' <=> Live(j))
    BY <2>3 DEF Created, Live
  <2>6. Keeps
    BY <1>3, <2>3, <2>5 DEF Keeps
  <2>7. /\ DOMAIN call' = Requests
        /\ \A s \in Requests : CallOK(s)'
        /\ \A s \in Requests : call'[s].phase \in {"idle", "looked", "loaded", "ended"}
    <3>1. \A j \in Ids : Created(j) => Created(j)'
      BY <2>4, <2>5
    <3> QED
      BY <1>3, <3>1, EndCalls
  <2>8. audit'[i] \in Seq(AuditEvents)
    <3>1. "created" \in AuditEvents
      BY DEF AuditEvents
    <3> QED
      BY <2>3, <3>1
  <2>9. TypeOK'
    <3>1. ASSUME NEW j \in Ids
          PROVE  /\ audit'[j] \in Seq(AuditEvents)
                 /\ labels'[j] \subseteq Labels /\ notes'[j] \in Nat
                 /\ Live(j)' => Created(j)'
                 /\ ~Created(j)' => labels'[j] = {} /\ notes'[j] = 0 /\ j \notin approvals'
      <4>1. CASE j = i
        BY <1>2, <2>4, <2>8, <4>1 DEF CoreInv, TypeOK
      <4>2. CASE j # i
        BY <1>2, <2>2, <2>3, <2>5, <4>2 DEF CoreInv, TypeOK
      <4> QED
        BY <4>1, <4>2
    <3>2. clock' \in 0 .. MaxClock /\ cleanup' \in {"none", "done", "error"}
      BY <1>2 DEF CoreInv, TypeOK
    <3> QED
      BY <2>3, <2>7, <3>1, <3>2 DEF TypeOK
  <2>10. FunctionsOK'
    BY <1>2, <2>3, <2>7 DEF CoreInv, FunctionsOK
  <2> QED
    BY <2>6, <2>7, <2>9, <2>10 DEF CoreInv
<1>4. ASSUME End(r, "error", None), UNCHANGED <<row, audit, approvals>>
      PROVE  CoreInv' /\ Keeps
  <2>1. UNCHANGED rows
    BY <1>2, <1>4 DEF rows
  <2>2. /\ DOMAIN call' = Requests
        /\ \A s \in Requests : CallOK(s)'
        /\ \A s \in Requests : call'[s].phase \in {"idle", "looked", "loaded", "ended"}
    BY <1>4, <2>1, EndCalls, SameRows
  <2>3. TypeOK' /\ Keeps
    BY <1>2, <2>1, <2>2, SameRows DEF TypeOK, CoreInv
  <2> QED
    BY <1>2, <1>4, <2>2, <2>3 DEF CoreInv, FunctionsOK
<1> QED
  BY <1>3, <1>4 DEF Insert

LEMMA LoadCore ==
    ASSUME CoreInv, NEW r \in Requests, NEW i \in Ids, NEW input \in Inputs, Load(r, i, input)
    PROVE  CoreInv' /\ Keeps
<1>1. /\ DOMAIN call' = Requests
      /\ \A s \in Requests \ {r} : call'[s] = call[s]
      /\ call'[r].phase = "loaded" /\ call'[r].op = input[1] /\ call'[r].arg = input[2] /\ call'[r].id = i
  BY DEF Load, CoreInv, FunctionsOK
<1>2. UNCHANGED <<row, audit, labels, notes, approvals, clock, cleanup, sent, stale>>
  BY DEF Load, rows
<1>3. Created(i)
  BY DEF Load, CoreInv, TypeOK
<1>4. input = <<input[1], input[2]>> /\ input[1] # "create"
  BY DEF Inputs
<1>5. ASSUME NEW s \in Requests
      PROVE  CallOK(s)' /\ call'[s].phase \in {"idle", "looked", "loaded", "ended"}
  <2>1. CASE s = r
    BY <1>1, <1>2, <1>3, <1>4, <2>1 DEF CallOK, Created
  <2>2. CASE s # r
    BY <1>1, <1>2, <2>2 DEF CoreInv, TypeOK, CallOK, Created
  <2> QED
    BY <2>1, <2>2
<1>6. TypeOK' /\ Keeps
  BY <1>2, <1>5, SameRows DEF TypeOK, CoreInv, rows
<1>7. FunctionsOK'
  BY <1>1, <1>2 DEF CoreInv, FunctionsOK
<1> QED
  BY <1>5, <1>6, <1>7 DEF CoreInv

(* The commit of a request that ends without touching the rows.            *)
LEMMA OnlyEnds ==
    ASSUME CoreInv, NEW r \in Requests, NEW result, NEW id, End(r, result, id), UNCHANGED rows,
           UNCHANGED <<clock, cleanup>>
    PROVE  CoreInv' /\ Keeps
<1>1. /\ DOMAIN call' = Requests
      /\ \A s \in Requests : CallOK(s)'
      /\ \A s \in Requests : call'[s].phase \in {"idle", "looked", "loaded", "ended"}
  BY EndCalls, SameRows
<1>2. TypeOK' /\ Keeps
  BY <1>1, SameRows DEF TypeOK, CoreInv
<1> QED
  BY <1>1, <1>2 DEF CoreInv, FunctionsOK, rows

(* The columns of a row keep their types.                                  *)
LEMMA ChangedRow ==
    ASSUME NEW columns \in Columns
    PROVE  /\ \A p \in {"normal", "high"} : [columns EXCEPT !.priority = p] \in Columns
           /\ \A o \in Owners \cup {None} : [columns EXCEPT !.owner = o] \in Columns
           /\ \A a \in BOOLEAN : [columns EXCEPT !.archived = a] \in Columns
           /\ \A status \in Statuses : [columns EXCEPT !.status = status] \in Columns
BY DEF Columns

LEMMA EmptyHistory == << >> \in Seq(AuditEvents)
BY EmptySeq

LEMMA OneEvent == \A e \in AuditEvents : <<e>> \in Seq(AuditEvents)
OBVIOUS

LEMMA LoadedRow ==
    ASSUME CoreInv, NEW r \in Requests, call[r].phase = "loaded", Live(call[r].id)
    PROVE  /\ call[r].id \in Ids /\ row[call[r].id] \in Columns
           /\ <<call[r].op, call[r].arg>> \in Inputs
BY DEF CoreInv, CallOK, TypeOK, Live

LEMMA SetColumnCore ==
    ASSUME CoreInv, NEW r \in Requests, SetColumn(r)
    PROVE  CoreInv' /\ Keeps
<1> DEFINE i == call[r].id
<1>1. CASE Loaded(r, "priority") /\ Update(r, [row[i] EXCEPT !.priority = call[r].arg], << >>)
  <2>1. row[i] \in Columns /\ call[r].arg \in {"normal", "high"}
    BY <1>1, LoadedRow DEF Loaded, Update, Inputs
  <2>2. PICK changed \in Columns : changed = [row[i] EXCEPT !.priority = call[r].arg]
    BY <2>1, ChangedRow
  <2>3. changed.key = row[i].key /\ changed.content = row[i].content /\ changed.approval = row[i].approval
    BY <2>1, <2>2 DEF Columns
  <2> QED
    BY <1>1, <2>2, <2>3, EmptyHistory, UpdateStep DEF Loaded
<1>2. CASE Loaded(r, "owner") /\ Update(r, [row[i] EXCEPT !.owner = call[r].arg], << >>)
  <2>1. row[i] \in Columns /\ call[r].arg \in Owners \cup {None}
    BY <1>2, LoadedRow DEF Loaded, Update, Inputs
  <2>2. PICK changed \in Columns : changed = [row[i] EXCEPT !.owner = call[r].arg]
    BY <2>1, ChangedRow
  <2>3. changed.key = row[i].key /\ changed.content = row[i].content /\ changed.approval = row[i].approval
    BY <2>1, <2>2 DEF Columns
  <2> QED
    BY <1>2, <2>2, <2>3, EmptyHistory, UpdateStep DEF Loaded
<1> QED
  BY <1>1, <1>2 DEF SetColumn

LEMMA ArchiveCore ==
    ASSUME CoreInv, NEW r \in Requests, Archive(r) \/ Unarchive(r)
    PROVE  CoreInv' /\ Keeps
<1> DEFINE i == call[r].id
<1>1. PICK a \in BOOLEAN, e \in {"archived", "unarchived"} :
          Update(r, [row[i] EXCEPT !.archived = a], <<e>>)
  BY DEF Archive, Unarchive
<1>2. call[r].phase = "loaded"
  BY DEF Archive, Unarchive, Loaded
<1>3. row[i] \in Columns
  BY <1>1, <1>2, LoadedRow DEF Update
<1>4. PICK changed \in Columns : changed = [row[i] EXCEPT !.archived = a]
  BY <1>3, ChangedRow
<1>5. changed.key = row[i].key /\ changed.content = row[i].content /\ changed.approval = row[i].approval
  BY <1>3, <1>4 DEF Columns
<1>6. <<e>> \in Seq(AuditEvents)
  BY OneEvent DEF AuditEvents, ArchivingEvents
<1> QED
  BY <1>1, <1>2, <1>4, <1>5, <1>6, UpdateStep

LEMMA WriteStatusCore ==
    ASSUME CoreInv, NEW r \in Requests, WriteStatus(r)
    PROVE  CoreInv' /\ Keeps
<1> DEFINE i == call[r].id
<1>1. /\ Loaded(r, "status")
      /\ Update(r, IF call[r].arg = call[r].status THEN row[i]
                   ELSE [row[i] EXCEPT !.status = call[r].arg], <<call[r].arg>>)
  BY DEF WriteStatus
<1>2. row[i] \in Columns /\ call[r].arg \in TransitionEvents
  BY <1>1, LoadedRow DEF Loaded, Update, Inputs
<1>3. PICK changed \in Columns :
          changed = IF call[r].arg = call[r].status THEN row[i] ELSE [row[i] EXCEPT !.status = call[r].arg]
  BY <1>2, ChangedRow DEF TransitionEvents
<1>4. changed.key = row[i].key /\ changed.content = row[i].content /\ changed.approval = row[i].approval
  BY <1>2, <1>3 DEF Columns
<1>5. PICK events \in Seq(AuditEvents) : events = <<call[r].arg>>
  BY <1>2, OneEvent DEF AuditEvents
<1> QED
  BY <1>1, <1>3, <1>4, <1>5, UpdateStep DEF Loaded

LEMMA LabelCore ==
    ASSUME CoreInv, NEW r \in Requests, AddLabel(r) \/ RemoveLabel(r) \/ Annotate(r)
    PROVE  CoreInv' /\ Keeps
<1> DEFINE i == call[r].id
<1>1. i \in Ids /\ Created(i) /\ <<call[r].op, call[r].arg>> \in Inputs
  BY DEF AddLabel, RemoveLabel, Annotate, Loaded, CoreInv, CallOK
<1>2. UNCHANGED <<row, audit, approvals, clock, cleanup>>
  BY DEF AddLabel, RemoveLabel, Annotate
<1>3. \A j \in Ids : (Created(j)' <=> Created(j)) /\ (Live(j)' <=> Live(j))
  BY <1>2 DEF Created, Live
<1>4. PICK result : End(r, result, i)
  BY DEF AddLabel, RemoveLabel, Annotate
<1>5. /\ DOMAIN labels' = Ids /\ DOMAIN notes' = Ids
      /\ \A j \in Ids : labels'[j] \subseteq Labels /\ notes'[j] \in Nat
      /\ \A j \in Ids \ {i} : labels'[j] = labels[j] /\ notes'[j] = notes[j]
  <2>1. CASE AddLabel(r)
    <3>1. call[r].arg \in Labels
      BY <1>1, <2>1 DEF AddLabel, Loaded, Inputs
    <3>2. labels' = [labels EXCEPT ![i] = @ \cup {call[r].arg}] /\ notes' = notes
      BY <2>1 DEF AddLabel
    <3> QED
      BY <1>1, <3>1, <3>2 DEF CoreInv, FunctionsOK, TypeOK
  <2>2. CASE RemoveLabel(r)
    BY <1>1, <2>2 DEF RemoveLabel, CoreInv, FunctionsOK, TypeOK
  <2>3. CASE Annotate(r)
    BY <1>1, <2>3 DEF Annotate, CoreInv, FunctionsOK, TypeOK
  <2> QED
    BY <2>1, <2>2, <2>3
<1>6. /\ DOMAIN call' = Requests
      /\ \A s \in Requests : CallOK(s)'
      /\ \A s \in Requests : call'[s].phase \in {"idle", "looked", "loaded", "ended"}
  BY <1>3, <1>4, EndCalls
<1> HIDE DEF i
<1>7. TypeOK'
  <2>1. \A j \in Ids : /\ audit'[j] \in Seq(AuditEvents)
                       /\ Live(j)' => Created(j)'
                       /\ ~Created(j)' => labels'[j] = {} /\ notes'[j] = 0 /\ j \notin approvals'
    BY <1>1, <1>2, <1>3, <1>5 DEF CoreInv, TypeOK
  <2>2. row' \in [Ids -> Columns \cup {None}] /\ clock' \in 0 .. MaxClock
          /\ cleanup' \in {"none", "done", "error"}
    BY <1>2 DEF CoreInv, TypeOK
  <2> QED
    BY <1>5, <1>6, <2>1, <2>2 DEF TypeOK
<1>8. Keeps
  BY <1>2, <1>3 DEF Keeps
<1> QED
  BY <1>2, <1>5, <1>6, <1>7, <1>8 DEF CoreInv, FunctionsOK

LEMMA CleanupCore ==
    ASSUME CoreInv, Cleanup
    PROVE  CoreInv' /\ Keeps
<1>1. UNCHANGED <<audit, labels, notes, approvals, call, clock>> /\ cleanup' \in {"error", "done"}
  BY DEF Cleanup
<1>2. /\ row' \in [Ids -> Columns \cup {None}]
      /\ \A i \in Ids : row'[i] = row[i] \/ row'[i] = None
  BY DEF Cleanup, CoreInv, TypeOK
<1>3. \A i \in Ids : (Created(i)' <=> Created(i)) /\ (Live(i)' => Live(i))
  BY <1>1, <1>2 DEF Created, Live
<1>4. Keeps
  BY <1>2, <1>3 DEF Keeps, Live
<1>5. TypeOK'
  BY <1>1, <1>2, <1>3 DEF CoreInv, TypeOK
<1>6. FunctionsOK' /\ \A r \in Requests : CallOK(r)'
  BY <1>1, <1>3 DEF CoreInv, FunctionsOK, CallOK
<1> QED
  BY <1>4, <1>5, <1>6 DEF CoreInv

LEMMA TickCore ==
    ASSUME CoreInv, Tick
    PROVE  CoreInv' /\ Keeps
<1>1. UNCHANGED <<rows, call, cleanup>> /\ clock' \in 0 .. MaxClock
  BY UpkeepAssumptions DEF Tick, CoreInv, TypeOK
<1>2. TypeOK' /\ Keeps
  BY <1>1, SameRows DEF CoreInv, TypeOK
<1>3. FunctionsOK' /\ \A r \in Requests : CallOK(r)'
  BY <1>1, SameRows DEF CoreInv, FunctionsOK, CallOK, rows
<1> QED
  BY <1>2, <1>3 DEF CoreInv

LEMMA CoreStep == CoreInv /\ [Next]_vars => CoreInv' /\ Keeps
<1> SUFFICES ASSUME CoreInv, [Next]_vars PROVE CoreInv' /\ Keeps
  OBVIOUS
<1>1. ASSUME NEW r \in Requests, RequestStep(r)
      PROVE  CoreInv' /\ Keeps
  <2>1. ASSUME FindDeleted(r)
        PROVE  CoreInv' /\ Keeps
    <3>1. End(r, "error", call[r].id) /\ UNCHANGED rows /\ UNCHANGED <<clock, cleanup>>
      BY <2>1 DEF FindDeleted
    <3> QED
      BY <3>1, OnlyEnds
  <2> QED
    BY <1>1, <2>1, LookupCore, InsertCore, LoadCore, SetColumnCore, ArchiveCore, WriteStatusCore, LabelCore
    DEF RequestStep
<1>2. CASE UNCHANGED vars
  <2>1. UNCHANGED rows /\ UNCHANGED <<call, clock, cleanup>>
    BY <1>2 DEF vars
  <2>2. TypeOK' /\ Keeps
    BY <2>1, SameRows DEF CoreInv, TypeOK
  <2>3. FunctionsOK' /\ \A r \in Requests : CallOK(r)'
    BY <2>1, SameRows DEF CoreInv, FunctionsOK, CallOK, rows
  <2> QED
    BY <2>2, <2>3 DEF CoreInv
<1> QED
  BY <1>1, <1>2, CleanupCore, TickCore DEF Next

(* Rows, events and requests keep their types; what hangs on an action     *)
(* exists only for an action that was created (all of OutboundUpkeep).     *)
THEOREM UpkeepIsTyped == Spec => []TypeOK
<1>1. CoreInv => TypeOK
  BY DEF CoreInv
<1> QED
  BY <1>1, InitCore, CoreStep, PTL DEF Spec

-----------------------------------------------------------------------------
(* The second step of a request about an action that exists.               *)
Finish(r) ==
    \/ SetColumn(r) \/ Archive(r) \/ Unarchive(r) \/ WriteStatus(r)
    \/ FindDeleted(r) \/ AddLabel(r) \/ RemoveLabel(r) \/ Annotate(r)

LEMMA FinishStep ==
    ASSUME CoreInv, NEW r \in Requests, Finish(r)
    PROVE  /\ call[r].phase = "loaded" /\ call[r].id \in Ids /\ Created(call[r].id)
           /\ call[r].op # "create"
           /\ call'[r].phase = "ended" /\ call'[r].op = call[r].op
           /\ \A s \in Requests \ {r} : call'[s] = call[s]
           /\ \A i \in Ids \ {call[r].id} : row'[i] = row[i] /\ audit'[i] = audit[i]
           /\ UNCHANGED adders
<1>1. call[r].phase = "loaded"
  BY DEF Finish, SetColumn, Archive, Unarchive, WriteStatus, FindDeleted, AddLabel, RemoveLabel,
         Annotate, Loaded
<1>2. call[r].id \in Ids /\ Created(call[r].id) /\ call[r].op # "create"
  BY <1>1 DEF CoreInv, CallOK
<1>3. PICK result : End(r, result, call[r].id)
  BY DEF Finish, SetColumn, Archive, Unarchive, WriteStatus, FindDeleted, AddLabel, RemoveLabel,
         Annotate, Update
<1>4. /\ call'[r].phase = "ended" /\ call'[r].op = call[r].op
      /\ \A s \in Requests \ {r} : call'[s] = call[s]
  BY <1>3, EndStep DEF CoreInv, FunctionsOK
<1>5. UNCHANGED adders
  BY DEF Finish, SetColumn, Archive, Unarchive, WriteStatus, FindDeleted, AddLabel, RemoveLabel,
         Annotate, Update, ghost
<1>6. \/ UNCHANGED <<row, audit>>
      \/ \E changed, events : /\ row' = [row EXCEPT ![call[r].id] = changed]
                              /\ audit' = [audit EXCEPT ![call[r].id] = @ \o events]
  BY DEF Finish, SetColumn, Archive, Unarchive, WriteStatus, FindDeleted, AddLabel, RemoveLabel,
         Annotate, Update, rows
<1>7. \A i \in Ids \ {call[r].id} : row'[i] = row[i] /\ audit'[i] = audit[i]
  BY <1>6 DEF CoreInv, TypeOK, FunctionsOK
<1> QED
  BY <1>1, <1>2, <1>4, <1>5, <1>7

(* Only an insertion brings a row.                                         *)
LEMMA NoNewRow ==
    ASSUME CoreInv, Keeps, \A i \in Ids : Created(i)' => Created(i), CoreInv'
    PROVE  \A i \in Ids : Live(i)' => /\ Live(i)
                                      /\ row'[i].key = row[i].key
                                      /\ row'[i].content = row[i].content
                                      /\ row'[i].approval = row[i].approval
BY DEF CoreInv, TypeOK, Keeps

LEMMA KeysKept ==
    ASSUME KeyInv, Keeps, \A i \in Ids : Created(i)' => Created(i), CoreInv'
    PROVE  KeysAreUnique'
BY NoNewRow DEF KeyInv, KeysAreUnique

LEMMA AnswerKept ==
    ASSUME KeyInv, Keeps, NEW s \in Requests, call'[s] = call[s]
    PROVE  AnswerOK(s)'
<1> SUFFICES ASSUME Answered(s)'
    PROVE  /\ call[s].id \in Ids /\ Created(call[s].id)'
           /\ Live(call[s].id)' => /\ row'[call[s].id].key = call[s].arg.key
                                   /\ Matches(call[s].id, call[s].arg.content, call[s].arg.approval)'
  BY DEF AnswerOK, Matches
<1>1. Answered(s)
  BY DEF Answered
<1>2. /\ call[s].id \in Ids /\ Created(call[s].id)
      /\ Live(call[s].id) => /\ row[call[s].id].key = call[s].arg.key
                             /\ Matches(call[s].id, call[s].arg.content, call[s].arg.approval)
  BY <1>1 DEF KeyInv, AnswerOK
<1> QED
  BY <1>2 DEF Keeps, Matches

LEMMA InitKey == Init => KeyInv
<1> SUFFICES ASSUME Init PROVE KeyInv
  OBVIOUS
<1>1. KeysAreUnique
  BY DEF Init, KeysAreUnique, Live
<1>2. \A r \in Requests : AnswerOK(r)
  BY DEF Init, AnswerOK, Answered, Idle
<1> QED
  BY <1>1, <1>2, InitCore DEF KeyInv

LEMMA LookupKey ==
    ASSUME KeyInv, NEW r \in Requests, NEW k \in Keys, NEW c \in Contents, NEW approval \in BOOLEAN,
           NEW expires \in ExpiryTimes \cup {None}, Lookup(r, k, c, approval, expires)
    PROVE  KeyInv'
<1>1. CoreInv' /\ Keeps
  BY LookupCore DEF KeyInv
<1>2. UNCHANGED <<row, audit>> /\ \A s \in Requests \ {r} : call'[s] = call[s]
  BY DEF Lookup, rows, KeyInv, CoreInv, FunctionsOK
<1>3. KeysAreUnique'
  BY <1>1, <1>2, KeysKept DEF Created
<1>4. AnswerOK(r)'
  <2>1. CASE WithKey(k) = {}
    BY <2>1 DEF Lookup, AnswerOK, Answered, KeyInv, CoreInv, FunctionsOK
  <2>2. CASE WithKey(k) # {}
    <3>1. PICK i : i = CHOOSE j \in WithKey(k) : TRUE
      OBVIOUS
    <3>2. i \in Ids /\ Live(i) /\ row[i].key = k
      BY <2>2, <3>1 DEF WithKey
    <3>3. /\ call'[r].phase = "ended" /\ call'[r].op = "create" /\ call'[r].id = i
          /\ call'[r].arg = [key |-> k, content |-> c, approval |-> approval, expires |-> expires]
          /\ call'[r].result = IF Matches(i, c, approval) THEN "existing" ELSE "conflict"
      BY <2>2, <3>1 DEF Lookup, KeyInv, CoreInv, FunctionsOK
    <3>4. Answered(r)' => Matches(i, c, approval)
      BY <3>3 DEF Answered
    <3>5. Created(i)
      BY <3>2 DEF KeyInv, CoreInv, TypeOK
    <3> QED
      BY <1>2, <3>2, <3>3, <3>4, <3>5 DEF AnswerOK, Created, Matches
  <2> QED
    BY <2>1, <2>2
<1>5. \A s \in Requests : AnswerOK(s)'
  BY <1>1, <1>2, <1>4, AnswerKept
<1> QED
  BY <1>1, <1>3, <1>5 DEF KeyInv

LEMMA InsertKey ==
    ASSUME KeyInv, NEW r \in Requests, Insert(r)
    PROVE  KeyInv'
<1> DEFINE asked == call[r].arg
<1>1. CoreInv' /\ Keeps
  BY InsertCore DEF KeyInv
<1>2. asked \in Asked /\ call[r].op = "create"
  BY DEF Insert, KeyInv, CoreInv, CallOK
<1>3. ASSUME NEW i \in Ids, ~Created(i), KeyIsFree(asked.key),
             row' = [row EXCEPT ![i] = Fresh(asked.key, asked.content, asked.approval, asked.expires)],
             audit' = [audit EXCEPT ![i] = <<"created">>],
             End(r, "created", i)
      PROVE  KeyInv'
  <2>1. /\ \A j \in Ids \ {i} : row'[j] = row[j]
        /\ row'[i] = Fresh(asked.key, asked.content, asked.approval, asked.expires)
        /\ audit'[i] = <<"created">>
    BY <1>3 DEF KeyInv, CoreInv, TypeOK, FunctionsOK
  <2>2. row'[i].key = asked.key /\ row'[i].content = asked.content /\ row'[i].approval = asked.approval
    BY <2>1 DEF Fresh
  <2>3. \A j \in Ids : Live(j) => row[j].key # asked.key
    BY <1>3 DEF KeyIsFree, WithKey
  <2>4. KeysAreUnique'
    <3> SUFFICES ASSUME NEW j \in Ids, NEW n \in Ids, Live(j)', Live(n)', row'[j].key = row'[n].key
                 PROVE  j = n
      BY DEF KeysAreUnique
    <3>1. CASE j # i /\ n # i
      BY <2>1, <3>1 DEF KeyInv, KeysAreUnique, Live
    <3>2. CASE j = i /\ n # i
      BY <2>1, <2>2, <2>3, <3>2 DEF Live
    <3>3. CASE j # i /\ n = i
      BY <2>1, <2>2, <2>3, <3>3 DEF Live
    <3> QED
      BY <3>1, <3>2, <3>3
  <2>5. /\ \A s \in Requests \ {r} : call'[s] = call[s]
        /\ call'[r].id = i /\ call'[r].arg = asked
    BY <1>3, EndStep DEF KeyInv, CoreInv, FunctionsOK
  <2>6. AnswerOK(r)'
    <3>1. audit'[i] # << >>
      BY <2>1
    <3> HIDE DEF asked
    <3> QED
      BY <2>2, <2>5, <3>1 DEF AnswerOK, Created, Matches
  <2>7. \A s \in Requests : AnswerOK(s)'
    BY <1>1, <2>5, <2>6, AnswerKept
  <2> QED
    BY <1>1, <2>4, <2>7 DEF KeyInv
<1>4. ASSUME End(r, "error", None), UNCHANGED <<row, audit>>
      PROVE  KeyInv'
  <2>1. /\ \A s \in Requests \ {r} : call'[s] = call[s]
        /\ call'[r].result = "error"
    BY <1>4, EndStep DEF KeyInv, CoreInv, FunctionsOK
  <2>2. AnswerOK(r)'
    BY <2>1 DEF AnswerOK, Answered
  <2>3. KeysAreUnique'
    BY <1>1, <1>4, KeysKept DEF Created
  <2>4. \A s \in Requests : AnswerOK(s)'
    BY <1>1, <2>1, <2>2, AnswerKept
  <2> QED
    BY <1>1, <2>3, <2>4 DEF KeyInv
<1> QED
  BY <1>3, <1>4 DEF Insert

LEMMA KeyStep == KeyInv /\ [Next]_vars => KeyInv'
<1> SUFFICES ASSUME KeyInv, [Next]_vars PROVE KeyInv'
  OBVIOUS
<1>1. CoreInv' /\ Keeps
  BY CoreStep DEF KeyInv
<1>2. ASSUME NEW r \in Requests, NEW i \in Ids, NEW input \in Inputs, Load(r, i, input)
      PROVE  KeyInv'
  <2>1. /\ UNCHANGED <<row, audit>> /\ call'[r].phase = "loaded"
        /\ \A s \in Requests \ {r} : call'[s] = call[s]
    BY <1>2 DEF Load, rows, KeyInv, CoreInv, FunctionsOK
  <2>2. KeysAreUnique'
    BY <1>1, <2>1, KeysKept DEF Created
  <2>3. AnswerOK(r)'
    BY <2>1 DEF AnswerOK, Answered
  <2> QED
    BY <1>1, <2>1, <2>2, <2>3, AnswerKept DEF KeyInv
<1>3. ASSUME NEW r \in Requests, Finish(r)
      PROVE  KeyInv'
  <2>1. /\ call[r].op # "create" /\ call'[r].op = call[r].op /\ Created(call[r].id)
        /\ \A s \in Requests \ {r} : call'[s] = call[s]
        /\ \A i \in Ids \ {call[r].id} : audit'[i] = audit[i]
    BY <1>3, FinishStep DEF KeyInv
  <2>2. KeysAreUnique'
    BY <1>1, <2>1, KeysKept DEF Created
  <2>3. AnswerOK(r)'
    BY <2>1 DEF AnswerOK, Answered
  <2> QED
    BY <1>1, <2>1, <2>2, <2>3, AnswerKept DEF KeyInv
<1>4. ASSUME UNCHANGED <<audit, call>>
      PROVE  KeyInv'
  <2>1. KeysAreUnique'
    BY <1>1, <1>4, KeysKept DEF Created
  <2> QED
    BY <1>1, <1>4, <2>1, AnswerKept DEF KeyInv
<1>5. (Cleanup \/ Tick \/ UNCHANGED vars) => UNCHANGED <<audit, call>>
  BY DEF Cleanup, Tick, vars, rows
<1> QED
  BY <1>2, <1>3, <1>4, <1>5, LookupKey, InsertKey DEF Next, RequestStep, Finish

(* Callers with one key are given one action, which says what each asked   *)
(* for, unless the cleanup deleted one (create_action,                     *)
(* uq_outbound_integration_action_idempotency).                            *)
THEOREM KeysNameOneAction == Spec => []OneActionPerKey
<1>1. KeyInv => OneActionPerKey
  <2> SUFFICES ASSUME KeyInv, NEW r \in Requests, NEW s \in Requests, Answered(r), Answered(s),
                      call[r].arg.key = call[s].arg.key, ~Deleted(call[r].id), ~Deleted(call[s].id)
               PROVE  /\ call[r].id = call[s].id
                      /\ call[r].arg.content = call[s].arg.content
                      /\ call[r].arg.approval = call[s].arg.approval
    BY DEF OneActionPerKey
  <2>1. AnswerOK(r) /\ AnswerOK(s) /\ KeysAreUnique
    BY DEF KeyInv
  <2>2. Live(call[r].id) /\ Live(call[s].id)
    BY <2>1 DEF AnswerOK, Deleted
  <2> QED
    BY <2>1, <2>2 DEF AnswerOK, KeysAreUnique, Matches
<1> QED
  BY <1>1, InitKey, InitCore, KeyStep, PTL DEF Spec

-----------------------------------------------------------------------------
(* What one more event makes of a history.                                 *)
LEMMA OneMoreEvent ==
    ASSUME NEW h \in Seq(AuditEvents), NEW e \in AuditEvents
    PROVE  LastArchivedIn(h \o <<e>>) <=> e = "archived" \/ (e # "unarchived" /\ LastArchivedIn(h))
<1> DEFINE g == h \o <<e>>
<1>1. <<e>> \in Seq(AuditEvents)
  OBVIOUS
<1>2. /\ Len(g) = Len(h) + 1
      /\ \A n \in 1 .. Len(h) : g[n] = h[n]
      /\ g[Len(h) + 1] = e
      /\ g \in Seq(AuditEvents)
  OBVIOUS
<1>3. DOMAIN g = 1 .. Len(h) + 1 /\ DOMAIN h = 1 .. Len(h) /\ Len(h) \in Nat
  BY <1>2, LenProperties
<1> HIDE DEF g
<1>4. CASE e = "archived"
  <2>1. Len(h) + 1 \in DOMAIN g /\ \A m \in DOMAIN g : ~(m > Len(h) + 1)
    BY <1>3
  <2> QED
    BY <1>2, <1>4, <2>1 DEF LastArchivedIn, g
<1>5. CASE e = "unarchived"
  <2>1. \A n \in DOMAIN g : n = Len(h) + 1 \/ Len(h) + 1 > n
    BY <1>3
  <2>2. Len(h) + 1 \in DOMAIN g
    BY <1>3
  <2>3. ~LastArchivedIn(g)
    BY <1>2, <1>5, <2>1, <2>2 DEF LastArchivedIn
  <2> QED
    BY <1>5, <2>3 DEF g
<1>6. CASE e # "archived" /\ e # "unarchived"
  <2>1. ASSUME NEW n \in DOMAIN g, g[n] = "archived", \A m \in DOMAIN g : m > n => g[m] # "unarchived"
        PROVE  LastArchivedIn(h)
    <3>1. n \in DOMAIN h
      BY <1>2, <1>3, <1>6, <2>1
    <3>2. h[n] = "archived" /\ \A m \in DOMAIN h : m > n => h[m] # "unarchived"
      BY <1>2, <1>3, <2>1, <3>1
    <3> QED
      BY <3>1, <3>2 DEF LastArchivedIn
  <2>2. ASSUME NEW n \in DOMAIN h, h[n] = "archived", \A m \in DOMAIN h : m > n => h[m] # "unarchived"
        PROVE  LastArchivedIn(g)
    <3>1. n \in DOMAIN g /\ g[n] = "archived"
      BY <1>2, <1>3, <2>2
    <3>2. \A m \in DOMAIN g : m > n => g[m] # "unarchived"
      BY <1>2, <1>3, <1>6, <2>2
    <3> QED
      BY <3>1, <3>2 DEF LastArchivedIn
  <2>3. LastArchivedIn(g) <=> LastArchivedIn(h)
    BY <2>1, <2>2 DEF LastArchivedIn
  <2> QED
    BY <1>6, <2>3 DEF g
<1> QED
  BY <1>4, <1>5, <1>6

(* The flag of one action agrees with its history.                         *)
FlagAgrees(i) == (Live(i) /\ row[i].archived) <=> LastArchivedIn(audit[i])

FlagInv == CoreInv /\ ArchiveFollowsHistory

LEMMA FlagKept ==
    ASSUME FlagInv, NEW i \in Ids, row'[i] = row[i], audit'[i] = audit[i]
    PROVE  FlagAgrees(i)'
BY DEF FlagInv, ArchiveFollowsHistory, FlagAgrees, Live

(* What a commit to one row does to its flag.                              *)
LEMMA UpdateFlag ==
    ASSUME FlagInv, NEW r \in Requests, call[r].phase = "loaded",
           NEW changed \in Columns, NEW e \in AuditEvents, Update(r, changed, <<e>>),
           changed.archived <=> e = "archived" \/ (e # "unarchived" /\ row[call[r].id].archived),
           CoreInv'
    PROVE  FlagInv'
<1>0. PICK i \in Ids : i = call[r].id
  BY DEF FlagInv, CoreInv, CallOK
<1>1. Live(i)
  BY <1>0 DEF Update
<1>2. row' = [row EXCEPT ![i] = changed] /\ audit' = [audit EXCEPT ![i] = @ \o <<e>>]
  BY <1>0 DEF Update
<1>3. /\ row'[i] = changed /\ audit'[i] = audit[i] \o <<e>>
      /\ \A j \in Ids \ {i} : row'[j] = row[j] /\ audit'[j] = audit[j]
  BY <1>0, <1>2 DEF FlagInv, CoreInv, TypeOK, FunctionsOK
<1>4. audit[i] \in Seq(AuditEvents)
  BY <1>1 DEF FlagInv, CoreInv, TypeOK
<1>5. LastArchivedIn(audit'[i]) <=> e = "archived" \/ (e # "unarchived" /\ LastArchivedIn(audit[i]))
  BY <1>3, <1>4, OneMoreEvent
<1>6. row[i].archived <=> LastArchivedIn(audit[i])
  BY <1>1 DEF FlagInv, ArchiveFollowsHistory
<1>7. Live(i)' /\ (row'[i].archived <=> changed.archived)
  BY <1>3, ColumnsAreRows DEF Live
<1>8. changed.archived <=> e = "archived" \/ (e # "unarchived" /\ row[i].archived)
  BY <1>0
<1>9. FlagAgrees(i)'
  BY <1>5, <1>6, <1>7, <1>8 DEF FlagAgrees
<1>10. \A j \in Ids : FlagAgrees(j)'
  BY <1>3, <1>9, FlagKept
<1> QED
  BY <1>10 DEF FlagInv, ArchiveFollowsHistory, FlagAgrees

LEMMA InitFlag == Init => FlagInv
<1> SUFFICES ASSUME Init PROVE FlagInv
  OBVIOUS
<1>1. ArchiveFollowsHistory
  BY DEF Init, ArchiveFollowsHistory, Live, LastArchivedIn
<1> QED
  BY <1>1, InitCore DEF FlagInv

LEMMA InsertFlag ==
    ASSUME FlagInv, NEW r \in Requests, Insert(r)
    PROVE  FlagInv'
<1>1. CoreInv'
  BY InsertCore DEF FlagInv
<1>2. ASSUME NEW i \in Ids, NEW k, NEW c, NEW approval, NEW expires,
             row' = [row EXCEPT ![i] = Fresh(k, c, approval, expires)],
             audit' = [audit EXCEPT ![i] = <<"created">>]
      PROVE  FlagInv'
  <2>1. /\ row'[i] = Fresh(k, c, approval, expires) /\ audit'[i] = <<"created">>
        /\ \A j \in Ids \ {i} : row'[j] = row[j] /\ audit'[j] = audit[j]
    BY <1>2 DEF FlagInv, CoreInv, TypeOK, FunctionsOK
  <2>2. ~LastArchivedIn(<<"created">>)
    BY DEF LastArchivedIn
  <2>3. FlagAgrees(i)'
    <3>1. row'[i].archived = FALSE
      BY <2>1 DEF Fresh
    <3> QED
      BY <2>1, <2>2, <3>1 DEF FlagAgrees
  <2>4. \A j \in Ids : FlagAgrees(j)'
    BY <2>1, <2>3, FlagKept
  <2> QED
    BY <1>1, <2>4 DEF FlagInv, ArchiveFollowsHistory, FlagAgrees
<1>3. CASE UNCHANGED <<row, audit>>
  BY <1>1, <1>3, FlagKept DEF FlagInv, ArchiveFollowsHistory, FlagAgrees
<1> QED
  BY <1>2, <1>3 DEF Insert

LEMMA FinishFlag ==
    ASSUME FlagInv, NEW r \in Requests, Finish(r), CoreInv'
    PROVE  FlagInv'
<1>1. PICK i \in Ids : i = call[r].id /\ call[r].phase = "loaded"
  BY FinishStep DEF FlagInv
<1>2. CASE SetColumn(r)
  <2>1. PICK changed : Update(r, changed, << >>) /\ changed.archived = row[i].archived
    <3>1. ASSUME Live(i)
          PROVE  \A v : /\ [row[i] EXCEPT !.priority = v].archived = row[i].archived
                        /\ [row[i] EXCEPT !.owner = v].archived = row[i].archived
      BY <1>1, <3>1, LoadedRow DEF FlagInv, Columns
    <3>2. Live(i)
      BY <1>1, <1>2 DEF SetColumn, Update
    <3> QED
      BY <1>1, <1>2, <3>1, <3>2 DEF SetColumn
  <2>2. /\ row'[i] = changed /\ audit'[i] = audit[i] \o << >> /\ Live(i)
        /\ \A j \in Ids \ {i} : row'[j] = row[j] /\ audit'[j] = audit[j]
    BY <1>1, <2>1 DEF Update, FlagInv, CoreInv, TypeOK, FunctionsOK
  <2>3. audit'[i] = audit[i]
    <3>1. audit[i] \in Seq(AuditEvents)
      BY <1>1 DEF FlagInv, CoreInv, TypeOK
    <3> QED
      BY <2>2, <3>1, ConcatEmptySeq
  <2>4. Live(i)'
    <3>1. row[i] \in Columns
      BY <1>1, <2>2 DEF FlagInv, CoreInv, TypeOK, Live
    <3>2. CASE Loaded(r, "priority") /\ row'[i] = [row[i] EXCEPT !.priority = call[r].arg]
      <4>1. call[r].arg \in {"normal", "high"}
        BY <1>1, <2>2, <3>2, LoadedRow DEF Loaded, Inputs, FlagInv
      <4> QED
        BY <3>1, <3>2, <4>1, ChangedRow, ColumnsAreRows DEF Live
    <3>3. CASE Loaded(r, "owner") /\ row'[i] = [row[i] EXCEPT !.owner = call[r].arg]
      <4>1. call[r].arg \in Owners \cup {None}
        BY <1>1, <2>2, <3>3, LoadedRow DEF Loaded, Inputs, FlagInv
      <4> QED
        BY <3>1, <3>3, <4>1, ChangedRow, ColumnsAreRows DEF Live
    <3> QED
      BY <1>1, <1>2, <3>2, <3>3 DEF SetColumn, Update, FlagInv, CoreInv, TypeOK
  <2>5. FlagAgrees(i)'
    BY <1>1, <2>1, <2>2, <2>3, <2>4 DEF FlagInv, ArchiveFollowsHistory, FlagAgrees
  <2> QED
    BY <2>2, <2>5, FlagKept DEF FlagInv, ArchiveFollowsHistory, FlagAgrees
<1>3. CASE Archive(r) \/ Unarchive(r)
  <2>1. PICK a \in BOOLEAN, e \in {"archived", "unarchived"} :
            Update(r, [row[i] EXCEPT !.archived = a], <<e>>) /\ (a <=> e = "archived")
    BY <1>1, <1>3 DEF Archive, Unarchive
  <2>2. row[i] \in Columns
    BY <1>1, <2>1, LoadedRow DEF Update, FlagInv
  <2>3. PICK changed \in Columns : changed = [row[i] EXCEPT !.archived = a]
    BY <2>2, ChangedRow
  <2>4. changed.archived = a /\ e \in AuditEvents
    BY <2>2, <2>3 DEF Columns, AuditEvents, ArchivingEvents
  <2> QED
    BY <1>1, <2>1, <2>3, <2>4, UpdateFlag
<1>4. CASE WriteStatus(r)
  <2>1. row[i] \in Columns /\ call[r].arg \in TransitionEvents
    BY <1>1, <1>4, LoadedRow DEF WriteStatus, Loaded, Update, Inputs, FlagInv
  <2>2. PICK changed \in Columns :
            changed = IF call[r].arg = call[r].status THEN row[i] ELSE [row[i] EXCEPT !.status = call[r].arg]
    BY <2>1, ChangedRow DEF TransitionEvents
  <2>3. changed.archived = row[i].archived
    BY <2>1, <2>2 DEF Columns
  <2>4. PICK e \in AuditEvents : e = call[r].arg /\ e \notin {"archived", "unarchived"}
    BY <2>1 DEF TransitionEvents, Statuses, AuditEvents
  <2>5. Update(r, changed, <<e>>)
    BY <1>1, <1>4, <2>2, <2>4 DEF WriteStatus
  <2> QED
    BY <1>1, <2>2, <2>3, <2>4, <2>5, UpdateFlag
<1>5. CASE FindDeleted(r) \/ AddLabel(r) \/ RemoveLabel(r) \/ Annotate(r)
  <2>1. UNCHANGED <<row, audit>>
    BY <1>5 DEF FindDeleted, AddLabel, RemoveLabel, Annotate, rows
  <2> QED
    BY <2>1, FlagKept DEF FlagInv, ArchiveFollowsHistory, FlagAgrees
<1> QED
  BY <1>2, <1>3, <1>4, <1>5 DEF Finish

LEMMA FlagStep == FlagInv /\ [Next]_vars => FlagInv'
<1> SUFFICES ASSUME FlagInv, [Next]_vars PROVE FlagInv'
  OBVIOUS
<1>1. CoreInv'
  BY CoreStep DEF FlagInv
<1>2. CASE UNCHANGED <<row, audit>>
  BY <1>1, <1>2, FlagKept DEF FlagInv, ArchiveFollowsHistory, FlagAgrees
<1>3. CASE Cleanup
  <2>1. /\ UNCHANGED audit
        /\ \A i \in Ids : row'[i] = row[i] \/ (row'[i] = None /\ Live(i) /\ ~row[i].archived)
    BY <1>3 DEF Cleanup, Lapsed, FlagInv, CoreInv, TypeOK
  <2>2. \A i \in Ids : FlagAgrees(i)'
    BY <2>1, FlagKept DEF FlagInv, ArchiveFollowsHistory, FlagAgrees, Live
  <2> QED
    BY <1>1, <2>2 DEF FlagInv, ArchiveFollowsHistory, FlagAgrees
<1>4. ASSUME Tick \/ UNCHANGED vars
               \/ (\E r \in Requests :
                     \/ \E k \in Keys, c \in Contents, approval \in BOOLEAN,
                           expires \in ExpiryTimes \cup {None} : Lookup(r, k, c, approval, expires)
                     \/ \E i \in Ids, input \in Inputs : Load(r, i, input))
      PROVE  UNCHANGED <<row, audit>>
  BY <1>4 DEF Tick, vars, Lookup, Load, rows
<1> QED
  BY <1>1, <1>2, <1>3, <1>4, InsertFlag, FinishFlag DEF Next, RequestStep, Finish

(* An action is there and archived exactly if its history ends so          *)
(* (OutboundActionArchivingService, cleanup_expired_for_workspace).        *)
THEOREM FlagFollowsHistory == Spec => []ArchiveFollowsHistory
<1>1. FlagInv => ArchiveFollowsHistory
  BY DEF FlagInv
<1> QED
  BY <1>1, InitFlag, FlagStep, PTL DEF Spec

-----------------------------------------------------------------------------
(* What one step may do to the status and the flag of an action: keep the  *)
(* status and archive what is closed; write over a status that was open,   *)
(* or that the request had not seen; store a new action.                   *)
Moves(i) ==
    /\ Live(i)' =>
          \/ /\ Live(i) /\ row'[i].status = row[i].status
             /\ row'[i].archived => row[i].archived \/ IsTerminal(row[i].status) \/ i \in stale
          \/ /\ Live(i) /\ row'[i].archived = row[i].archived
             /\ i \in stale' \/ ~IsTerminal(row[i].status)
          \/ ~Created(i) /\ ~row'[i].archived
    /\ Live(i) /\ ~Live(i)' => row[i].status # "delivered"

LEMMA Stays ==
    ASSUME NEW i \in Ids, row'[i] = row[i]
    PROVE  Moves(i)
BY DEF Moves, Live

LEMMA InsertMoves ==
    ASSUME OpenInv, NEW r \in Requests, Insert(r)
    PROVE  \A i \in Ids : Moves(i)
<1>1. ASSUME NEW i \in Ids, ~Created(i), NEW k, NEW c, NEW approval, NEW expires,
             row' = [row EXCEPT ![i] = Fresh(k, c, approval, expires)]
      PROVE  \A j \in Ids : Moves(j)
  <2>1. /\ row'[i] = Fresh(k, c, approval, expires)
        /\ \A j \in Ids \ {i} : row'[j] = row[j]
    BY <1>1 DEF OpenInv, CoreInv, TypeOK
  <2>2. Moves(i)
    <3>1. ~row'[i].archived
      BY <2>1 DEF Fresh
    <3>2. ~Live(i)
      BY <1>1 DEF OpenInv, CoreInv, TypeOK
    <3> QED
      BY <1>1, <3>1, <3>2 DEF Moves
  <2> QED
    BY <2>1, <2>2, Stays
<1> QED
  BY <1>1, Stays DEF Insert

LEMMA FinishMoves ==
    ASSUME OpenInv, NEW r \in Requests, Finish(r)
    PROVE  \A i \in Ids : Moves(i)
<1>1. PICK i \in Ids : i = call[r].id
  BY FinishStep DEF OpenInv
<1>2. call[r].phase = "loaded" /\ \A j \in Ids \ {i} : row'[j] = row[j]
  BY <1>1, FinishStep DEF OpenInv
<1>3. ASSUME NEW changed, changed \in Columns, Live(i), row' = [row EXCEPT ![i] = changed],
             \/ /\ changed.status = row[i].status
                /\ changed.archived => row[i].archived \/ IsTerminal(row[i].status) \/ i \in stale
             \/ /\ changed.archived = row[i].archived
                /\ i \in stale' \/ ~IsTerminal(row[i].status)
      PROVE  \A j \in Ids : Moves(j)
  <2>1. row'[i] = changed /\ Live(i)'
    BY <1>3, ColumnsAreRows DEF OpenInv, CoreInv, TypeOK, Live
  <2>2. Moves(i)
    BY <1>3, <2>1 DEF Moves
  <2> QED
    BY <1>2, <2>2, Stays
<1>4. CASE SetColumn(r)
  <2>1. row[i] \in Columns /\ Live(i)
    BY <1>1, <1>2, <1>4, LoadedRow DEF SetColumn, Update, OpenInv
  <2>2. CASE Loaded(r, "priority")
    <3>1. call[r].arg \in {"normal", "high"}
      BY <1>1, <1>2, <2>1, <2>2, LoadedRow DEF Loaded, Inputs, OpenInv
    <3>2. PICK changed \in Columns : changed = [row[i] EXCEPT !.priority = call[r].arg]
      BY <2>1, <3>1, ChangedRow
    <3>3. changed.status = row[i].status /\ changed.archived = row[i].archived
      BY <2>1, <3>2 DEF Columns
    <3>4. row' = [row EXCEPT ![i] = changed]
      BY <1>1, <1>4, <2>2, <3>2 DEF SetColumn, Update, Loaded
    <3> QED
      BY <1>3, <2>1, <3>3, <3>4
  <2>3. CASE Loaded(r, "owner")
    <3>1. call[r].arg \in Owners \cup {None}
      BY <1>1, <1>2, <2>1, <2>3, LoadedRow DEF Loaded, Inputs, OpenInv
    <3>2. PICK changed \in Columns : changed = [row[i] EXCEPT !.owner = call[r].arg]
      BY <2>1, <3>1, ChangedRow
    <3>3. changed.status = row[i].status /\ changed.archived = row[i].archived
      BY <2>1, <3>2 DEF Columns
    <3>4. row' = [row EXCEPT ![i] = changed]
      BY <1>1, <1>4, <2>3, <3>2 DEF SetColumn, Update, Loaded
    <3> QED
      BY <1>3, <2>1, <3>3, <3>4
  <2> QED
    BY <1>4, <2>2, <2>3 DEF SetColumn
<1>5. CASE Archive(r) \/ Unarchive(r)
  <2>1. row[i] \in Columns /\ Live(i)
    BY <1>1, <1>2, <1>5, LoadedRow DEF Archive, Unarchive, Update, OpenInv
  <2>2. PICK a \in BOOLEAN : row' = [row EXCEPT ![i] = [row[i] EXCEPT !.archived = a]]
                             /\ (a => Loaded(r, "archive"))
    BY <1>1, <1>5 DEF Archive, Unarchive, Update
  <2>3. PICK changed \in Columns : changed = [row[i] EXCEPT !.archived = a]
    BY <2>1, ChangedRow
  <2>4. changed.archived = a /\ changed.status = row[i].status
    BY <2>1, <2>3 DEF Columns
  <2>5. a => IsTerminal(row[i].status) \/ i \in stale
    BY <1>1, <2>1, <2>2 DEF OpenInv, ReadStillTrue, Loaded
  <2> QED
    BY <1>3, <2>1, <2>2, <2>3, <2>4, <2>5
<1>6. CASE WriteStatus(r)
  <2>1. row[i] \in Columns /\ Live(i) /\ call[r].arg \in Statuses
    BY <1>1, <1>2, <1>6, LoadedRow DEF WriteStatus, Loaded, Update, Inputs, TransitionEvents, OpenInv
  <2>2. PICK changed \in Columns :
            changed = IF call[r].arg = call[r].status THEN row[i] ELSE [row[i] EXCEPT !.status = call[r].arg]
    BY <2>1, ChangedRow
  <2>3. changed.archived = row[i].archived
    BY <2>1, <2>2 DEF Columns
  <2>4. row' = [row EXCEPT ![i] = changed]
    BY <1>1, <1>6, <2>2 DEF WriteStatus, Update
  <2>5. ~IsTerminal(call[r].status)
    BY <1>2, <1>6 DEF WriteStatus, Loaded, OpenInv, ReadStillTrue, CanTransition, IsTerminal
  <2>6. i \in stale' \/ row[i].status = call[r].status
    BY <1>1, <1>6 DEF WriteStatus
  <2> QED
    BY <1>3, <2>1, <2>3, <2>4, <2>5, <2>6
<1>7. CASE FindDeleted(r) \/ AddLabel(r) \/ RemoveLabel(r) \/ Annotate(r)
  <2>1. UNCHANGED row
    BY <1>7 DEF FindDeleted, AddLabel, RemoveLabel, Annotate, rows
  <2> QED
    BY <2>1, Stays
<1> QED
  BY <1>4, <1>5, <1>6, <1>7 DEF Finish

LEMMA AllMoves ==
    ASSUME OpenInv, [Next]_vars
    PROVE  \A i \in Ids : Moves(i)
<1>1. CASE Cleanup
  <2>1. \A i \in Ids : row'[i] = row[i]
                         \/ (row'[i] = None /\ row[i].status \in {"expired", "cancelled"})
    BY <1>1 DEF Cleanup, Lapsed, OpenInv, CoreInv, TypeOK
  <2>2. ASSUME NEW i \in Ids, row'[i] = None, row[i].status \in {"expired", "cancelled"}
        PROVE  Moves(i)
    BY <2>2 DEF Moves, Live
  <2> QED
    BY <2>1, <2>2, Stays
<1>2. ASSUME Tick \/ UNCHANGED vars
               \/ (\E r \in Requests :
                     \/ \E k \in Keys, c \in Contents, approval \in BOOLEAN,
                           expires \in ExpiryTimes \cup {None} : Lookup(r, k, c, approval, expires)
                     \/ \E i \in Ids, input \in Inputs : Load(r, i, input))
      PROVE  UNCHANGED row
  BY <1>2 DEF Tick, vars, Lookup, Load, rows
<1>3. UNCHANGED row => \A i \in Ids : Moves(i)
  BY Stays
<1> QED
  BY <1>1, <1>2, <1>3, InsertMoves, FinishMoves DEF Next, RequestStep, Finish

(* Nothing is forgotten to have been written over.                         *)
LEMMA StaleGrows ==
    ASSUME [Next]_vars
    PROVE  stale \subseteq stale'
BY DEF Next, RequestStep, Lookup, Insert, Load, SetColumn, Archive, Unarchive, WriteStatus, FindDeleted,
       AddLabel, RemoveLabel, Annotate, Cleanup, Tick, vars, ghost

LEMMA ReadKept ==
    ASSUME OpenInv, NEW s \in Requests, call'[s] = call[s], \A i \in Ids : Moves(i),
           stale \subseteq stale'
    PROVE  ReadStillTrue(s)'
<1> SUFFICES ASSUME call[s].phase = "loaded"
    PROVE  /\ call[s].op = "archive" /\ Live(call[s].id)' =>
                  IsTerminal(row'[call[s].id].status) \/ call[s].id \in stale'
           /\ call[s].op = "status" => CanTransition(call[s].status, call[s].arg)
  BY DEF ReadStillTrue, IsTerminal, CanTransition
<1>1. PICK i \in Ids : i = call[s].id /\ Created(i)
  BY DEF OpenInv, CoreInv, CallOK
<1>2. ReadStillTrue(s)
  BY DEF OpenInv
<1>3. ASSUME call[s].op = "archive", Live(i)'
      PROVE  IsTerminal(row'[i].status) \/ i \in stale'
  <2>1. Moves(i)
    OBVIOUS
  <2>2. Live(i) => IsTerminal(row[i].status) \/ i \in stale
    BY <1>1, <1>2, <1>3 DEF ReadStillTrue
  <2> QED
    BY <1>1, <1>3, <2>1, <2>2 DEF Moves
<1> QED
  BY <1>1, <1>2, <1>3 DEF ReadStillTrue, Live

LEMMA InitOpen == Init => OpenInv
<1> SUFFICES ASSUME Init PROVE OpenInv
  OBVIOUS
<1>1. OpenWorkIsListed
  BY DEF Init, OpenWorkIsListed, Live
<1>2. \A r \in Requests : ReadStillTrue(r)
  BY DEF Init, ReadStillTrue, Idle
<1> QED
  BY <1>1, <1>2, InitCore DEF OpenInv

LEMMA OpenStep == OpenInv /\ [Next]_vars => OpenInv'
<1> SUFFICES ASSUME OpenInv, [Next]_vars PROVE OpenInv'
  OBVIOUS
<1>1. CoreInv' /\ (\A i \in Ids : Moves(i)) /\ stale \subseteq stale'
  BY CoreStep, AllMoves, StaleGrows DEF OpenInv
<1>2. OpenWorkIsListed'
  <2> SUFFICES ASSUME NEW i \in Ids, Live(i)', ~IsTerminal(row'[i].status), row'[i].archived
      PROVE  i \in stale'
    BY DEF OpenWorkIsListed, ListedByDefault, IsTerminal
  <2>1. Live(i) /\ ~IsTerminal(row[i].status) /\ row[i].archived => i \in stale
    BY DEF OpenInv, OpenWorkIsListed, ListedByDefault
  <2>2. Moves(i)
    BY <1>1
  <2> QED
    BY <1>1, <2>1, <2>2 DEF Moves
<1>3. ASSUME NEW r \in Requests, call'[r].phase # "loaded",
             \A s \in Requests \ {r} : call'[s] = call[s]
      PROVE  OpenInv'
  <2>1. ReadStillTrue(r)'
    BY <1>3 DEF ReadStillTrue
  <2> QED
    BY <1>1, <1>2, <1>3, <2>1, ReadKept DEF OpenInv
<1>4. ASSUME NEW r \in Requests, NEW k \in Keys, NEW c \in Contents, NEW approval \in BOOLEAN,
             NEW expires \in ExpiryTimes \cup {None}, Lookup(r, k, c, approval, expires)
      PROVE  OpenInv'
  <2>1. call'[r].phase # "loaded" /\ \A s \in Requests \ {r} : call'[s] = call[s]
    <3>1. CASE WithKey(k) = {}
      BY <1>4, <3>1 DEF Lookup, OpenInv, CoreInv, FunctionsOK
    <3>2. CASE WithKey(k) # {}
      BY <1>4, <3>2 DEF Lookup, OpenInv, CoreInv, FunctionsOK
    <3> QED
      BY <3>1, <3>2
  <2> QED
    BY <1>3, <2>1
<1>5. ASSUME NEW r \in Requests, Insert(r)
      PROVE  OpenInv'
  <2>1. PICK result, id : End(r, result, id)
    BY <1>5 DEF Insert
  <2>2. call'[r].phase # "loaded" /\ \A s \in Requests \ {r} : call'[s] = call[s]
    BY <2>1, EndStep DEF OpenInv, CoreInv, FunctionsOK
  <2> QED
    BY <1>3, <2>2
<1>6. ASSUME NEW r \in Requests, NEW i \in Ids, NEW input \in Inputs, Load(r, i, input)
      PROVE  OpenInv'
  <2>1. /\ call'[r].op = input[1] /\ call'[r].arg = input[2] /\ call'[r].id = i
        /\ call'[r].status = row[i].status
        /\ \A s \in Requests \ {r} : call'[s] = call[s]
        /\ ReadAllows(input[1], i, input[2])
        /\ UNCHANGED row
    BY <1>6 DEF Load, rows, OpenInv, CoreInv, FunctionsOK
  <2>2. /\ input[1] = "archive" => IsTerminal(row[i].status)
        /\ input[1] = "status" => CanTransition(row[i].status, input[2])
    BY <2>1 DEF ReadAllows, Archivable
  <2>3. ReadStillTrue(r)'
    BY <2>1, <2>2 DEF ReadStillTrue, IsTerminal, CanTransition
  <2> QED
    BY <1>1, <1>2, <2>1, <2>3, ReadKept DEF OpenInv
<1>7. ASSUME NEW r \in Requests, Finish(r)
      PROVE  OpenInv'
  <2>1. call'[r].phase # "loaded" /\ \A s \in Requests \ {r} : call'[s] = call[s]
    BY <1>7, FinishStep DEF OpenInv
  <2> QED
    BY <1>3, <2>1
<1>8. CASE UNCHANGED call
  BY <1>1, <1>2, <1>8, ReadKept DEF OpenInv
<1>9. (Cleanup \/ Tick \/ UNCHANGED vars) => UNCHANGED call
  BY DEF Cleanup, Tick, vars
<1> QED
  BY <1>4, <1>5, <1>6, <1>7, <1>8, <1>9 DEF Next, RequestStep, Finish

(* Open work is hidden from the default list only where a status was       *)
(* written over another one (archive, list_for_workspace).                 *)
THEOREM OpenWorkStaysListed == Spec => []OpenWorkIsListed
<1>1. OpenInv => OpenWorkIsListed
  BY DEF OpenInv
<1> QED
  BY <1>1, InitOpen, OpenStep, PTL DEF Spec

-----------------------------------------------------------------------------
LEMMA InitSent == Init => SentInv
BY InitOpen DEF Init, SentInv

LEMMA SentStep == SentInv /\ [Next]_vars => SentInv'
<1> SUFFICES ASSUME SentInv, [Next]_vars PROVE SentInv'
  OBVIOUS
<1>1. OpenInv' /\ (\A i \in Ids : Moves(i)) /\ stale \subseteq stale'
  BY OpenStep, AllMoves, StaleGrows DEF SentInv
<1>2. ASSUME NEW i \in sent
      PROVE  i \in stale' \/ (i \in Ids /\ Live(i)' /\ row'[i].status = "delivered")
  <2>1. CASE i \in stale
    BY <1>1, <2>1
  <2>2. CASE i \in Ids /\ Live(i) /\ row[i].status = "delivered"
    <3>1. IsTerminal("delivered")
      BY DEF IsTerminal, AllowedTargets
    <3>2. Moves(i) /\ Created(i)
      BY <1>1, <2>2 DEF SentInv, OpenInv, CoreInv, TypeOK
    <3> QED
      BY <1>1, <2>2, <3>1, <3>2 DEF Moves
  <2> QED
    BY <2>1, <2>2 DEF SentInv
<1>3. ASSUME NEW r \in Requests, WriteStatus(r) \/ FindDeleted(r), NEW i \in sent', i \notin sent
      PROVE  i \in stale' \/ (i \in Ids /\ Live(i)' /\ row'[i].status = "delivered")
  <2>1. CASE FindDeleted(r)
    BY <1>3, <2>1 DEF FindDeleted
  <2>2. CASE WriteStatus(r)
    <3>1. i = call[r].id /\ call[r].arg = "delivered"
      BY <1>3, <2>2 DEF WriteStatus
    <3>2. CanTransition(call[r].status, "delivered")
      BY <2>2, <3>1 DEF WriteStatus, Loaded, SentInv, OpenInv, ReadStillTrue
    <3>3. call[r].status # "delivered"
      BY <3>2 DEF CanTransition, AllowedTargets
    <3>4. i \in Ids /\ row[i] \in Columns
      BY <2>2, <3>1, LoadedRow DEF WriteStatus, Loaded, Update, SentInv, OpenInv
    <3>5. row' = [row EXCEPT ![i] = [row[i] EXCEPT !.status = "delivered"]]
      BY <2>2, <3>1, <3>3 DEF WriteStatus, Update
    <3>6. PICK changed \in Columns : changed = [row[i] EXCEPT !.status = "delivered"]
      BY <3>4, ChangedRow DEF Statuses
    <3>7. row'[i] = changed /\ changed.status = "delivered"
      BY <3>4, <3>5, <3>6 DEF SentInv, OpenInv, CoreInv, TypeOK, Columns
    <3> QED
      BY <3>4, <3>7, ColumnsAreRows DEF Live
  <2> QED
    BY <1>3, <2>1, <2>2
<1>4. sent' \subseteq sent \/ \E r \in Requests : WriteStatus(r) \/ FindDeleted(r)
  BY DEF Next, RequestStep, Lookup, Insert, Load, SetColumn, Archive, Unarchive,
         AddLabel, RemoveLabel, Annotate, Cleanup, Tick, vars, ghost
<1> QED
  BY <1>1, <1>2, <1>3, <1>4 DEF SentInv

(* What a provider took is still there, unless a status was written over   *)
(* (cleanup_expired_for_workspace).                                        *)
THEOREM SentActionsAreKept == Spec => []SentIsKept
<1>1. SentInv => SentIsKept
  BY DEF SentInv, SentIsKept
<1> QED
  BY <1>1, InitSent, SentStep, PTL DEF Spec

-----------------------------------------------------------------------------
(* Who is adding a label does not change with a step of another kind.      *)
LEMMA SameAdding ==
    ASSUME NEW r \in Requests, \A s \in Requests \ {r} : call'[s] = call[s],
           ~(call[r].phase = "loaded" /\ call[r].op = "label"),
           ~(call'[r].phase = "loaded" /\ call'[r].op = "label"), NEW i
    PROVE  Adding(i)' = Adding(i)
BY DEF Adding

LEMMA LabelsKept ==
    ASSUME LabelInv, NEW i \in Ids, labels'[i] \subseteq labels[i], Adding(i)' = Adding(i),
           adders'[i] = adders[i]
    PROVE  LabelsOK(i)'
<1>1. LabelsOK(i) /\ adders[i] \in Nat
  BY DEF LabelInv
<1>2. IsFiniteSet(labels'[i]) /\ Cardinality(labels'[i]) <= Cardinality(labels[i])
  BY <1>1, FS_Subset DEF LabelsOK
<1>3. /\ Cardinality(labels'[i]) \in Nat /\ Cardinality(labels[i]) \in Nat
      /\ Cardinality(Adding(i)) \in Nat
  BY <1>1, <1>2, FS_CardinalityType DEF LabelsOK
<1>4. ASSUME adders[i] > 0
      PROVE  Cardinality(labels'[i]) + Cardinality(Adding(i)) <= MaxLabels - 1 + adders[i]
  BY <1>1, <1>2, <1>3, <1>4, UpkeepAssumptions DEF LabelsOK
<1>5. adders[i] = 0 => labels'[i] = {} /\ Adding(i) = {}
  BY <1>1 DEF LabelsOK
<1> QED
  BY <1>1, <1>2, <1>4, <1>5 DEF LabelsOK

LEMMA InitLabels == Init => LabelInv
<1> SUFFICES ASSUME Init PROVE LabelInv
  OBVIOUS
<1>1. ASSUME NEW i \in Ids
      PROVE  LabelsOK(i)
  <2>1. labels[i] = {} /\ Adding(i) = {} /\ adders[i] = 0
    BY DEF Init, Adding, Idle
  <2> QED
    BY <2>1, FS_EmptySet DEF LabelsOK
<1> QED
  BY <1>1, InitCore DEF Init, LabelInv

(* One more request begins to add a label.                                 *)
LEMMA LoadLabels ==
    ASSUME LabelInv, NEW r \in Requests, NEW i \in Ids, NEW input \in Inputs, Load(r, i, input)
    PROVE  LabelInv'
<1>1. CoreInv'
  BY LoadCore DEF LabelInv
<1>2. /\ call[r].phase = "idle" /\ call'[r].phase = "loaded" /\ call'[r].op = input[1] /\ call'[r].id = i
      /\ \A s \in Requests \ {r} : call'[s] = call[s]
      /\ UNCHANGED labels
  BY DEF Load, rows, Idle, LabelInv, CoreInv, FunctionsOK
<1>3. CASE input[1] # "label"
  <2>1. UNCHANGED adders
    BY <1>3 DEF Load
  <2>2. \A j \in Ids : Adding(j)' = Adding(j)
    BY <1>2, <1>3, SameAdding
  <2> QED
    BY <1>1, <1>2, <2>1, <2>2, LabelsKept DEF LabelInv
<1>4. CASE input[1] = "label"
  <2>1. LabelsOK(i) /\ adders[i] \in Nat
    BY DEF LabelInv
  <2>2. r \notin Adding(i) /\ Adding(i)' = Adding(i) \cup {r}
    BY <1>2, <1>4 DEF Adding
  <2>3. \A j \in Ids \ {i} : Adding(j)' = Adding(j)
    BY <1>2 DEF Adding
  <2>4. PICK n : n = Cardinality(Adding(i)) + 1
    OBVIOUS
  <2>5. IsFiniteSet(Adding(i)') /\ Cardinality(Adding(i)') = n /\ Cardinality(Adding(i)) \in Nat
    BY <2>1, <2>2, <2>4, FS_AddElement, FS_CardinalityType DEF LabelsOK
  <2>6. n \in Nat /\ n > 0
    BY <2>4, <2>5
  <2>7. adders' = [adders EXCEPT ![i] = IF n > adders[i] THEN n ELSE adders[i]]
    BY <1>4, <2>4 DEF Load
  <2>8. adders' \in [Ids -> Nat]
    BY <2>6, <2>7 DEF LabelInv
  <2>9. adders'[i] >= n /\ adders'[i] \in Nat /\ \A j \in Ids \ {i} : adders'[j] = adders[j]
    BY <2>1, <2>6, <2>7 DEF LabelInv
  <2>10. Cardinality(labels[i]) < MaxLabels /\ Cardinality(labels[i]) \in Nat
    BY <1>4, <2>1, FS_CardinalityType DEF Load, ReadAllows, LabelFits, LabelsOK
  <2>11. Cardinality(labels[i]) + n <= MaxLabels - 1 + adders'[i]
    BY <2>6, <2>9, <2>10, UpkeepAssumptions
  <2>12. LabelsOK(i)'
    BY <1>2, <2>1, <2>5, <2>6, <2>9, <2>11 DEF LabelsOK
  <2>13. \A j \in Ids : LabelsOK(j)'
    BY <1>2, <2>3, <2>9, <2>12, LabelsKept
  <2> QED
    BY <1>1, <2>8, <2>13 DEF LabelInv
<1> QED
  BY <1>3, <1>4

(* One of the labels that were about to be added is there.                 *)
LEMMA AddLabels ==
    ASSUME LabelInv, NEW r \in Requests, AddLabel(r)
    PROVE  LabelInv'
<1>1. CoreInv'
  BY LabelCore DEF LabelInv
<1>2. /\ call[r].phase = "loaded" /\ call[r].op = "label" /\ call'[r].phase = "ended"
      /\ \A s \in Requests \ {r} : call'[s] = call[s]
      /\ UNCHANGED adders
  BY FinishStep DEF AddLabel, Loaded, Finish, LabelInv
<1>3. PICK i \in Ids : i = call[r].id
  BY FinishStep DEF Finish, LabelInv
<1>4. /\ labels'[i] = labels[i] \cup {call[r].arg}
      /\ \A j \in Ids \ {i} : labels'[j] = labels[j]
  BY <1>3 DEF AddLabel, LabelInv, CoreInv, FunctionsOK
<1>5. r \in Adding(i) /\ Adding(i)' = Adding(i) \ {r}
  BY <1>2, <1>3 DEF Adding
<1>6. \A j \in Ids \ {i} : Adding(j)' = Adding(j)
  BY <1>2, <1>3 DEF Adding
<1>7. LabelsOK(i) /\ adders[i] \in Nat
  BY DEF LabelInv
<1>8. /\ IsFiniteSet(labels'[i]) /\ Cardinality(labels[i]) \in Nat
      /\ Cardinality(labels'[i]) \in Nat
      /\ Cardinality(labels'[i]) <= Cardinality(labels[i]) + 1
  <2>1. PICK before, x : before = labels[i] /\ x = call[r].arg
    OBVIOUS
  <2>2. IsFiniteSet(before) /\ labels'[i] = before \cup {x}
    BY <1>4, <1>7, <2>1 DEF LabelsOK
  <2>3. /\ IsFiniteSet(before \cup {x}) /\ Cardinality(before) \in Nat
        /\ Cardinality(before \cup {x}) \in {Cardinality(before), Cardinality(before) + 1}
    BY <2>2, FS_AddElement, FS_CardinalityType
  <2> QED
    BY <2>1, <2>2, <2>3
<1>9. IsFiniteSet(Adding(i)') /\ Cardinality(Adding(i)') = Cardinality(Adding(i)) - 1
        /\ Cardinality(Adding(i)) \in Nat
  BY <1>5, <1>7, FS_RemoveElement, FS_CardinalityType DEF LabelsOK
<1>10. adders[i] > 0
  BY <1>5, <1>7 DEF LabelsOK
<1>11. Cardinality(labels'[i]) + Cardinality(Adding(i)') <= MaxLabels - 1 + adders[i]
  <2>1. Cardinality(labels[i]) + Cardinality(Adding(i)) <= MaxLabels - 1 + adders[i]
    BY <1>7, <1>10 DEF LabelsOK
  <2> QED
    BY <1>7, <1>8, <1>9, <2>1, UpkeepAssumptions
<1>12. LabelsOK(i)'
  <2>1. adders'[i] = adders[i] /\ adders[i] # 0
    BY <1>2, <1>7, <1>10
  <2> QED
    BY <1>8, <1>9, <1>11, <2>1 DEF LabelsOK
<1>13. \A j \in Ids : LabelsOK(j)'
  BY <1>2, <1>4, <1>6, <1>12, LabelsKept
<1> QED
  BY <1>1, <1>2, <1>13 DEF LabelInv

LEMMA LabelStep == LabelInv /\ [Next]_vars => LabelInv'
<1> SUFFICES ASSUME LabelInv, [Next]_vars PROVE LabelInv'
  OBVIOUS
<1>1. CoreInv'
  BY CoreStep DEF LabelInv
<1>2. ASSUME NEW r \in Requests, UNCHANGED adders, \A s \in Requests \ {r} : call'[s] = call[s],
             ~(call[r].phase = "loaded" /\ call[r].op = "label"),
             ~(call'[r].phase = "loaded" /\ call'[r].op = "label"),
             \A i \in Ids : labels'[i] \subseteq labels[i]
      PROVE  LabelInv'
  <2>1. \A i \in Ids : Adding(i)' = Adding(i)
    BY <1>2, SameAdding
  <2> QED
    BY <1>1, <1>2, <2>1, LabelsKept DEF LabelInv
<1>3. ASSUME NEW r \in Requests, NEW k \in Keys, NEW c \in Contents, NEW approval \in BOOLEAN,
             NEW expires \in ExpiryTimes \cup {None}, Lookup(r, k, c, approval, expires)
      PROVE  LabelInv'
  <2>1. /\ call'[r].phase # "loaded" /\ call[r].phase # "loaded"
        /\ \A s \in Requests \ {r} : call'[s] = call[s]
        /\ UNCHANGED <<labels, adders>>
    <3>1. CASE WithKey(k) = {}
      BY <1>3, <3>1 DEF Lookup, Idle, rows, ghost, LabelInv, CoreInv, FunctionsOK
    <3>2. CASE WithKey(k) # {}
      BY <1>3, <3>2 DEF Lookup, Idle, rows, ghost, LabelInv, CoreInv, FunctionsOK
    <3> QED
      BY <3>1, <3>2
  <2> QED
    BY <1>2, <2>1
<1>4. ASSUME NEW r \in Requests, Insert(r)
      PROVE  LabelInv'
  <2>1. PICK result, id : End(r, result, id)
    BY <1>4 DEF Insert
  <2>2. /\ call'[r].phase # "loaded" /\ call[r].phase # "loaded"
        /\ \A s \in Requests \ {r} : call'[s] = call[s]
        /\ UNCHANGED <<labels, adders>>
    BY <1>4, <2>1, EndStep DEF Insert, ghost, LabelInv, CoreInv, FunctionsOK
  <2> QED
    BY <1>2, <2>2
<1>5. ASSUME NEW r \in Requests, Finish(r), ~AddLabel(r)
      PROVE  LabelInv'
  <2>1. /\ call'[r].phase = "ended"
        /\ \A s \in Requests \ {r} : call'[s] = call[s]
        /\ UNCHANGED adders
    BY <1>5, FinishStep DEF LabelInv
  <2>2. call[r].op # "label"
    BY <1>5 DEF Finish, SetColumn, Archive, Unarchive, WriteStatus, FindDeleted, RemoveLabel, Annotate, Loaded
  <2>3. \A i \in Ids : labels'[i] \subseteq labels[i]
    <3>1. CASE RemoveLabel(r)
      BY <3>1 DEF RemoveLabel, LabelInv, CoreInv, FunctionsOK
    <3>2. CASE ~RemoveLabel(r)
      BY <1>5, <3>2 DEF Finish, SetColumn, Archive, Unarchive, WriteStatus, FindDeleted, Annotate, Update, rows
    <3> QED
      BY <3>1, <3>2
  <2> QED
    BY <1>2, <2>1, <2>2, <2>3
<1>6. CASE UNCHANGED <<labels, call, adders>>
  <2>1. \A i \in Ids : Adding(i)' = Adding(i)
    BY <1>6 DEF Adding
  <2> QED
    BY <1>1, <1>6, <2>1, LabelsKept DEF LabelInv
<1>7. (Cleanup \/ Tick \/ UNCHANGED vars) => UNCHANGED <<labels, call, adders>>
  BY DEF Cleanup, Tick, vars, rows, ghost
<1> QED
  BY <1>3, <1>4, <1>5, <1>6, <1>7, LoadLabels, AddLabels DEF Next, RequestStep, Finish

(* The limit on labels is passed at most by those who were adding at once, *)
(* less one (OutboundActionLabelService.add).                              *)
THEOREM LabelsAreBounded == Spec => []LabelsWithinConcurrency
<1>1. LabelInv => LabelsWithinConcurrency
  <2> SUFFICES ASSUME LabelInv, NEW i \in Ids
      PROVE  Cardinality(labels[i]) <= MaxLabels - 1 + (IF adders[i] = 0 THEN 1 ELSE adders[i])
    BY DEF LabelsWithinConcurrency
  <2>1. LabelsOK(i) /\ adders[i] \in Nat
    BY DEF LabelInv
  <2>2. Cardinality(labels[i]) \in Nat /\ Cardinality(Adding(i)) \in Nat
    BY <2>1, FS_CardinalityType DEF LabelsOK
  <2>3. CASE adders[i] = 0
    <3>1. Cardinality(labels[i]) = 0
      BY <2>1, <2>3, FS_EmptySet DEF LabelsOK
    <3> QED
      BY <2>3, <3>1, UpkeepAssumptions
  <2>4. CASE adders[i] > 0
    <3>1. Cardinality(labels[i]) + Cardinality(Adding(i)) <= MaxLabels - 1 + adders[i]
      BY <2>1, <2>4 DEF LabelsOK
    <3> QED
      BY <2>1, <2>2, <2>4, <3>1, UpkeepAssumptions
  <2> QED
    BY <2>1, <2>3, <2>4
<1> QED
  BY <1>1, InitLabels, LabelStep, PTL DEF Spec
=============================================================================
