# Smart Sales Agency: models, checks and proofs

TLA+ specifications of the application under `src/app`, with TLC configurations
that check small instances and theorems that TLAPS checks for all of them. Every
definition follows the code; `PROJECT.json` maps each one to the lines it models
and lists runs, mutants, findings, hazards and theorems.

    tlc -config OutboundOverlapping.cfg MCOutboundDelivery.tla     # one run
    tlapm OutboundDeliveryProofs.tla                               # one module of proofs

## 1. The system

A FastAPI application over one SQL database (SQLite or PostgreSQL), one process.
The facts that everything else rests on:

* Every request has a database session of its own (`db.py:16`). A session
  remembers the rows it loaded; the `UPDATE` of a commit writes the columns whose
  values differ from the loaded ones. No query locks a row, no row carries a
  version, and no `UPDATE` is conditional on what was read. A read sees the latest
  commit, the session's copy of a row does not change afterwards.
* Synchronous routes run in a pool of threads: their steps interleave anywhere.
  Asynchronous routes run on the one event loop and let go of it only where an
  `await` really suspends, in the routes modelled the call to the language model; their
  database calls block the loop. Dependencies that are plain functions run in threads.
* A process may die at any point. What has been committed stays, nothing resumes.

### Components

State, operations, what makes each hard, and what makes it correct.

| Component | State | Operations | Hard because | Correct if |
|---|---|---|---|---|
| Outbound delivery (`outbound_delivery.py`, transitions, retry policy, approval gate) | action row, attempts, audit events, the account's `active` | deliver, retry, cancel | threads; provider call between read and commit; provider may take a message and answer with an error | attempts numbered, status follows the table, audit agrees with attempts, nothing sent unapproved |
| Outbound read models (readiness, status, timeline, history) | none | queries | computed apart from the code that acts, in several queries | what they announce comes true, a timeline explains itself however it is cut |
| Outbound creation and upkeep | action rows, labels, notes, owner, archive flag | create with idempotency key, archive, priority, labels, clean up | check then insert; cleanup against requests in flight | one action per key, labels bounded, open work listed, nothing sent is deleted |
| Approval decisions (`approval_decisions.py`) | approval row, stored message | approve (sends for a lead), reject | check then write; send before commit | one message, what is decided stays decided, whose note a decision carries |
| Operator assignments (`operator_assignments.py`) | `assigned_*` columns of approvals and leads | assign, clear | check then write; partial `UPDATE` | set and cleared whole |
| Conversation turns (`conversation_turn_service.py`, `direct_conversation_turn_idempotency.py`) | turn receipts, messages | process a turn, replay a stored outcome | four commits around a call to the model; retries with one key; cleanup on a failed session | a key runs once, replays are true |
| Human handoff (`handoff_policy.py`, `handoff_service.py`, `repository.py`) | handoff rows | decide, open, resolve | check then insert without a constraint; resolved from a thread | one active handoff |
| Inbound events (`inbound_integrations.py`, `routes/integrations.py`) | event receipts | receive | provider repeats deliveries; receipt is stored before the handling | handled once, not lost |
| AI gateway, limits, routing, pricing, usage | usage rows | invoke, record | limit checked before, usage recorded after the await | limits bound what is spent, tiers stay permitted, every answer in the ledger |
| New-lead workflow, sales stages | lead, research, outreach approvals | load, research, qualify, prepare; evaluate, transition | a commit per node; overlapping runs, restarts | status tells progress; nobody unqualified is contacted; moves follow the matrix |
| Identity, memberships, RBAC, workspaces | users, credentials, memberships, workspaces | register, log in, create, add, deactivate, resolve, write settings | check then insert; resolved rows used later | what was added is what one request asked for, settings written only by those who may |
| Integration accounts, their audit, webhook authentication | accounts, audit events | provision, (de)activate, rotate, change secret, clean up in batches, authenticate | partial `UPDATE`; retention interrupted; account read, then signature compared and workspace read | audit tells the state, nothing retired lets in, counts exact |
| HTTP surface | none | routes | permission per route | who may change what |
| Event dispatcher | subscription lists | subscribe, publish | used by tests only | — |
| Agents, prompts, channels, schemas, health and trace views, legacy graph | none | text, validation, reads | — | — |

They interact through rows: an approval gates the delivery of its action; a turn
stores its reply as an approval or a message; an event runs a turn; deactivating an
account stops new deliveries and inbound events; a workflow run asks for an approval;
the turn and the researcher call the gateway, which reads and writes usage rows in
their sessions. There are no queues, and no component calls another back.

## 2. Modules

| Module | What it is |
|---|---|
| `OutboundTransitions` | the status table and its audit events |
| `OutboundLifecycle` | abstract: one action, its status and its number of attempts |
| `OutboundDelivery`, `…Proofs` | deliveries, retries, cancellations and decisions of one action |
| `OutboundReads`, `…Proofs` | the read endpoints, asked before and beside those requests (EXTENDS `OutboundDelivery`) |
| `OutboundUpkeep`, `…Proofs` | creation, archive, labels, notes and cleanup of the actions of an account |
| `ConversationTurns`, `…Proofs` | turns of one lead: receipts, events, handoffs, the event loop |
| `TurnLedger` | abstract: what an idempotency key promises, holder by holder |
| `ApprovalLifecycle` | abstract: one approval, assigned whole and decided once, and what overlapping requests may do to it |
| `ApprovalDecisions`, `…Proofs` | decisions, sends and assignments of one approval |
| `AIPolicy` | the pure parts of the gateway: routing, tiers, prices, limits |
| `AIGateway`, `…Proofs` | calls in flight against workspace limits and the ledger |
| `LeadJourney`, `…Proofs` | new-lead workflow, lead assignment and sales stages on the lead's row |
| `HttpRoutes` | which permission each route demands and which errors it maps |
| `WorkspaceAccess` | registration, login, workspaces, memberships, the checks before a handler |
| `IntegrationAccounts`, `…Proofs` | accounts, audit, retention and webhook authentication behind those checks (EXTENDS `WorkspaceAccess`); the proofs cover both |

`MC…` modules give each its small instances. An operator commented "faulty" is the body
of a mutant: the definition after it, as a plausible bug would have it.

## 3. Outbound actions

### OutboundDelivery

One action, its account, its approval, its attempts and its audit events; a set of
requests, each of which performs one operation and ends refused, done or lost.

| Code | Model |
|---|---|
| `deliver_pending_action`: load, gate, create an attempt, call, persist | `LoadForDelivery`, `RequireApproved`, `NewAttempt`, `CallAdapter`, `CommitAttempt` |
| `retry_failed_action`: load and record the retry event, ask the policy, second count, call, persist | `LoadForRetry`, `EvaluateRetry`, `NewAttempt`, `CallAdapter`, `CommitAttempt` |
| expiry found on delivery | `LoadForDelivery` then `CommitExpiry` |
| `cancel_pending_action` | `LoadForCancel`, `CommitCancel` |
| approve and reject, as far as the gate sees them | `LoadForDecision`, `CommitDecision` |
| `UNIQUE(action, attempt_number)` | guard `NumberIsFree` of `CommitAttempt`; `AttemptConflict` otherwise |
| process, client or commit lost | `Lose` |
| account (de)activation, time | `ToggleAccount`, `Tick` |
| archive, unarchive (`outbound_action_archiving.py`) | `Archive`, `Unarchive`: the flag and an event in the same trail |

`seen` is the session's copy of the row. `WithDelivered` and `WithFailed` write what
changed relative to `seen` into the row of the moment, as the `UPDATE` does.
`CallAdapter` may leave the message with the provider (`accepted`) and still report
one of `AmbiguousKinds`. `accepted` and the `by` of an attempt are not in the
database; they only name what happened. On SQLite a retry holds the write lock
during the provider call, which allows a subset of these interleavings. Two approvals
of one action cannot overlap in one process; here they may (`ApprovalDecisions`
has the loop), so what holds here holds there. Kept out: payloads, provider adapters
beyond their outcome, trace identifiers.

For all interleavings: attempts are numbered 1, 2, 3, ... in commit order; every message
the provider took belongs to a recorded attempt, a request in flight, or a lost one; one
audit event per attempt and outcome; nothing is sent while a required approval is
undecided, although a retry never looks at it. For requests that follow one another
(`Overlap = FALSE`), however many are lost: the action implements `OutboundLifecycle`,
and its records agree (`SerialRecords`: timestamps and failure columns fit the status,
the history ends in it, what is cancelled was never knowingly sent).

Overlapping requests get less than that. Nothing is counted again before the call, so two
deliveries of one action can record more attempts than
`OUTBOUND_DELIVERY_MAX_ATTEMPTS`, which `README.md:256` of the repository describes as the
limit of all attempts. A stale delivery or cancellation overwrites the status of a
delivered action. `OutboundLifecycle` is therefore claimed for serial requests only.

### OutboundReads

`Answer(o)` is what the matching endpoint says before a request: `BlockingReasons`
(readiness, with `RetryIsEligible` of the status view and its delay), `Validated`
(transition validation), `ApprovalStatus`. `Ask` keeps the answer in `told`; `Act` starts the
request, a later HTTP request: in between others are made, the account is switched and time
passes. `Age` (a ghost) takes away `told.fresh` when anything but the time has changed, and
keeps it once the request has begun. `ToldIsTrue` has a half for each. Fresh, an action
announced ready is not refused, and one announced blocked leaves only because `not_before`
came, or by a retry, which asks neither for the delay nor for the expiry. However old, a
refusal is final unless the account was reactivated, the action approved or the time came.

Beside the requests one reader composes a timeline, a query per step (`BeginTimeline`,
`ReadSource`, in the order of `Sources`); every query is bounded by `ReadLimit`, and `Shown`
sorts the entries and cuts them to the client's limit. Times are ranks: event `i` has time
`3 * i`, `startedAt` and `decidedAt` place attempts and decisions between the events.
`HistoryExplains` says that a timeline read in the code's order, cut anywhere, shows with each
event that announces an attempt that attempt (unless the page of attempts was full), and for
each attempt the decision that allowed it. The audit table also takes `archived` and
`unarchived`, which may be repeated and push the transitions out of the newest rows: the state
history then is empty, and otherwise it ends in the status of the row. Filters by category
and time are left out. Adapters are taken to be capable of their actions
(the reason "adapter not capable" never occurs); the other endpoints' queries are one step.

### OutboundUpkeep

| Code | Model |
|---|---|
| `create_action` | `Lookup` (the answer if the key is taken), `Insert` (or the unhandled `IntegrityError`) |
| archive, unarchive, labels, notes, priority, owner: read and check | `Load` with `ReadAllows` |
| their commits | `Archive`, `Unarchive`, `AddLabel`, `RemoveLabel`, `Annotate`, `SetColumn` |
| status commits of `OutboundDelivery`, as far as upkeep meets them | `WriteStatus` |
| any of these on a row that is gone | `FindDeleted` |
| `cleanup_expired_for_workspace`: one `DELETE` | `Cleanup`; fails where foreign keys are enforced |

`Load` remembers the status it saw; `stale` marks actions whose status was written over
another, `adders` counts requests adding a label at once. Both are ghosts. What holds:
callers of one key get one action (unless the cleanup took it), the archive flag follows
the history, open work stays in the default list and what was sent is kept unless `stale`,
labels pass the limit at most by the requests adding at once.

## 4. Conversations

### ConversationTurns

The turns of one lead: direct turns with or without an idempotency key, and inbound
events with or without an identifier. A step is what happens between two points at
which a commit, another thread or a crash can be seen.

| Code | Model |
|---|---|
| `DirectSalesConversationTurnService.process` | `Reserve` (the insert, or its `IntegrityError`), `ReplayOrRaise`, the turn, `Complete`, or `Discard` |
| `receive_inbound_event` | `ReserveEvent`, the turn |
| `SalesConversationTurnService.process` | `Decide`, `EnsureHandoff`, `InsertHandoff` on a handoff; `ModelAnswers` or `ModelFails` otherwise; `StoreInbound`, `StoreReply` |
| any write of the turn that raises | `WriteFails`: the session is unusable, so the discard raises as well |
| the refresh after a commit that raises | second disjunct of `Committed`: the turn fails, or, if `SessionSurvivesReload`, unwinds into the discard |
| `resolve_sales_handoff`, from a thread | `Resolve` |
| the process dies | `Crash`, which ends every turn in flight |

A turn in a phase of `OnLoop` has the event loop. It gives it up only in `calling`, so
`LoopFree` guards the entry of every other turn and the return of a model call. Calls
that never suspend (demo mode, a blocked limit) are a subset of these behaviours.
Contents stand for channel and message, the two the fingerprint covers; replies,
stored as an approval or a message, are the set `replied`. Kept out: prompts, history,
stages, usage rows (`AIGateway` has them), lookups that fail before any write. The pool
of connections is not modelled: any reload may fail, as it does after the pool's timeout.

What holds: a second message or reply under one key only beside a turn that failed in a
session that went on working (`GivenUp`; where none does, at most one), one of each per event, replays are those of a completed turn with the same
content, one active handoff although no constraint says so, every turn ends. `TurnLedger` says in a
page what an `Idempotency-Key` promises (`Ask`, `Take`, `GiveBack`, `StoreMessage`,
`StoreAnswer`, `Finish`, `Repeat`), and the turns implement it: the receipt's owner holds the
key, and every commit of a keyed turn is one of those steps. Completed outcomes stay, which is
a part of it. `Forgetful` is the one weakness: with sessions that survive a failed reload, a
key may be given back although its message is stored: the reload after the commit fails, the
except branch discards the receipt, and the retry stores the message again. That is finding 2
(`StoredOnce`). What does not hold either, and no document promises: a write that fails inside
a turn leaves its key reserved for good, since the cleanup uses the failed session
(`repository.py:174`); a resolved
handoff can be opened again by a turn that had read it as active.

### ApprovalDecisions

One approval, of a lead or of an outbound action (`ofLead`), and requests that
approve, reject, assign or clear it.

| Code | Model |
|---|---|
| `_pending_scoped_approval`, `_ensure_pending_approval` | `LoadPending`, entered by `Approve`, `Reject`, `AssignApproval`, `ClearApproval` |
| `ConsoleChannel().send` | `Send`; it always succeeds and does not suspend, so an approving request keeps the loop (`LoopFree`) |
| `_record_decision` and the message, in one commit | `Commit` with `RecordDecision` |
| `_set_assignment`, `_clear_assignment`, in one commit | `Commit` with `SetAssignment` |
| commit raises and is rolled back; the reload fails; the process dies | `CommitFails`, `Answer`, `Crash` |

`decision`, `note` and the `at` of an assignment name the request that wrote
`decided_at` with `decided_by_*`, `reviewer_note` and `assigned_at`. `Written` is the
partial `UPDATE`. Members are the eligible targets. Kept out: the wrong-workspace and
not-found answers, which come before any write.

For all interleavings: sends are the stored message plus those of requests that failed or
were lost before their commit; status and message agree; a decider's own note is the one
stored, and a decider without one may keep the note of a decision it wrote over, so that an
executed approval can carry the note of a rejection (`NoteFitsDecision`); nothing brings the
pending status back and no approval replaces another. An approval and a rejection that overlap both succeed, and the later one replaces the
earlier one's status and actor; `tests/test_approval_decision_attribution.py:358`, which
expects the second to be refused, sends them one after the other. Overlapping
assignments may mix the member of one with the actor of another, and an assignment in
flight may land after the decision. `ApprovalLifecycle` says both: without `Overlap` one
decision and whole assignments, with it decisions that only a rejection replaces (`Decide`)
and assignments of which single columns are kept (`Store`). `ApprovalDecisions` implements it
either way; the run has the requests overlap.

### LeadJourney

| Code | Model |
|---|---|
| `POST /leads` | `CreateLead` |
| `run_lead_workflow` and `load_lead` | `BeginRun` |
| `research_lead`, `save_research` | `Research` |
| a node, or an edit, ends before its commit, or in the refresh after it | `StepFails`; second disjunct of `GoOn` |
| `qualify_lead`, `qualification_route`, `stop_unqualified` | `Qualify` with `Score` and `QualificationRoute` |
| `prepare_outreach` | `PrepareOutreach` |
| `assign_lead`, `clear_lead` | `LoadAssignment`, `CommitAssignment` with `Assigned` |
| `SalesStageTransitionService.transition` | `LoadStage`, `CommitStage` |
| a member or user deactivated; the process restarted, perhaps in the other mode | `Deactivate`, `Restart` |

In live mode the gateway's commit makes the run read the lead again before it writes; in
demo mode it compares with what the route loaded. `mixed` (a ghost) marks leads on which an
assignment was committed over one it had not seen. What holds: the status tells how far the
lead came, except for a run cut off between its two commits, by a restart or by a node that failed; who stands as unqualified was
contacted only by a run in another mode; assignments are whole unless `mixed`; a stage
changes only to what its request asked for, and leaves the matrix only if it was overtaken.
Nothing under `src/app` calls `transition`: the tests do, and what is modelled is what its
callers would meet. Text of briefs and outreach is left out.

## 5. AI gateway

`AIPolicy` translates the decision tables: `Route`, `IsMapped`, `Evaluate` (with
`HardLimitReached` and `Downgradable`), `UsableCounts`, `Cost`. `AIGateway` has the ledger
(`usage`), the calls, the deployment's settings and the workspaces' policies.

| Code | Model |
|---|---|
| `invoke` up to the call | `Refuse` with `Verdict`, or `Admit` |
| the call returns; the commit of its row, and the refresh after it, succeed or fail | `Complete` with `RecordOrNot` |
| the call raises | `Fail` |
| the process stops while calls wait | `Stop` |

`peak` (a ghost) is the largest number of calls of a workspace that ever waited together.
What holds: rows and waiting calls exceed the invocation limit by at most `peak − 1`; token
and spend limits are never passed by calls that do not overlap and whose estimates cover
them; a call reaches only a tier that is permitted, mapped, not above the routed one and
premium only with a reason; every call is in the ledger at most once and every answer a
caller sees exactly once; a row is a success exactly where the model served the call, which
includes the row left by a refresh that failed, for which the caller gets an accounting error
like for a row that is missing; one failed call closes a workspace with a spend limit for good.
The callers in the application (`lead_researcher.py:112`, `sales_agent.py:236`) pass no
estimates, so a token or spend limit refuses every one of their calls.

## 6. Workspaces and integration accounts

`HttpRoutes` lists every human route with its permission, whether it changes rows and the
errors its handler maps; its `ASSUME`s (evaluated by TLC) say that only managers replace the
sales instructions and that what a member's routes change are leads, products and
conversations. `WorkspaceAccess` has the checks in front of them, each a step that reads
the rows anew, and `IntegrationAccounts` the handlers behind.

| Code | Model |
|---|---|
| `register`, `register_user`: look for the address, insert the user, the first with a credential | `LookForEmail`, `Register` |
| `authenticate`, `issue_access_token` | `Authenticate`, `IssueToken` |
| `get_authenticated_principal` | `ResolvePrincipal` |
| `_resolve_authenticated_workspace_context`, permission | `ResolveContext` with `ContextAnswer` |
| workspace and owner | `LookForSlug`, `CreateWorkspace` |
| sales instructions | `WriteInstructions` |
| `add_membership`, `deactivate_user` | `LookForMembership`, `AddMembership`, `DeactivateUser` |
| `active` of a workspace or membership, changed by hand | `OperatorDeactivates` |
| `provision` | `Provision` |
| (de)activate, rotate, change of secret | `LoadAccount`, `Save` with `Changed` and `Written` |
| `cleanup_for_workspace` | `BeginCleanup`, then `SelectBatch` and `DeleteBatch` until none is left |
| `get_verified_integration_context` | `ReceiveEvent` (the account row; the body is there already), then `AuthenticateEvent` (signature, workspace); a handler in a thread may commit in between |

Events are kept in the order of their commits with the time stamp their request took
between load and commit; the one a cleanup deleted names it in `gone`. Credentials, secrets
and instructions are named after the request that made them. The rows at the start keep the
constraints of their tables and nothing more: a user may be without a credential, as
`register_user` leaves it, a workspace without an owner. What holds: an address is one user's
and a slug one workspace's; a user that was added has a credential exactly if `register` made
it, and the first owner of a new workspace is who asked for it; instructions come from a
manager of that workspace who was active when the request came; an account is inactive
exactly if its newest flag event is a deactivation, whatever rotations and cleanups overlap,
except where two (de)activations overlapped (`crossed`: then row and audit may disagree);
no retired credential or secret lets an event in; cleanups count exactly what they took and
take nothing younger than the retention. Communication preferences are written like the
instructions, but as three columns that two overlapping updates may mix; they are not
modelled.

## 7. Runs, bounds, fairness

| Run | Instance | Properties |
|---|---|---|
| `outbound_overlapping` | 4 requests, maximum 2, 2 archivings | `TypeOK`, `AttemptNumbering`, `MessagesAccountedFor`, `AuditAgreesWithAttempts`, `ApprovalPrecedesDelivery` |
| `outbound_serial` | 4 requests one by one, one of them told something before, 2 archivings; exponential delay, reads limited to 2 rows | `SerialRecords`, `ToldIsTrue`, `HistoryExplains`, refinement `ImplementsLifecycle` |
| `turns_keyed` | 3 turns, 1 key, 1 event, 2 contents, 1 reason; sessions survive reloads or not | `TypeOK`, `KeysRunOnce`, `EventsRunOnce`, `ReplaysAreCanonical`, `OneActiveHandoff` |
| `turns_live` | 3 turns, 1 key, sessions survive reloads | refinement `ImplementsLedger`, liveness `TurnsEnd` |
| `turns_lost_event` | 2 turns | finding 1 |
| `turns_run_twice` | 2 turns, 1 key, sessions survive reloads | finding 2 |
| `approvals_overlapping` | 4 requests, 1 actor, 2 members, 1 crash | `SendsAreAccountedFor`, `MessageMatchesStatus`, `NoteFitsDecision`, `DecisionsAreNotUndone`, refinement `ImplementsLifecycle` |
| `ai_gateway` | 3 calls, 2 workspaces, 3 deployments, 5 policies with a limit of 0 among them, 1 stop | `BudgetsHold`, `TierWithinPolicy`, `AccountedOnce`, `FailureClosesSpendLimited` |
| `outbound_upkeep` | 4 requests, 2 actions, 1 key, 2 texts, 2 labels with limit 1, no foreign keys | `OneActionPerKey`, `ArchiveFollowsHistory`, `OpenWorkIsListed`, `SentIsKept`, `LabelsWithinConcurrency` |
| `upkeep_cleanup` | 2 requests, foreign keys enforced | finding 3 |
| `lead_journey` | 3 requests, 1 lead, 2 members, 2 restarts | `StatusTellsProgress`, `UnqualifiedIsNotContacted`, `AssignmentIsWhole`, `StageFollowsMatrix` |
| `workspace_admin` | 2 requests, 1 inbound event, 4 users (one there without a credential), 3 workspaces (one without an owner), 2 accounts, 1 deactivation, batches of 2 | `LifecycleFollowsAudit`, `NothingRetiredLetsIn`, `CleanupCountsExact`, `CreationIsWhole`, `InstructionsByManagers`, `RecentEventsKept` |

Why these bounds suffice. Every hazard found needs one request that read something
old and one or two that change it in between. Four requests leave room for a failed
delivery, its retry and two intruders, and allow more attempts than the maximum; for the
upkeep, two creations and two requests on what they made. The clock has one instant before
`NotBefore`, one in which the action is deliverable and one at which it is expired; for the
cleanup of actions one after the expiry, for that of audit events one at which the first
events are too old. A failure kind that is retried and one that is not, one of them
ambiguous, are all that the code tells apart. A turn with a key needs a first try, a retry
and a third turn that holds the loop; two contents tell a replay from a conflict; one reason
tells a handoff from none. In `outbound_serial` the constraint `OneReadAtATime` follows one
read at a time: an answer, with its request among at most three and without archivings,
which no answer looks at, until that request has ended; or a timeline, with the account
active, until it is whole. Two archivings fill reads of two rows, so that a history can be
without a transition. The gateway's third call is admitted next to one that waits and
one that is recorded; deployments, policies and requests cover every branch of the decision
tables. Three facts sets are unqualified in both modes, in one, in neither. An account has a
history of three events against batches of two, so that a cleanup needs a second batch, which
another cleanup or a new event may precede. The proofs remove the bounds for the properties
they cover. Requests, turns, calls, actors and members are interchangeable, so the runs use
symmetry, except the one with a liveness property. `CHECK_DEADLOCK FALSE` is set where the
instance may simply have no request left; the runs on `OutboundDelivery` never stop because
the account can always be toggled.

Fairness is assumed in `turns_live` only (`FairSpec`): weak fairness of each turn's
next step. The event loop runs every coroutine that is ready, database calls return or
raise, and the call to the model has a timeout (`llm_timeout_seconds`). Nobody is
obliged to send a turn, to resolve a handoff, or to crash. Weak fairness is enough
because a turn that keeps the loop leaves it in finitely many steps and turns are
not repeated. All other properties are safety properties: no other component waits for
anything but its own database calls.


## 8. Proofs

Every theorem is checked by TLAPS to its last leaf, for any number of requests, turns,
actions, accounts, members and any limits. Assumptions are the named `ASSUME`s of the
modules, which TLC evaluates in each run; `Overlap = FALSE` where a theorem is about requests
that follow one another; for the second half of `KeysAreRunOnce` that no session survives a
failed reload; and for `GatewayIsTyped` that finitely many calls are made. None of the properties proved is inductive by itself: they relate what a
request will write to rows that others change, so each needs an invariant about what the
requests in flight have read, and about those that may still come. The inductive invariants
were checked with TLC before they were proved.

| Module | Inductive invariant | Theorems |
|---|---|---|
| `OutboundDeliveryProofs` | `CoreInv`: types, numbers, phases that fit their operations, numbers within reach; `AccountInv`: what the provider took belongs to a request past its call; `GateInv`: a request past the gate, a failed action, a message and an attempt all tell that the approval is decided; `SerialInv`: alone, a request's copy is the row; `RecordsInv` | `DeliveryIsTyped`, `AttemptsAreNumbered`, `MessagesAreAccountedFor`, `AuditTrailAgrees`, `ApprovalComesFirst`, `SerialRecordsAgree`, `SerialImplementsLifecycle` |
| `OutboundReadsProofs` | beside those: `OpenInv`: alone, a request past the gate, and a failed action, had reached its time and its approval; `ToldInv`: of a request not yet begun, the answer against the row of the moment (`AnswerFits`, while fresh; `Lasting`, ever after), of one begun, phase by phase (`FreshlyTold`, `Begun`); `TrailInv`: after the last event that changed the status only archivings follow; `StampInv`: every event that announces an attempt has one started right before it, every attempt the decision it needed; `TimelineInv`: the same of the entries read, query by query, from which it follows at any cut | `ReadsOnlyRead`, `LifecycleBesideReads`, `RecordsBesideReads`, `TimelinesExplain`, `ReadsAreTold` |
| `ConversationTurnsProofs` | `LoopInv`: one turn has the loop; `StoredInv`, `ReceiptInv`: phases and receipts tell what is stored; `KeyInv`: a turn that stored something has the receipt of its key, or failed in a session that survived; `EventInv`: what is stored for an event is by the turn that reserved it; `HandoffInv`: a turn about to insert has seen that there is none, and kept the loop since; `AnswerInv`: no key before a turn arrives and no answer before it ends | `TurnsAreTyped`, `EventsAreHandledOnce`, `KeysAreRunOnce`, `ReplaysAreTrue`, `CompletedOutcomesStay`, `TurnsImplementLedger`, `HandoffIsUnique` |
| `ApprovalDecisionsProofs` | `LoopInv`, `ApproverInv`: while an approver has the loop no message is stored and the approval is at most rejected, with a note, if any, of a rejection; `DeciderInv`: the stored decision and note are those of requests that were called; `WantedInv`: who sets an assignment sets a whole one; `AloneInv` for serial requests: the copy is the row | `ApprovalsAreTyped`, `SendsAreCounted`, `MessagesMatch`, `NotesFitDecisions`, `DecisionsStay`, `ApprovalsImplementLifecycle` |
| `OutboundUpkeepProofs` | `CoreInv`; `KeyInv`: keys are unique and every answer given fits its row; `FlagInv`; `OpenInv`: an action read as archivable is so still, or stale (`ReadStillTrue`); `SentInv`: what was sent stands as delivered; `LabelInv`: labels there and being added against `adders` | `UpkeepIsTyped`, `KeysNameOneAction`, `FlagFollowsHistory`, `OpenWorkStaysListed`, `SentActionsAreKept`, `LabelsAreBounded` |
| `AIGatewayProofs` | `CoreInv`; `TierInv`; `PriceInv`: a failed row has no price; `LedgerInv`: a row and its call tell the same, an accounting error with a row or without; `CountInv`: rows and calls in flight together against `peak`; `BudgetInv`: where calls never overlapped, a workspace has a call waiting only with room for its estimate, and its rows sum up to no more than the limit; `BoundsInv`: what the types need besides | `TiersAreWithinPolicy`, `FailureCloses`, `AnswersAreAccounted`, `OverrunIsBounded`, `BudgetsAreKept`, `GatewayIsTyped` |
| `LeadJourneyProofs` | `CoreInv`: types, and every request has a lead; `ProgressInv`: what a run in flight has got to fits the lead, its research (`UnseenInv`, `RunInv`) and its outreach (`OutreachInv`); `StageInv`: a stage request was admitted by the matrix | `JourneyIsTyped`, `StatusTellsTheProgress`, `UnqualifiedLeadsAreLeftAlone`, `AssignmentsAreWhole`, `StagesFollowTheMatrix` |
| `IntegrationAccountsProofs` | `CoreInv`: types, rows hang together, and a request that got as far as its phase stood its checks; `ManagerInv`; `NamesInv`: credentials and secrets in use are distinct and never retired ones; `InboundInv`; `LifecycleInv`: commits of the flag in order, a loaded flag is what the audit said then, a batch contains every older event | `AccountsAreTyped`, `CreationsAreWhole`, `ManagersInstruct`, `CleanupsCountTheirOwn`, `RecentEventsStay`, `RetiredLetsNothingIn`, `AuditTells` |

The refinements are proved step by step. For `SerialImplementsLifecycle`, and where
`ApprovalsImplementLifecycle` has no overlap, one request is in flight and its copy of the row is the row, so a
commit is one step of the abstract specification and everything before it a stutter.
`TurnsImplementLedger` needs no such hypothesis: turns overlap, and it is the receipt, stored
before anything else, that makes each commit a step of the one turn holding the key.

Two arguments are of another kind. `ReadsOnlyRead` is a refinement with the identity as its
mapping: a step of `OutboundReads` is a step of `OutboundDelivery` or leaves it alone, so the
theorems of the latter carry over. `BudgetsAreKept` speaks of sums over the ledger. `Sum` is a
fold, and a fold a recursive function that the community modules choose: that it exists
(`AddsExists`), that two of them agree where their values do (`AddsAgree`) and that a row
appended adds its own amount (`SumAppend`, `RowAdds`) is proved for every ledger by induction
on its length. The induction theorems of the library take a predicate as a parameter, which
no installed prover instantiates; `SetInduction` says the same of a set of numbers and rests
on `WFMin`. Rates are natural numbers (`ValidPrice`, which `ValidSettings` demands of a
deployment, as the code refuses a negative or infinite rate at start-up), counted in a unit
small enough for the deployment's decimal rates to be whole.

Every safety property of a passing run is stated by a theorem. Only model-checked: `TurnsEnd`,
as liveness under fairness is out of the prover's reach. No theorem speaks of the delays of
`NextRetryAt`, whose exponentiation no prover knows: `ToldIsTrue` holds whatever they are. No
module declares a recursive operator.

## 9. Findings

Each is a run that TLC ends with a counterexample.

1. `turns_lost_event`, `DuplicatesWereHandled`: the receipt of an inbound event is committed
   before the event is handled and never released. When the handling fails, the provider's
   retry is acknowledged as a duplicate and the message is lost.
2. `turns_run_twice`, `StoredOnce`: the reload after the commit of a keyed turn's message fails
   in a session that goes on working (the pool's timeout, a busy SQLite). The receipt is
   discarded although the message is stored, and a repetition with the same key stores it
   again.
3. `upkeep_cleanup`, `CleanupSucceeds`: the cleanup of expired actions deletes rows that
   audit events still reference. Where foreign keys are enforced (PostgreSQL) it fails as soon
   as one action has lapsed; the tests run on SQLite, which does not enforce them.

## 10. Not modelled

`PROJECT.json` gives the reason for each component; in short:

* Text: prompts, agents, language policy, quality rules, briefs and outreach. They have no
  state; the modules see them as an answer or a failure, the handoff policy as its reason.
* `core/event_dispatcher.py`: subscription lists that only the tests use.
* Read-only aggregations: health, operational summary, runtime readiness, execution trace,
  lists with filters and paging. They change nothing and promise no consistency between
  their queries; readiness, status, timeline and state history of an action are modelled,
  since the requests that follow are expected to agree with them. Except for the timeline
  the queries of one endpoint are one step.
* Schemas, settings, console and WhatsApp channels, legacy re-exports.
* Inside modelled components: communication preferences, headers of a development context,
  the type errors of a business event, the adapter's lack of a capability, the size of the
  connection pool (a reload may fail at any time instead).

Hazards without a property, because the code lets them happen and no line promises
otherwise: a reply awaited while a handoff opens or another turn of the lead is stored is kept;
overlapping deliveries overwrite the action's row and pass the attempt limit; a retry sends
what expired or was rejected after a failure; a request or an event that was admitted is
finished although its user, account or secret is withdrawn meanwhile. The models have these
behaviours, and the properties are worded around them. All modules that the inventory calls for are written, and their safety properties
are proved.
