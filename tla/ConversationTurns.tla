-------------------------- MODULE ConversationTurns --------------------------
(***************************************************************************)
(* Customer turns of one lead: direct API turns with an optional           *)
(* Idempotency-Key (direct_conversation_turn_idempotency.py), inbound      *)
(* integration events with an optional event identifier                    *)
(* (inbound_integrations.py), the turn that both run                       *)
(* (conversation_turn_service.py) and the human handoff.                   *)
(*                                                                         *)
(* Turns are coroutines of one event loop: a turn keeps the loop through   *)
(* all its database calls, which block, and gives it up only while it      *)
(* awaits the language model.  Each commit is a step, because the process  *)
(* may die between two of them and because a handoff is resolved by a      *)
(* synchronous endpoint, in a thread of its own.                           *)
(***************************************************************************)
EXTENDS Naturals, Sequences, FiniteSets

CONSTANTS
    Turns,                  \* the HTTP requests that may ever be made
    DirectKeys,             \* idempotency keys of direct turns
    EventIds,               \* identifiers of inbound events
    NoKey,                  \* the optional header is absent
    Contents,               \* what a customer may write (channel and message)
    Reasons,                \* why a human must take over
    NoReason, NoTurn, NoReceipt,
    SessionSurvivesReload   \* may a session go on after the SELECT that
                            \* follows a commit has failed?

ASSUME TurnAssumptions ==
    /\ NoTurn \notin Turns
    /\ NoReason \notin Reasons
    /\ DirectKeys \cap EventIds = {}
    /\ NoKey \notin DirectKeys \cup EventIds
    /\ NoReceipt \notin [owner : Turns, content : Contents, reply : Turns \cup {NoTurn}]
    /\ SessionSurvivesReload \in BOOLEAN

VARIABLES
    receipts,    \* DirectConversationTurnReceipt row of each key
    events,      \* InboundIntegrationEventReceipt row of each event: who made it
    handoffs,    \* SalesConversationHandoff rows in the order of creation
    heard,       \* turns whose customer message is stored
    replied,     \* turns whose reply is stored, as an approval or a message
    request,     \* what each turn was asked
    decision,    \* why the turn hands over to a human, if it does
    pc,          \* how far each turn is
    answer       \* the turn whose reply the client was given

tables == <<receipts, events, handoffs, heard, replied>>
vars == <<tables, request, decision, pc, answer>>

-----------------------------------------------------------------------------
(* Requests, receipts and the event loop.                                  *)

(* An inbound event never carries a handoff signal; for a direct turn they *)
(* are set by the application, not by the HTTP body.                       *)
TurnRequests ==
    {q \in [key     : DirectKeys \cup EventIds \cup {NoKey},
            content : Contents,
            signal  : Reasons \cup {NoReason}] : q.key \in EventIds => q.signal = NoReason}

(* The receipt of a direct turn; "reply" is what complete fills in.        *)
Receipt == [owner : Turns, content : Contents, reply : Turns \cup {NoTurn}]

Handoff == [reason : Reasons, active : BOOLEAN, by : Turns]

OnLoop == {"reserve", "decide", "ensure", "insert", "inbound", "reply", "complete", "discard"}

InFlight == OnLoop \cup {"calling"}

Ended == {"replayed", "conflict", "duplicate", "done", "failed", "lost"}

Keyed(t) == request[t].key \in DirectKeys

LoopFreeForAnyone == TRUE                \* faulty: blocking calls in threads

LoopFreeUnlessCalling ==                 \* faulty: the call to the model blocks
    \A t \in Turns : pc[t] \notin InFlight

LoopFree == \A t \in Turns : pc[t] \notin OnLoop

SameTurnByKey(t) == TRUE                 \* faulty: the fingerprint is not compared

(* request_fingerprint covers the channel and the message.                 *)
SameTurn(t) == receipts[request[t].key].content = request[t].content

ActiveHandoffs == {i \in DOMAIN handoffs : handoffs[i].active}

-----------------------------------------------------------------------------
Init ==
    /\ receipts = [k \in DirectKeys |-> NoReceipt]
    /\ events = [e \in EventIds |-> NoTurn]
    /\ handoffs = << >>
    /\ heard = {} /\ replied = {}
    /\ request \in [Turns -> {q \in TurnRequests : q.key = NoKey /\ q.signal = NoReason}]
    /\ decision = [t \in Turns |-> NoReason]
    /\ pc = [t \in Turns |-> "new"]
    /\ answer = [t \in Turns |-> NoTurn]

Goto(t, phase) == pc' = [pc EXCEPT ![t] = phase]

(* Where an exception inside the turn ends: a keyed direct turn gives its  *)
(* reservation back, the others just fail.                                 *)
Unwind(t) == IF Keyed(t) THEN "discard" ELSE "failed"

(* A write is committed and its row read back.  When that read fails and   *)
(* takes the session with it, the turn ends; when the session survives (no *)
(* connection was free, SQLite was busy), the exception unwinds the turn.  *)
Committed(t, phase) ==
    \/ Goto(t, phase)
    \/ Goto(t, "failed")
    \/ SessionSurvivesReload /\ Goto(t, Unwind(t))

(* The request arrives.                                                    *)
Arrive(t, q) ==
    /\ pc[t] = "new" /\ LoopFree
    /\ request' = [request EXCEPT ![t] = q]
    /\ Goto(t, IF q.key = NoKey THEN "decide" ELSE "reserve")
    /\ UNCHANGED <<tables, decision, answer>>

(* faulty: a retry takes an unfinished receipt over                        *)
ReserveTakingOver(t) ==
    /\ pc[t] = "reserve" /\ Keyed(t)
    /\ receipts[request[t].key] # NoReceipt => receipts[request[t].key].reply = NoTurn
    /\ receipts' = [receipts EXCEPT ![request[t].key] =
                       [owner |-> t, content |-> request[t].content, reply |-> NoTurn]]
    /\ Goto(t, "decide") \/ Goto(t, "failed")
    /\ UNCHANGED <<events, handoffs, heard, replied, request, decision, answer>>

(* reserve_direct_conversation_turn_receipt inserts and commits.           *)
Reserve(t) ==
    /\ pc[t] = "reserve" /\ Keyed(t)
    /\ receipts[request[t].key] = NoReceipt
    /\ receipts' = [receipts EXCEPT ![request[t].key] =
                       [owner |-> t, content |-> request[t].content, reply |-> NoTurn]]
    /\ Goto(t, "decide") \/ Goto(t, "failed")
    /\ UNCHANGED <<events, handoffs, heard, replied, request, decision, answer>>

(* The unique constraint rejects the insert; the existing row decides.     *)
ReplayOrRaise(t) ==
    /\ pc[t] = "reserve" /\ Keyed(t)
    /\ receipts[request[t].key] # NoReceipt
    /\ \/ /\ ~SameTurn(t) \/ receipts[request[t].key].reply = NoTurn
          /\ Goto(t, "conflict")
          /\ UNCHANGED answer
       \/ /\ SameTurn(t) /\ receipts[request[t].key].reply # NoTurn
          /\ answer' = [answer EXCEPT ![t] = receipts[request[t].key].reply]
          /\ Goto(t, "replayed")
    /\ UNCHANGED <<tables, request, decision>>

(* faulty: the event is handled without a stored receipt                   *)
ReserveEventUnstored(t) ==
    /\ pc[t] = "reserve" /\ request[t].key \in EventIds
    /\ Goto(t, IF events[request[t].key] = NoTurn THEN "decide" ELSE "duplicate")
    /\ UNCHANGED <<tables, request, decision, answer>>

(* reserve_event: the first delivery stores its receipt, a repeated one is *)
(* acknowledged as a duplicate whatever became of the first.               *)
ReserveEvent(t) ==
    /\ pc[t] = "reserve" /\ request[t].key \in EventIds
    /\ \/ /\ events[request[t].key] = NoTurn
          /\ events' = [events EXCEPT ![request[t].key] = t]
          /\ Goto(t, "decide") \/ Goto(t, "failed")
       \/ /\ events[request[t].key] # NoTurn
          /\ Goto(t, "duplicate")
          /\ UNCHANGED events
    /\ UNCHANGED <<receipts, handoffs, heard, replied, request, decision, answer>>

(* _handoff_decision: an active handoff, else the signals; without either  *)
(* the model is called and the loop is free for others.                    *)
Decide(t) ==
    /\ pc[t] = "decide"
    /\ \/ \E i \in ActiveHandoffs :
             /\ decision' = [decision EXCEPT ![t] = handoffs[i].reason]
             /\ Goto(t, "ensure")
       \/ /\ ActiveHandoffs = {}
          /\ decision' = [decision EXCEPT ![t] = request[t].signal]
          /\ Goto(t, IF request[t].signal = NoReason THEN "calling" ELSE "ensure")
    /\ UNCHANGED <<tables, request, answer>>

(* ensure_sales_handoff looks for an active handoff once more ...          *)
EnsureHandoff(t) ==
    /\ pc[t] = "ensure"
    /\ Goto(t, IF ActiveHandoffs = {} THEN "insert" ELSE "inbound")
    /\ UNCHANGED <<tables, request, decision, answer>>

(* faulty: the handoff is given the reason of the request's signals        *)
NewHandoffFromSignal(t) == [reason |-> request[t].signal, active |-> TRUE, by |-> t]

NewHandoff(t) == [reason |-> decision[t], active |-> TRUE, by |-> t]

(* ... and inserts one if it found none.                                   *)
InsertHandoff(t) ==
    /\ pc[t] = "insert"
    /\ handoffs' = Append(handoffs, NewHandoff(t))
    /\ Committed(t, "inbound")
    /\ UNCHANGED <<receipts, events, heard, replied, request, decision, answer>>

(* The model answers and the usage row is recorded; the turn goes on when  *)
(* the loop is free again.                                                 *)
ModelAnswers(t) ==
    /\ pc[t] = "calling" /\ LoopFree
    /\ Goto(t, "inbound")
    /\ UNCHANGED <<tables, request, decision, answer>>

(* The workspace limit blocks the call, the provider fails or times out,   *)
(* or the usage row cannot be stored and is rolled back.                   *)
ModelFails(t) ==
    /\ pc[t] = "calling" /\ LoopFree
    /\ Goto(t, Unwind(t))
    /\ UNCHANGED <<tables, request, decision, answer>>

(* add_message of the customer's message.                                  *)
StoreInbound(t) ==
    /\ pc[t] = "inbound"
    /\ heard' = heard \cup {t}
    /\ Committed(t, "reply")
    /\ UNCHANGED <<receipts, events, handoffs, replied, request, decision, answer>>

(* create_approval, or add_message of the reply; without a key the turn is *)
(* over and the client has its answer.                                     *)
StoreReply(t) ==
    /\ pc[t] = "reply"
    /\ replied' = replied \cup {t}
    /\ answer' = [answer EXCEPT ![t] = IF Keyed(t) THEN @ ELSE t]
    /\ Committed(t, IF Keyed(t) THEN "complete" ELSE "done")
    /\ UNCHANGED <<receipts, events, handoffs, heard, request, decision>>

(* faulty: completion inside the try, so that its failure discards         *)
CompleteInsideTry(t) ==
    /\ pc[t] = "complete"
    /\ receipts' = [receipts EXCEPT ![request[t].key].reply = t]
    /\ answer' = [answer EXCEPT ![t] = t]
    /\ Committed(t, "done")
    /\ UNCHANGED <<events, handoffs, heard, replied, request, decision>>

(* complete_direct_conversation_turn_receipt, outside the try.             *)
Complete(t) ==
    /\ pc[t] = "complete"
    /\ receipts' = [receipts EXCEPT ![request[t].key].reply = t]
    /\ \/ Goto(t, "done") /\ answer' = [answer EXCEPT ![t] = t]
       \/ Goto(t, "failed") /\ UNCHANGED answer
    /\ UNCHANGED <<events, handoffs, heard, replied, request, decision>>

(* discard_direct_conversation_turn_receipt.                               *)
Discard(t) ==
    /\ pc[t] = "discard"
    /\ receipts' = [receipts EXCEPT ![request[t].key] = NoReceipt]
    /\ Goto(t, "failed")
    /\ UNCHANGED <<events, handoffs, heard, replied, request, decision, answer>>

(* The database refuses a write.  The session is not rolled back, so the   *)
(* delete that should release the reservation raises too.                  *)
WriteFails(t) ==
    /\ pc[t] \in {"reserve", "insert", "inbound", "reply", "complete", "discard"}
    /\ Goto(t, "failed")
    /\ UNCHANGED <<tables, request, decision, answer>>

(* resolve_sales_handoff, in a thread of its own.                          *)
Resolve(i) ==
    /\ handoffs[i].active
    /\ handoffs' = [handoffs EXCEPT ![i].active = FALSE]
    /\ UNCHANGED <<receipts, events, heard, replied, request, decision, pc, answer>>

(* The process dies with every turn in flight, and is started again.       *)
Crash ==
    /\ \E t \in Turns : pc[t] \in InFlight
    /\ pc' = [t \in Turns |-> IF pc[t] \in InFlight THEN "lost" ELSE pc[t]]
    /\ UNCHANGED <<tables, request, decision, answer>>

TurnStep(t) ==
    \/ Reserve(t)
    \/ ReplayOrRaise(t)
    \/ ReserveEvent(t)
    \/ Decide(t)
    \/ EnsureHandoff(t)
    \/ InsertHandoff(t)
    \/ ModelAnswers(t)
    \/ ModelFails(t)
    \/ StoreInbound(t)
    \/ StoreReply(t)
    \/ Complete(t)
    \/ Discard(t)
    \/ WriteFails(t)

Next ==
    \/ \E t \in Turns : (\E q \in TurnRequests : Arrive(t, q)) \/ TurnStep(t)
    \/ \E i \in DOMAIN handoffs : Resolve(i)
    \/ Crash

Spec == Init /\ [][Next]_vars

(* The loop runs every coroutine that is ready, a database call returns or *)
(* raises, and the call to the model has a timeout (llm_timeout_seconds).  *)
FairSpec == Spec /\ \A t \in Turns : WF_vars(TurnStep(t))

-----------------------------------------------------------------------------
(* Properties.                                                             *)

(* Every variable has its type.                                            *)
TypeOK ==
    /\ receipts \in [DirectKeys -> Receipt \cup {NoReceipt}]
    /\ events \in [EventIds -> Turns \cup {NoTurn}]
    /\ handoffs \in Seq(Handoff)
    /\ heard \subseteq Turns /\ replied \subseteq Turns
    /\ request \in [Turns -> TurnRequests]
    /\ decision \in [Turns -> Reasons \cup {NoReason}]
    /\ pc \in [Turns -> {"new"} \cup InFlight \cup Ended]
    /\ answer \in [Turns -> Turns \cup {NoTurn}]

SameKey(t, u) == request[t].key = request[u].key

(* The turn failed and its session survived, so it may have given its key  *)
(* back although it had stored something.                                  *)
GivenUp(t) == SessionSurvivesReload /\ pc[t] = "failed"

(* However often a client repeats a direct turn with one key, and whatever *)
(* fails or dies on the way, a second turn stores something under the key  *)
(* only beside one that failed in a session that went on working; of the   *)
(* turns that succeed, crash, are in flight or lose their session, one at  *)
(* most stores its message and its reply                                   *)
(* (DirectSalesConversationTurnService.process).                           *)
KeysRunOnce ==
    \A t, u \in Turns : (t # u /\ Keyed(t) /\ SameKey(t, u) /\ {t, u} \subseteq heard) =>
        GivenUp(t) \/ GivenUp(u)

(* An inbound event is stored and answered at most once, however often the *)
(* provider delivers it (InboundIntegrationService.reserve_event).         *)
EventsRunOnce ==
    \A t, u \in Turns : request[t].key \in EventIds /\ SameKey(t, u) =>
        /\ {t, u} \subseteq heard => t = u
        /\ {t, u} \subseteq replied => t = u

(* A client that is given a stored outcome is given the reply of a turn    *)
(* that was asked the same under the same key and stored all it did        *)
(* (_replay_or_raise).                                                     *)
ReplaysAreCanonical ==
    \A t \in Turns : pc[t] = "replayed" =>
        /\ answer[t] \in heard \cap replied
        /\ SameKey(t, answer[t])
        /\ request[t].content = request[answer[t]].content

(* A completed receipt keeps its outcome for ever: no failure of the turn  *)
(* that completed it, and no later turn, takes it away                     *)
(* (complete_direct_conversation_turn_receipt).                            *)
IsCompleted(k) == receipts[k] # NoReceipt /\ receipts[k].reply # NoTurn

CompletedIsFinal ==
    [][\A k \in DirectKeys : IsCompleted(k) => receipts'[k] = receipts[k]]_vars

(* A keyed direct turn as TurnLedger sees it.                              *)
OfKeyed(turns) == {t \in turns : Keyed(t)}

KeyAsked == [t \in Turns |-> IF Keyed(t) THEN request[t].key ELSE NoKey]

ContentAsked == [t \in Turns |-> request[t].content]

Holder == [k \in DirectKeys |-> IF receipts[k] = NoReceipt THEN NoTurn ELSE receipts[k].owner]

Outcome == [k \in DirectKeys |-> IF receipts[k] = NoReceipt THEN NoTurn ELSE receipts[k].reply]

Given == [t \in Turns |-> IF Keyed(t) THEN answer[t] ELSE NoTurn]

Ledger == INSTANCE TurnLedger WITH
    Keys <- DirectKeys, None <- NoTurn, Forgetful <- SessionSurvivesReload,
    key <- KeyAsked, content <- ContentAsked, holder <- Holder, outcome <- Outcome,
    heard <- OfKeyed(heard), replied <- OfKeyed(replied), given <- Given

(* Repeating a direct turn is safe in the sense of TurnLedger: the receipt *)
(* of a key has one turn at a time, is given back only with nothing stored *)
(* (unless sessions survive a failed reload), and its outcome, once it is  *)
(* there, is what every repetition gets                                    *)
(* (DirectSalesConversationTurnService.process).                           *)
ImplementsLedger == Ledger!LedgerSpec

(* A lead has at most one active handoff, although nothing in the schema   *)
(* says so and the check and the insert are two steps                      *)
(* (ensure_sales_handoff).                                                 *)
OneActiveHandoff == Cardinality(ActiveHandoffs) <= 1

(* Every turn that arrives ends, unless the process dies: no turn waits    *)
(* for ever for the event loop (AIInvocationGateway.invoke).               *)
TurnsEnd == \A t \in Turns : pc[t] \in InFlight ~> pc[t] \in Ended

-----------------------------------------------------------------------------
(* What the code's comments and tests say, and some execution breaks.      *)

(* An event that is acknowledged as a duplicate has been stored, or is     *)
(* still being handled (receive_inbound_event).                            *)
DuplicatesWereHandled ==
    \A t \in Turns : pc[t] = "duplicate" =>
        LET first == events[request[t].key]
        IN  first \in heard \/ pc[first] \in InFlight

(* A direct turn is run once for its key: no two turns of one key store    *)
(* the customer's message (DirectSalesConversationTurnService.process).    *)
StoredOnce ==
    \A t, u \in Turns : Keyed(t) /\ SameKey(t, u) /\ {t, u} \subseteq heard => t = u
=============================================================================
