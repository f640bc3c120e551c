----------------------- MODULE ConversationTurnsProofs -----------------------
(***************************************************************************)
(* Proofs about ConversationTurns, for any set of turns, keys, events,     *)
(* contents and reasons.                                                   *)
(***************************************************************************)
EXTENDS ConversationTurns, FiniteSetTheorems, TLAPS

-----------------------------------------------------------------------------
(* The inductive invariant.                                                *)

(* One turn at a time has the event loop.                                  *)
LoopInv == \A t, u \in Turns : pc[t] \in OnLoop /\ pc[u] \in OnLoop => t = u

Unheard == {"new", "reserve", "decide", "ensure", "insert", "calling", "inbound"}

Reserved == {"decide", "ensure", "insert", "calling", "inbound", "reply", "complete", "discard"}

(* What a turn has stored by each of its phases.                           *)
StoredInv ==
    /\ replied \subseteq heard
    /\ \A t \in Turns :
          /\ pc[t] \in Unheard => t \notin heard
          /\ pc[t] = "reply" => t \in heard
          /\ pc[t] = "complete" => t \in replied
          /\ pc[t] \in {"complete", "discard"} => Keyed(t)

(* A turn past its reservation owns the receipt of its key, unfinished; a  *)
(* receipt tells what its owner was asked and, once completed, what its    *)
(* owner stored.                                                           *)
Owns(t) == /\ receipts[request[t].key] # NoReceipt
           /\ receipts[request[t].key].owner = t

HoldersOwn ==
    \A t \in Turns : Keyed(t) /\ pc[t] \in Reserved =>
        Owns(t) /\ receipts[request[t].key].reply = NoTurn

TrueReceipt(k, receipt) ==
    /\ receipt.owner \in Turns
    /\ pc[receipt.owner] # "new"
    /\ request[receipt.owner].key = k
    /\ request[receipt.owner].content = receipt.content
    /\ receipt.reply # NoTurn => receipt.reply = receipt.owner /\ receipt.owner \in replied

ReceiptsAreTrue ==
    \A k \in DirectKeys : receipts[k] # NoReceipt => TrueReceipt(k, receipts[k])

ReceiptInv == HoldersOwn /\ ReceiptsAreTrue

(* A turn looks for a handoff, and inserts one, for a reason.              *)
HandoffReasons == \A t \in Turns : pc[t] \in {"ensure", "insert"} => decision[t] # NoReason

CoreInv == TypeOK /\ LoopInv /\ StoredInv /\ ReceiptInv /\ HandoffReasons

(* Whatever is stored for an event was stored by the turn that reserved it.*)
EventInv ==
    \A t \in Turns : request[t].key \in EventIds /\ (t \in heard \/ pc[t] \in Reserved) =>
        events[request[t].key] = t

(* A turn that stored something keeps the receipt of its key, unless it    *)
(* failed in a session that survived; in no other session is a receipt     *)
(* given back after something was stored.                                  *)
KeyInv ==
    \A t \in Turns :
       /\ Keyed(t) /\ t \in heard => Owns(t) \/ GivenUp(t)
       /\ pc[t] = "discard" => t \notin heard \/ SessionSurvivesReload

(* A turn about to insert a handoff has seen that there is none, and since *)
(* it has kept the loop nobody has inserted one.                           *)
HandoffInv ==
    /\ \A i, j \in ActiveHandoffs : i = j
    /\ \A t \in Turns : pc[t] = "insert" => ActiveHandoffs = {}

-----------------------------------------------------------------------------
LEMMA InitCore == Init => CoreInv
<1>1. Init => TypeOK
  BY DEF Init, TypeOK, InFlight, Ended, OnLoop
<1>2. Init => LoopInv /\ StoredInv /\ HandoffReasons
  BY DEF Init, LoopInv, StoredInv, HandoffReasons, OnLoop
<1>3. Init => ReceiptInv
  BY DEF Init, ReceiptInv, HoldersOwn, ReceiptsAreTrue, Owns, Reserved
<1> QED
  BY <1>1, <1>2, <1>3 DEF CoreInv

(* A new handoff, built when a turn is about to insert it, is a row.       *)
LEMMA HandoffsAreRows ==
    ASSUME TypeOK, NEW t \in Turns, decision[t] # NoReason
    PROVE  NewHandoff(t) \in Handoff
BY DEF TypeOK, NewHandoff, Handoff

(* Type correctness is preserved by every action.                          *)
LEMMA TypeStep ==
    ASSUME CoreInv, [Next]_vars
    PROVE  TypeOK'
<1> USE DEF tables, Goto, OnLoop, InFlight, Ended
<1>0. TypeOK
  BY DEF CoreInv
<1>1. ASSUME NEW t \in Turns, NEW q \in TurnRequests, Arrive(t, q)
      PROVE  TypeOK'
  BY <1>0, <1>1 DEF Arrive, TypeOK
<1>2. ASSUME NEW t \in Turns, TurnStep(t)
      PROVE  TypeOK'
  <2>0. Unwind(t) \in {"discard", "failed"} /\ request[t] \in TurnRequests
    BY <1>0 DEF Unwind, TypeOK
  <2>1. CASE Reserve(t)
    BY <1>0, <2>0, <2>1 DEF Reserve, TypeOK, Receipt, Keyed, TurnRequests
  <2>2. CASE ReplayOrRaise(t)
    BY <1>0, <2>0, <2>2 DEF ReplayOrRaise, TypeOK, Receipt, Keyed, TurnRequests
  <2>3. CASE ReserveEvent(t)
    BY <1>0, <2>3 DEF ReserveEvent, TypeOK
  <2>4. CASE Decide(t)
    <3>1. CASE ActiveHandoffs = {}
      BY <1>0, <2>0, <2>4, <3>1 DEF Decide, TypeOK, TurnRequests
    <3>2. ASSUME NEW i \in ActiveHandoffs, decision' = [decision EXCEPT ![t] = handoffs[i].reason],
                 Goto(t, "ensure")
          PROVE  TypeOK'
      <4>1. handoffs[i] \in Handoff
        BY <1>0, <3>2 DEF ActiveHandoffs, TypeOK
      <4>2. handoffs[i].reason \in Reasons
        BY <4>1 DEF Handoff
      <4> QED
        BY <1>0, <2>4, <3>2, <4>2 DEF Decide, TypeOK
    <3> QED
      BY <2>4, <3>1, <3>2 DEF Decide
  <2>5. CASE EnsureHandoff(t)
    BY <1>0, <2>5 DEF EnsureHandoff, TypeOK
  <2>6. CASE InsertHandoff(t)
    <3>1. NewHandoff(t) \in Handoff
      BY <1>0, <2>6, HandoffsAreRows DEF InsertHandoff, HandoffReasons, CoreInv
    <3> QED
      BY <1>0, <2>0, <2>6, <3>1 DEF InsertHandoff, Committed, TypeOK
  <2>7. CASE ModelAnswers(t) \/ ModelFails(t) \/ WriteFails(t)
    BY <1>0, <2>0, <2>7 DEF ModelAnswers, ModelFails, WriteFails, TypeOK
  <2>8. CASE StoreInbound(t)
    BY <1>0, <2>0, <2>8 DEF StoreInbound, Committed, TypeOK
  <2>9. CASE StoreReply(t)
    BY <1>0, <2>0, <2>9 DEF StoreReply, Committed, TypeOK
  <2>10. CASE Complete(t)
    <3>1. Owns(t) /\ request[t].key \in DirectKeys
      BY <2>10 DEF CoreInv, StoredInv, ReceiptInv, HoldersOwn, Reserved, Keyed, Complete
    <3>2. [receipts[request[t].key] EXCEPT !.reply = t] \in Receipt
      BY <1>0, <3>1 DEF TypeOK, Owns, Receipt
    <3> QED
      BY <1>0, <2>10, <3>1, <3>2 DEF Complete, TypeOK
  <2>11. CASE Discard(t)
    BY <1>0, <2>11 DEF Discard, TypeOK
  <2> QED
    BY <1>2, <2>1, <2>2, <2>3, <2>4, <2>5, <2>6, <2>7, <2>8, <2>9, <2>10, <2>11 DEF TurnStep
<1>3. ASSUME NEW i \in DOMAIN handoffs, Resolve(i)
      PROVE  TypeOK'
  <2>0. handoffs[i] \in Handoff
    BY <1>0, <1>3 DEF TypeOK
  <2>1. [handoffs[i] EXCEPT !.active = FALSE] \in Handoff
    BY <2>0 DEF Handoff
  <2>2. handoffs' \in Seq(Handoff)
    BY <1>0, <1>3, <2>1 DEF Resolve, TypeOK
  <2> QED
    BY <1>0, <1>3, <2>2 DEF Resolve, TypeOK
<1>4. CASE Crash
  BY <1>0, <1>4 DEF Crash, TypeOK
<1>5. CASE UNCHANGED vars
  BY <1>0, <1>5 DEF vars, TypeOK
<1> QED
  BY <1>1, <1>2, <1>3, <1>4, <1>5 DEF Next

(* A step of a turn moves that turn only, and needs the event loop.        *)
LEMMA TurnMoves ==
    ASSUME TypeOK, NEW t \in Turns, TurnStep(t)
    PROVE  /\ request' = request
           /\ \A u \in Turns \ {t} : pc'[u] = pc[u]
           /\ pc'[t] \in InFlight \cup Ended
           /\ pc[t] \in OnLoop \/ LoopFree
<1> USE DEF tables, Goto, OnLoop, InFlight, Ended, TypeOK, Committed, Unwind
<1>1. CASE Reserve(t) \/ ReplayOrRaise(t) \/ ReserveEvent(t)
  BY <1>1 DEF Reserve, ReplayOrRaise, ReserveEvent
<1>2. CASE Decide(t) \/ EnsureHandoff(t) \/ InsertHandoff(t)
  BY <1>2 DEF Decide, EnsureHandoff, InsertHandoff
<1>3. CASE ModelAnswers(t) \/ ModelFails(t) \/ WriteFails(t)
  BY <1>3 DEF ModelAnswers, ModelFails, WriteFails
<1>4. CASE StoreInbound(t) \/ StoreReply(t)
  BY <1>4 DEF StoreInbound, StoreReply
<1>5. CASE Complete(t) \/ Discard(t)
  BY <1>5 DEF Complete, Discard
<1> QED
  BY <1>1, <1>2, <1>3, <1>4, <1>5 DEF TurnStep

(* Resolve and Crash leave the turns' requests alone; Crash ends turns.    *)
LEMMA OthersMove ==
    ASSUME TypeOK, (\E i \in DOMAIN handoffs : Resolve(i)) \/ Crash \/ UNCHANGED vars
    PROVE  /\ UNCHANGED <<receipts, events, heard, replied, request, decision, answer>>
           /\ \A t \in Turns : pc'[t] = pc[t] \/ pc'[t] = "lost"
<1>1. CASE \E i \in DOMAIN handoffs : Resolve(i)
  BY <1>1 DEF Resolve
<1>2. CASE Crash
  BY <1>2 DEF Crash, tables, TypeOK
<1>3. CASE UNCHANGED vars
  BY <1>3 DEF vars, tables
<1> QED
  BY <1>1, <1>2, <1>3

(* The event loop is never shared.                                         *)
LEMMA LoopStep ==
    ASSUME CoreInv, [Next]_vars
    PROVE  LoopInv'
<1>0. TypeOK /\ LoopInv
  BY DEF CoreInv
<1>1. ASSUME NEW t \in Turns, NEW q \in TurnRequests, Arrive(t, q)
      PROVE  LoopInv'
  BY <1>0, <1>1 DEF Arrive, LoopInv, LoopFree, TypeOK, Goto
<1>2. ASSUME NEW t \in Turns, TurnStep(t)
      PROVE  LoopInv'
  BY <1>0, <1>2, TurnMoves DEF LoopInv, LoopFree
<1>3. CASE (\E i \in DOMAIN handoffs : Resolve(i)) \/ Crash \/ UNCHANGED vars
  BY <1>0, <1>3, OthersMove DEF LoopInv, OnLoop
<1> QED
  BY <1>1, <1>2, <1>3 DEF Next

(* What a turn has stored agrees with its phase.                           *)
LEMMA StoredStep ==
    ASSUME CoreInv, [Next]_vars
    PROVE  StoredInv'
<1> USE DEF Goto, Unheard
<1>0. TypeOK /\ StoredInv
  BY DEF CoreInv
<1>1. ASSUME NEW t \in Turns, NEW q \in TurnRequests, Arrive(t, q)
      PROVE  StoredInv'
  BY <1>0, <1>1 DEF Arrive, StoredInv, TypeOK, tables, Keyed
<1>2. ASSUME NEW t \in Turns, TurnStep(t)
      PROVE  StoredInv'
  <2> USE DEF tables, TypeOK, StoredInv, Keyed
  <2>1. CASE Reserve(t) \/ ReplayOrRaise(t) \/ ReserveEvent(t)
    BY <1>0, <2>1 DEF Reserve, ReplayOrRaise, ReserveEvent
  <2>2. CASE Decide(t) \/ EnsureHandoff(t)
    BY <1>0, <2>2 DEF Decide, EnsureHandoff
  <2>3. CASE InsertHandoff(t)
    BY <1>0, <2>3 DEF InsertHandoff, Committed, Unwind
  <2>4. CASE ModelAnswers(t) \/ ModelFails(t) \/ WriteFails(t)
    BY <1>0, <2>4 DEF ModelAnswers, ModelFails, WriteFails, Unwind
  <2>5. CASE StoreInbound(t)
    BY <1>0, <2>5 DEF StoreInbound, Committed, Unwind
  <2>6. CASE StoreReply(t)
    BY <1>0, <2>6 DEF StoreReply, Committed, Unwind
  <2>7. CASE Complete(t) \/ Discard(t)
    BY <1>0, <2>7 DEF Complete, Discard
  <2> QED
    BY <1>2, <2>1, <2>2, <2>3, <2>4, <2>5, <2>6, <2>7 DEF TurnStep
<1>3. CASE (\E i \in DOMAIN handoffs : Resolve(i)) \/ Crash \/ UNCHANGED vars
  BY <1>0, <1>3, OthersMove DEF StoredInv, Keyed
<1> QED
  BY <1>1, <1>2, <1>3 DEF Next

(* Whoever looks for a handoff has a reason.                               *)
LEMMA ReasonsStep ==
    ASSUME CoreInv, [Next]_vars
    PROVE  HandoffReasons'
<1>0. TypeOK /\ HandoffReasons
  BY DEF CoreInv
<1>1. ASSUME NEW t \in Turns, NEW q \in TurnRequests, Arrive(t, q)
      PROVE  HandoffReasons'
  BY <1>0, <1>1 DEF Arrive, HandoffReasons, TypeOK, Goto
<1>2. ASSUME NEW t \in Turns, TurnStep(t)
      PROVE  HandoffReasons'
  <2>1. CASE Decide(t)
    <3>1. \A i \in ActiveHandoffs : handoffs[i] \in Handoff
      BY <1>0 DEF TypeOK, ActiveHandoffs
    <3>2. \A i \in ActiveHandoffs : handoffs[i].reason # NoReason
      BY <3>1, TurnAssumptions DEF Handoff
    <3> QED
      BY <1>0, <2>1, <3>2 DEF Decide, HandoffReasons, TypeOK, Goto
  <2>2. CASE EnsureHandoff(t)
    BY <1>0, <2>2 DEF EnsureHandoff, HandoffReasons, TypeOK, Goto
  <2>3. CASE ~Decide(t) /\ ~EnsureHandoff(t)
    <3>1. decision' = decision /\ pc'[t] \notin {"ensure", "insert"}
      BY <1>0, <1>2, <2>3 DEF TurnStep, Reserve, ReplayOrRaise, ReserveEvent, InsertHandoff, ModelAnswers,
         ModelFails, WriteFails, StoreInbound, StoreReply, Complete, Discard, Committed, Unwind, TypeOK, Goto
    <3> QED
      BY <1>0, <1>2, <3>1, TurnMoves DEF HandoffReasons
  <2> QED
    BY <2>1, <2>2, <2>3
<1>3. CASE (\E i \in DOMAIN handoffs : Resolve(i)) \/ Crash \/ UNCHANGED vars
  BY <1>0, <1>3, OthersMove DEF HandoffReasons
<1> QED
  BY <1>1, <1>2, <1>3 DEF Next

(* Receipts belong to the turns that hold them.                            *)
LEMMA ReceiptStep ==
    ASSUME CoreInv, [Next]_vars
    PROVE  ReceiptInv'
<1> USE DEF Reserved
<1>0. TypeOK /\ StoredInv /\ HoldersOwn /\ ReceiptsAreTrue
  BY DEF CoreInv, ReceiptInv
<1>1. ASSUME NEW t \in Turns, NEW q \in TurnRequests, Arrive(t, q)
      PROVE  ReceiptInv'
  <2>1. /\ receipts' = receipts /\ replied' = replied
        /\ pc[t] = "new" /\ pc'[t] \in {"decide", "reserve"}
        /\ pc'[t] = "decide" => q.key = NoKey
        /\ request'[t] = q
        /\ \A u \in Turns \ {t} : pc'[u] = pc[u] /\ request'[u] = request[u]
    BY <1>0, <1>1 DEF Arrive, tables, Goto, TypeOK
  <2>2. HoldersOwn'
    BY <1>0, <2>1, TurnAssumptions DEF HoldersOwn, Keyed, Owns
  <2>3. ReceiptsAreTrue'
    BY <1>0, <2>1 DEF ReceiptsAreTrue, TrueReceipt
  <2> QED
    BY <2>2, <2>3 DEF ReceiptInv
<1>2. ASSUME NEW t \in Turns, TurnStep(t)
      PROVE  ReceiptInv'
  <2> DEFINE key == request[t].key
  <2>0. /\ request' = request
        /\ \A u \in Turns \ {t} : pc'[u] = pc[u]
        /\ pc'[t] # "new"
    BY <1>0, <1>2, TurnMoves DEF InFlight, OnLoop, Ended
  <2>1. CASE Reserve(t)
    <3>1. /\ Keyed(t) /\ key \in DirectKeys
          /\ receipts[key] = NoReceipt
          /\ receipts' = [receipts EXCEPT ![key] =
                             [owner |-> t, content |-> request[t].content, reply |-> NoTurn]]
          /\ replied' = replied
      BY <2>1 DEF Reserve, Keyed
    <3>2. [owner |-> t, content |-> request[t].content, reply |-> NoTurn] # NoReceipt
      BY <1>0, TurnAssumptions DEF TypeOK, TurnRequests
    <3>3. /\ receipts'[key] # NoReceipt
          /\ receipts'[key].owner = t
          /\ receipts'[key].content = request[t].content
          /\ receipts'[key].reply = NoTurn
          /\ \A k \in DirectKeys \ {key} : receipts'[k] = receipts[k]
      BY <1>0, <3>1, <3>2 DEF TypeOK
    <3>4. \A u \in Turns \ {t} : Keyed(u) /\ pc[u] \in Reserved => request[u].key # key
      BY <1>0, <3>1 DEF HoldersOwn, Owns
    <3>5. HoldersOwn'
      BY <1>0, <2>0, <3>3, <3>4 DEF HoldersOwn, Owns, Keyed
    <3>6. ReceiptsAreTrue'
      BY <1>0, <2>0, <3>1, <3>3 DEF ReceiptsAreTrue, TrueReceipt
    <3> QED
      BY <3>5, <3>6 DEF ReceiptInv
  <2>2. CASE Complete(t)
    <3>1. /\ Keyed(t) /\ Owns(t) /\ t \in replied /\ key \in DirectKeys
          /\ pc'[t] \notin Reserved
          /\ receipts' = [receipts EXCEPT ![key].reply = t]
          /\ replied' = replied
      BY <1>0, <2>2 DEF Complete, StoredInv, HoldersOwn, TypeOK, Goto, Keyed
    <3>2. \A u \in Turns \ {t} : Keyed(u) /\ pc[u] \in Reserved => request[u].key # key
      BY <1>0, <3>1 DEF HoldersOwn, Owns
    <3>3. receipts[key] \in Receipt /\ receipts[key].owner = t /\ TrueReceipt(key, receipts[key])
      BY <1>0, <3>1 DEF Owns, TypeOK, ReceiptsAreTrue
    <3>4. /\ receipts'[key] = [receipts[key] EXCEPT !.reply = t]
          /\ \A k \in DirectKeys \ {key} : receipts'[k] = receipts[k]
      BY <1>0, <3>1 DEF TypeOK
    <3>5. /\ receipts'[key].owner = t
          /\ receipts'[key].content = receipts[key].content
          /\ receipts'[key].reply = t
      BY <3>3, <3>4 DEF Receipt
    <3>6. HoldersOwn'
      BY <1>0, <2>0, <3>1, <3>2, <3>4 DEF HoldersOwn, Owns, Keyed
    <3>7. TrueReceipt(key, receipts[key])'
      BY <2>0, <3>1, <3>3, <3>5 DEF TrueReceipt
    <3>8. ReceiptsAreTrue'
      BY <1>0, <2>0, <3>1, <3>4, <3>7 DEF ReceiptsAreTrue, TrueReceipt
    <3> QED
      BY <3>6, <3>8 DEF ReceiptInv
  <2>3. CASE Discard(t)
    <3>1. /\ Keyed(t) /\ Owns(t) /\ key \in DirectKeys
          /\ pc'[t] \notin Reserved
          /\ receipts' = [receipts EXCEPT ![key] = NoReceipt]
          /\ replied' = replied
      BY <1>0, <2>3 DEF Discard, StoredInv, HoldersOwn, TypeOK, Goto, Keyed
    <3>2. \A u \in Turns \ {t} : Keyed(u) /\ pc[u] \in Reserved => request[u].key # key
      BY <1>0, <3>1 DEF HoldersOwn, Owns
    <3>3. receipts'[key] = NoReceipt /\ \A k \in DirectKeys \ {key} : receipts'[k] = receipts[k]
      BY <1>0, <3>1 DEF TypeOK
    <3>4. HoldersOwn'
      BY <1>0, <2>0, <3>1, <3>2, <3>3 DEF HoldersOwn, Owns, Keyed
    <3>5. ReceiptsAreTrue'
      BY <1>0, <2>0, <3>1, <3>3 DEF ReceiptsAreTrue, TrueReceipt
    <3> QED
      BY <3>4, <3>5 DEF ReceiptInv
  <2>4. CASE ~Reserve(t) /\ ~Complete(t) /\ ~Discard(t)
    <3>1. receipts' = receipts
      BY <1>2, <2>4 DEF TurnStep, ReplayOrRaise, ReserveEvent, Decide, EnsureHandoff, InsertHandoff,
         ModelAnswers, ModelFails, WriteFails, StoreInbound, StoreReply, tables
    <3>2. replied \subseteq replied'
      BY <1>2, <2>4 DEF TurnStep, ReplayOrRaise, ReserveEvent, Decide, EnsureHandoff, InsertHandoff,
         ModelAnswers, ModelFails, WriteFails, StoreInbound, StoreReply, tables
    <3>3. Keyed(t) /\ pc'[t] \in Reserved => pc[t] \in Reserved
      <4>1. CASE ReplayOrRaise(t) \/ ReserveEvent(t)
        BY <1>0, <4>1, TurnAssumptions DEF ReplayOrRaise, ReserveEvent, TypeOK, Goto, Keyed
      <4>2. CASE ~ReplayOrRaise(t) /\ ~ReserveEvent(t)
        BY <1>0, <1>2, <2>4, <4>2 DEF TurnStep, Decide, EnsureHandoff, InsertHandoff,
         ModelAnswers, ModelFails, WriteFails, StoreInbound, StoreReply, TypeOK, Goto
      <4> QED
        BY <4>1, <4>2
    <3>4. HoldersOwn'
      BY <1>0, <2>0, <3>1, <3>3 DEF HoldersOwn, Owns, Keyed
    <3>5. ReceiptsAreTrue'
      BY <1>0, <2>0, <3>1, <3>2 DEF ReceiptsAreTrue, TrueReceipt
    <3> QED
      BY <3>4, <3>5 DEF ReceiptInv
  <2> QED
    BY <2>1, <2>2, <2>3, <2>4
<1>3. CASE (\E i \in DOMAIN handoffs : Resolve(i)) \/ Crash \/ UNCHANGED vars
  <2>1. HoldersOwn'
    BY <1>0, <1>3, OthersMove DEF HoldersOwn, Owns, Keyed
  <2>2. ReceiptsAreTrue'
    BY <1>0, <1>3, OthersMove DEF ReceiptsAreTrue, TrueReceipt
  <2> QED
    BY <2>1, <2>2 DEF ReceiptInv
<1> QED
  BY <1>1, <1>2, <1>3 DEF Next

LEMMA CoreStep == CoreInv /\ [Next]_vars => CoreInv'
BY TypeStep, LoopStep, StoredStep, ReasonsStep, ReceiptStep DEF CoreInv

LEMMA CoreAlways == Spec => []CoreInv
BY InitCore, CoreStep, PTL DEF Spec

-----------------------------------------------------------------------------
(* Every execution is type correct.                                        *)
THEOREM TurnsAreTyped == Spec => []TypeOK
BY CoreAlways, PTL DEF CoreInv

(* What is stored, or may still be stored, for an event is the business of *)
(* the turn that reserved it.                                              *)
LEMMA EventStep ==
    ASSUME CoreInv, EventInv, [Next]_vars
    PROVE  EventInv'
<1> USE DEF Reserved
<1>0. TypeOK /\ StoredInv
  BY DEF CoreInv
<1>1. ASSUME NEW t \in Turns, NEW q \in TurnRequests, Arrive(t, q)
      PROVE  EventInv'
  BY <1>0, <1>1, TurnAssumptions DEF EventInv, Arrive, StoredInv, Unheard, tables, TypeOK, Goto
<1>2. ASSUME NEW t \in Turns, TurnStep(t)
      PROVE  EventInv'
  <2> DEFINE key == request[t].key
  <2>0. request' = request /\ \A u \in Turns \ {t} : pc'[u] = pc[u]
    BY <1>0, <1>2, TurnMoves
  <2>1. CASE Reserve(t) \/ ReplayOrRaise(t)
    <3>1. key \notin EventIds /\ events' = events /\ heard' = heard
      BY <2>1, TurnAssumptions DEF Reserve, ReplayOrRaise, Keyed, tables
    <3> QED
      BY <1>0, <2>0, <3>1 DEF EventInv
  <2>2. CASE ReserveEvent(t)
    <3>1. CASE events[key] # NoTurn
      BY <1>0, <2>0, <2>2, <3>1 DEF ReserveEvent, EventInv, TypeOK, Goto
    <3>2. CASE events[key] = NoTurn
      <4>1. key \in EventIds /\ events' = [events EXCEPT ![key] = t] /\ heard' = heard
        BY <2>2, <3>2 DEF ReserveEvent
      <4>2. \A u \in Turns : request[u].key = key => ~(u \in heard \/ pc[u] \in Reserved)
        BY <3>2, <4>1, TurnAssumptions DEF EventInv
      <4> QED
        BY <1>0, <2>0, <4>1, <4>2 DEF EventInv, TypeOK
    <3> QED
      BY <3>1, <3>2
  <2>3. CASE ~Reserve(t) /\ ~ReplayOrRaise(t) /\ ~ReserveEvent(t)
    <3>1. /\ events' = events
          /\ \/ pc[t] \in Reserved /\ heard' \in {heard, heard \cup {t}}
             \/ pc'[t] = "failed" /\ heard' = heard
      BY <1>2, <2>3, <1>0 DEF TurnStep, Decide, EnsureHandoff, InsertHandoff, ModelAnswers, ModelFails,
         WriteFails, StoreInbound, StoreReply, Complete, Discard, tables, TypeOK, Goto
    <3> QED
      BY <1>0, <2>0, <3>1 DEF EventInv
  <2> QED
    BY <2>1, <2>2, <2>3
<1>3. CASE (\E i \in DOMAIN handoffs : Resolve(i)) \/ Crash \/ UNCHANGED vars
  BY <1>0, <1>3, OthersMove DEF EventInv
<1> QED
  BY <1>1, <1>2, <1>3 DEF Next

(* An inbound event is stored and answered at most once, however often it  *)
(* is delivered and whatever fails (reserve_event).                        *)
THEOREM EventsAreHandledOnce == Spec => []EventsRunOnce
<1>1. Init => EventInv
  BY DEF Init, EventInv, Reserved
<1>2. CoreInv /\ EventInv /\ [Next]_vars => EventInv'
  BY EventStep
<1>3. CoreInv /\ EventInv => EventsRunOnce
  BY DEF CoreInv, StoredInv, EventInv, EventsRunOnce, SameKey
<1> QED
  BY <1>1, <1>2, <1>3, CoreAlways, PTL DEF Spec

(* A reservation is given back only while nothing is stored under it, or   *)
(* when its turn fails in a session that survives.                         *)
LEMMA KeyStep ==
    ASSUME CoreInv, KeyInv, [Next]_vars
    PROVE  KeyInv'
<1>0. TypeOK /\ StoredInv /\ HoldersOwn
  BY DEF CoreInv, ReceiptInv
<1>1. ASSUME NEW t \in Turns, NEW q \in TurnRequests, Arrive(t, q)
      PROVE  KeyInv'
  BY <1>0, <1>1 DEF KeyInv, Keyed, Owns, GivenUp, Arrive, StoredInv, Unheard, tables, TypeOK, Goto
<1>2. ASSUME NEW t \in Turns, TurnStep(t)
      PROVE  KeyInv'
  <2> DEFINE key == request[t].key
  <2>0. request' = request /\ \A u \in Turns \ {t} : pc'[u] = pc[u]
    BY <1>0, <1>2, TurnMoves
  <2>1. CASE Reserve(t)
    <3>1. /\ Keyed(t) /\ key \in DirectKeys /\ heard' = heard
          /\ receipts[key] = NoReceipt /\ t \notin heard
          /\ pc'[t] # "discard"
          /\ \A k \in DirectKeys \ {key} : receipts'[k] = receipts[k]
      BY <1>0, <2>1 DEF Reserve, Keyed, TypeOK, Goto, StoredInv, Unheard
    <3>2. \A u \in Turns : Keyed(u) /\ u \in heard => request[u].key # key \/ GivenUp(u)
      BY <3>1 DEF KeyInv, Owns
    <3> QED
      BY <1>0, <2>0, <3>1, <3>2 DEF KeyInv, Owns, Keyed, GivenUp
  <2>2. CASE Discard(t)
    <3>1. /\ Keyed(t) /\ Owns(t) /\ key \in DirectKeys /\ heard' = heard
          /\ t \notin heard \/ SessionSurvivesReload
          /\ pc'[t] = "failed"
          /\ \A k \in DirectKeys \ {key} : receipts'[k] = receipts[k]
      BY <1>0, <2>2 DEF Discard, StoredInv, HoldersOwn, Reserved, KeyInv, Keyed, TypeOK, Goto
    <3>2. \A u \in Turns \ {t} : Keyed(u) /\ u \in heard => request[u].key # key \/ GivenUp(u)
      BY <3>1 DEF KeyInv, Owns
    <3> QED
      BY <1>0, <2>0, <3>1, <3>2 DEF KeyInv, Owns, Keyed, GivenUp
  <2>3. CASE StoreInbound(t)
    <3>1. /\ receipts' = receipts /\ heard' = heard \cup {t} /\ (Keyed(t) => Owns(t))
          /\ (pc'[t] = "discard" => SessionSurvivesReload)
      BY <1>0, <2>3 DEF StoreInbound, Committed, HoldersOwn, Reserved, TypeOK, Goto
    <3> QED
      BY <1>0, <2>0, <3>1 DEF KeyInv, Owns, Keyed, GivenUp
  <2>4. CASE Complete(t)
    <3>1. /\ key \in DirectKeys /\ Owns(t) /\ heard' = heard /\ pc'[t] # "discard"
          /\ receipts' = [receipts EXCEPT ![key].reply = t]
      BY <1>0, <2>4 DEF Complete, StoredInv, HoldersOwn, Reserved, Keyed, TypeOK, Goto
    <3>2. receipts[key] \in Receipt
      BY <1>0, <3>1 DEF Owns, TypeOK
    <3>3. /\ receipts'[key] = [receipts[key] EXCEPT !.reply = t]
          /\ \A k \in DirectKeys \ {key} : receipts'[k] = receipts[k]
      BY <1>0, <3>1 DEF TypeOK
    <3>4. receipts'[key] \in Receipt /\ receipts'[key].owner = receipts[key].owner
      BY <3>2, <3>3 DEF Receipt
    <3>5. receipts'[key] # NoReceipt
      BY <3>4, TurnAssumptions DEF Receipt
    <3> QED
      BY <1>0, <2>0, <3>1, <3>3, <3>4, <3>5 DEF KeyInv, Owns, Keyed, GivenUp
  <2>5. CASE ~Reserve(t) /\ ~Discard(t) /\ ~StoreInbound(t) /\ ~Complete(t)
    <3>1. receipts' = receipts /\ heard' = heard
      BY <1>2, <2>5 DEF TurnStep, ReplayOrRaise, ReserveEvent, Decide, EnsureHandoff, InsertHandoff,
         ModelAnswers, ModelFails, WriteFails, StoreReply, tables
    <3>2. /\ pc'[t] = "discard" => pc[t] = "calling" \/ SessionSurvivesReload
          /\ pc[t] # "failed"
      BY <1>0, <1>2, <2>5 DEF TurnStep, ReplayOrRaise, ReserveEvent, Decide, EnsureHandoff, InsertHandoff,
         ModelAnswers, ModelFails, WriteFails, StoreReply, Committed, InFlight, OnLoop, TypeOK, Goto
    <3>3. pc'[t] = "discard" => t \notin heard \/ SessionSurvivesReload
      BY <1>0, <3>2 DEF StoredInv, Unheard
    <3> QED
      BY <1>0, <2>0, <3>1, <3>2, <3>3 DEF KeyInv, Owns, Keyed, GivenUp
  <2> QED
    BY <2>1, <2>2, <2>3, <2>4, <2>5
<1>3. CASE (\E i \in DOMAIN handoffs : Resolve(i)) \/ Crash \/ UNCHANGED vars
  <2>1. \A t \in Turns : pc[t] = "failed" => pc'[t] = "failed"
    BY <1>0, <1>3 DEF Resolve, Crash, vars, TypeOK, InFlight, OnLoop
  <2> QED
    BY <1>0, <1>3, <2>1, OthersMove DEF KeyInv, Owns, Keyed, GivenUp
<1> QED
  BY <1>1, <1>2, <1>3 DEF Next

(* Under one key a second turn is stored only beside one that failed in a  *)
(* session that survived; where no session survives a failed reload, a     *)
(* keyed turn is stored and answered at most once                          *)
(* (DirectSalesConversationTurnService.process).                           *)
THEOREM KeysAreRunOnce == Spec => []KeysRunOnce /\ (SessionSurvivesReload = FALSE => []StoredOnce)
<1>1. Init => KeyInv
  BY DEF Init, KeyInv
<1>2. CoreInv /\ KeyInv /\ [Next]_vars => KeyInv'
  BY KeyStep
<1>3. CoreInv /\ KeyInv => KeysRunOnce
  BY DEF CoreInv, StoredInv, KeyInv, KeysRunOnce, SameKey, Owns, Keyed
<1>4. Spec => []KeysRunOnce
  BY <1>1, <1>2, <1>3, CoreAlways, PTL DEF Spec
<1>5. ASSUME SessionSurvivesReload = FALSE
      PROVE  Spec => []StoredOnce
  <2>1. KeysRunOnce => StoredOnce
    BY <1>5 DEF KeysRunOnce, StoredOnce, GivenUp
  <2> QED
    BY <1>4, <2>1, PTL
<1> QED
  BY <1>4, <1>5

-----------------------------------------------------------------------------
(* A stored outcome that is replayed is the reply of the turn that asked   *)
(* the same under the same key (_replay_or_raise).                         *)
LEMMA ReplayStep ==
    ASSUME CoreInv, ReplaysAreCanonical, [Next]_vars
    PROVE  ReplaysAreCanonical'
<1> USE DEF SameKey
<1>0. TypeOK /\ StoredInv /\ ReceiptsAreTrue
  BY DEF CoreInv, ReceiptInv
<1>1. ASSUME NEW t \in Turns, NEW q \in TurnRequests, Arrive(t, q)
      PROVE  ReplaysAreCanonical'
  <2>1. /\ UNCHANGED <<heard, replied, answer>>
        /\ pc[t] = "new" /\ pc'[t] # "replayed" /\ t \notin heard
        /\ \A u \in Turns \ {t} : pc'[u] = pc[u] /\ request'[u] = request[u]
    BY <1>0, <1>1 DEF Arrive, tables, Goto, TypeOK, StoredInv, Unheard
  <2> QED
    BY <1>0, <2>1 DEF ReplaysAreCanonical, TypeOK
<1>2. ASSUME NEW t \in Turns, TurnStep(t)
      PROVE  ReplaysAreCanonical'
  <2>0. request' = request /\ \A u \in Turns \ {t} : pc'[u] = pc[u]
    BY <1>0, <1>2, TurnMoves
  <2>1. CASE ReplayOrRaise(t)
    <3>1. CASE pc'[t] # "replayed"
      BY <1>0, <2>0, <2>1, <3>1 DEF ReplayOrRaise, ReplaysAreCanonical, tables, TypeOK, Goto
    <3>2. CASE pc'[t] = "replayed"
      <4> DEFINE receipt == receipts[request[t].key]
      <4>1. /\ answer' = [answer EXCEPT ![t] = receipt.reply]
            /\ receipt.reply # NoTurn /\ receipt # NoReceipt /\ request[t].key \in DirectKeys
            /\ receipt.content = request[t].content
            /\ UNCHANGED <<heard, replied>>
        BY <1>0, <2>1, <3>2 DEF ReplayOrRaise, SameTurn, Keyed, tables, TypeOK, Goto
      <4>2. TrueReceipt(request[t].key, receipt)
        BY <1>0, <4>1 DEF ReceiptsAreTrue
      <4>3. /\ receipt.reply \in heard \cap replied
            /\ request[receipt.reply].key = request[t].key
            /\ request[receipt.reply].content = request[t].content
        BY <1>0, <4>1, <4>2 DEF TrueReceipt, StoredInv
      <4> QED
        BY <1>0, <2>0, <4>1, <4>3 DEF ReplaysAreCanonical, TypeOK
    <3> QED
      BY <3>1, <3>2
  <2>2. CASE ~ReplayOrRaise(t)
    <3>1. /\ heard \subseteq heard' /\ replied \subseteq replied'
          /\ pc'[t] # "replayed"
          /\ \A u \in Turns \ {t} : answer'[u] = answer[u]
      BY <1>0, <1>2, <2>2 DEF TurnStep, Reserve, ReserveEvent, Decide, EnsureHandoff, InsertHandoff, ModelAnswers,
         ModelFails, WriteFails, StoreInbound, StoreReply, Complete, Discard, Committed, Unwind, tables, TypeOK, Goto
    <3> QED
      BY <1>0, <2>0, <3>1 DEF ReplaysAreCanonical
  <2> QED
    BY <2>1, <2>2
<1>3. CASE (\E i \in DOMAIN handoffs : Resolve(i)) \/ Crash \/ UNCHANGED vars
  BY <1>0, <1>3, OthersMove DEF ReplaysAreCanonical
<1> QED
  BY <1>1, <1>2, <1>3 DEF Next

(* Every replay is canonical, whatever fails and whatever survives.        *)
THEOREM ReplaysAreTrue == Spec => []ReplaysAreCanonical
<1>1. Init => ReplaysAreCanonical
  BY DEF Init, ReplaysAreCanonical
<1> QED
  BY <1>1, ReplayStep, CoreAlways, PTL DEF Spec

(* A completed receipt is not touched again: whoever could discard or      *)
(* complete a receipt owns an unfinished one                               *)
(* (complete_direct_conversation_turn_receipt).                            *)
LEMMA CompletedStays ==
    ASSUME CoreInv, [Next]_vars, NEW k \in DirectKeys, IsCompleted(k)
    PROVE  receipts'[k] = receipts[k]
<1>0. TypeOK /\ StoredInv /\ HoldersOwn
  BY DEF CoreInv, ReceiptInv
<1>1. ASSUME NEW t \in Turns, NEW q \in TurnRequests, Arrive(t, q)
      PROVE  receipts' = receipts
  BY <1>1 DEF Arrive, tables
<1>2. ASSUME NEW t \in Turns, TurnStep(t)
      PROVE  receipts'[k] = receipts[k]
  <2>1. CASE Reserve(t)
    BY <1>0, <2>1 DEF Reserve, IsCompleted, TypeOK
  <2>2. CASE Complete(t) \/ Discard(t)
    <3>1. receipts[request[t].key].reply = NoTurn /\ request[t].key \in DirectKeys
      BY <1>0, <2>2 DEF Complete, Discard, StoredInv, HoldersOwn, Reserved, Keyed
    <3> QED
      BY <1>0, <2>2, <3>1 DEF Complete, Discard, IsCompleted, TypeOK
  <2>3. CASE ~Reserve(t) /\ ~Complete(t) /\ ~Discard(t)
    BY <1>2, <2>3 DEF TurnStep, ReplayOrRaise, ReserveEvent, Decide, EnsureHandoff, InsertHandoff,
       ModelAnswers, ModelFails, WriteFails, StoreInbound, StoreReply, tables
  <2> QED
    BY <2>1, <2>2, <2>3
<1>3. CASE (\E i \in DOMAIN handoffs : Resolve(i)) \/ Crash \/ UNCHANGED vars
  BY <1>0, <1>3, OthersMove
<1> QED
  BY <1>1, <1>2, <1>3 DEF Next

(* The stored outcome of a key never changes or vanishes.                  *)
THEOREM CompletedOutcomesStay == Spec => CompletedIsFinal
<1>1. CoreInv /\ [Next]_vars =>
          [\A k \in DirectKeys : IsCompleted(k) => receipts'[k] = receipts[k]]_vars
  BY CompletedStays
<1> QED
  BY <1>1, CoreAlways, PTL DEF Spec, CompletedIsFinal

-----------------------------------------------------------------------------
(* The promise of an idempotency key.                                      *)

(* A turn has no key before it arrives, and its client no answer before it *)
(* ends.                                                                   *)
AnswerInv ==
    \A t \in Turns : /\ pc[t] = "new" => ~Keyed(t)
                     /\ pc[t] \notin Ended => answer[t] = NoTurn

LEMMA AnswerStep ==
    ASSUME TypeOK, AnswerInv, [Next]_vars
    PROVE  AnswerInv'
<1> USE DEF Ended
<1>1. ASSUME NEW t \in Turns, NEW q \in TurnRequests, Arrive(t, q)
      PROVE  AnswerInv'
  BY <1>1 DEF Arrive, AnswerInv, Keyed, TypeOK, Goto
<1>2. ASSUME NEW t \in Turns, TurnStep(t)
      PROVE  AnswerInv'
  <2>1. \A u \in Turns \ {t} : pc'[u] = pc[u] /\ answer'[u] = answer[u]
    BY <1>2, TurnMoves DEF TurnStep, Reserve, ReplayOrRaise, ReserveEvent, Decide, EnsureHandoff, InsertHandoff,
       ModelAnswers, ModelFails, WriteFails, StoreInbound, StoreReply, Complete, Discard, tables, TypeOK
  <2>2. pc[t] \notin Ended
    BY <1>2 DEF TurnStep, Reserve, ReplayOrRaise, ReserveEvent, Decide, EnsureHandoff, InsertHandoff,
       ModelAnswers, ModelFails, WriteFails, StoreInbound, StoreReply, Complete, Discard
  <2>3. request' = request /\ pc'[t] # "new"
    BY <1>2, TurnMoves DEF InFlight, OnLoop
  <2>4. answer'[t] = answer[t] \/ pc'[t] \in Ended
    BY <1>2 DEF TurnStep, Reserve, ReplayOrRaise, ReserveEvent, Decide, EnsureHandoff, InsertHandoff,
       ModelAnswers, ModelFails, WriteFails, StoreInbound, StoreReply, Complete, Discard, Committed, Unwind,
       tables, TypeOK, Goto
  <2> QED
    BY <2>1, <2>2, <2>3, <2>4 DEF AnswerInv, Keyed
<1>3. CASE (\E i \in DOMAIN handoffs : Resolve(i)) \/ Crash \/ UNCHANGED vars
  <2>1. /\ answer' = answer /\ request' = request
        /\ \A t \in Turns : pc'[t] = "lost" \/ pc'[t] = pc[t]
    BY <1>3, OthersMove
  <2> QED
    BY <2>1 DEF AnswerInv, Keyed
<1> QED
  BY <1>1, <1>2, <1>3 DEF Next

ledgerView == <<KeyAsked, ContentAsked, Holder, Outcome, OfKeyed(heard), OfKeyed(replied), Given>>

(* What TurnLedger sees changes only with what it is made of.              *)
LEMMA ViewStays ==
    ASSUME request' = request
    PROVE  /\ UNCHANGED <<KeyAsked, ContentAsked>>
           /\ receipts' = receipts => UNCHANGED <<Holder, Outcome>>
           /\ heard' = heard => UNCHANGED OfKeyed(heard)
           /\ replied' = replied => UNCHANGED OfKeyed(replied)
           /\ answer' = answer => UNCHANGED Given
BY DEF KeyAsked, ContentAsked, Holder, Outcome, OfKeyed, Given, Keyed

(* A turn between its reservation and its end holds its key.               *)
LEMMA HoldersHold ==
    ASSUME TypeOK, HoldersOwn, NEW t \in Turns, Keyed(t), pc[t] \in Reserved
    PROVE  /\ KeyAsked[t] = request[t].key /\ request[t].key \in DirectKeys
           /\ Holder[request[t].key] = t /\ Outcome[request[t].key] = NoTurn
           /\ Ledger!Holds(t)
<1>1. KeyAsked[t] = request[t].key /\ request[t].key \in DirectKeys
  BY DEF KeyAsked, Keyed
<1>2. Holder[request[t].key] = t /\ Outcome[request[t].key] = NoTurn
  BY <1>1 DEF Holder, Outcome, HoldersOwn, Owns
<1> QED
  BY <1>1, <1>2 DEF Ledger!Holds

(* Each commit of a keyed turn is its step of the ledger.                  *)
LEMMA AskingStep ==
    ASSUME TypeOK, StoredInv, ReceiptInv, AnswerInv, NEW t \in Turns, NEW q \in TurnRequests, Arrive(t, q)
    PROVE  Ledger!Ask(t) \/ UNCHANGED ledgerView
<1>1. /\ pc[t] = "new" /\ request' = [request EXCEPT ![t] = q]
      /\ UNCHANGED <<receipts, heard, replied, answer>>
      /\ t \notin heard /\ t \notin replied /\ answer[t] = NoTurn /\ ~Keyed(t)
  BY DEF Arrive, tables, StoredInv, Unheard, AnswerInv, Ended
<1>2. UNCHANGED <<Holder, Outcome>>
  BY <1>1 DEF Holder, Outcome
<1>3. UNCHANGED <<OfKeyed(heard), OfKeyed(replied)>>
  BY <1>1 DEF OfKeyed, Keyed, TypeOK
<1>4. UNCHANGED Given
  BY <1>1, <1>3 DEF Given, Keyed, TypeOK
<1>5. /\ KeyAsked[t] = NoKey
      /\ KeyAsked' = [KeyAsked EXCEPT ![t] = IF q.key \in DirectKeys THEN q.key ELSE NoKey]
      /\ ContentAsked' = [ContentAsked EXCEPT ![t] = q.content]
      /\ q.content \in Contents
  BY <1>1 DEF KeyAsked, ContentAsked, Keyed, TypeOK, TurnRequests
<1> QED
  BY <1>2, <1>3, <1>4, <1>5 DEF Ledger!Ask, ledgerView

LEMMA ReservingStep ==
    ASSUME TypeOK, NEW t \in Turns, Reserve(t)
    PROVE  Ledger!Take(t)
<1> DEFINE k == request[t].key
<1>1. /\ k \in DirectKeys /\ KeyAsked[t] = k /\ receipts[k] = NoReceipt
      /\ request' = request /\ UNCHANGED <<heard, replied, answer>>
      /\ receipts' = [receipts EXCEPT ![k] = [owner |-> t, content |-> request[t].content, reply |-> NoTurn]]
  BY DEF Reserve, Keyed, KeyAsked
<1>2. [owner |-> t, content |-> request[t].content, reply |-> NoTurn] # NoReceipt
  BY TurnAssumptions DEF TypeOK, TurnRequests
<1> HIDE DEF k
<1>3. Holder[k] = NoTurn /\ Holder' = [Holder EXCEPT ![k] = t] /\ Outcome' = Outcome
  BY <1>1, <1>2 DEF Holder, Outcome, TypeOK
<1> QED
  BY <1>1, <1>3, ViewStays DEF Ledger!Take

LEMMA DiscardingStep ==
    ASSUME TypeOK, StoredInv, HoldersOwn, KeyInv,
           NEW t \in Turns, Discard(t)
    PROVE  Ledger!GiveBack(t)
<1> DEFINE k == request[t].key
<1>1. /\ pc[t] = "discard" /\ Keyed(t) /\ pc[t] \in Reserved
      /\ request' = request /\ UNCHANGED <<heard, replied, answer>>
      /\ receipts' = [receipts EXCEPT ![k] = NoReceipt]
  BY DEF Discard, StoredInv, Reserved
<1>2. Ledger!Holds(t) /\ KeyAsked[t] = k /\ k \in DirectKeys /\ Outcome[k] = NoTurn
  BY <1>1, HoldersHold
<1>3. t \notin OfKeyed(heard) \/ SessionSurvivesReload
  BY <1>1, TurnAssumptions DEF KeyInv, OfKeyed
<1> HIDE DEF k
<1>4. Holder' = [Holder EXCEPT ![k] = NoTurn] /\ Outcome' = Outcome
  BY <1>1, <1>2 DEF Holder, Outcome, TypeOK
<1> QED
  BY <1>1, <1>2, <1>3, <1>4, ViewStays DEF Ledger!GiveBack

LEMMA CompletingStep ==
    ASSUME TypeOK, StoredInv, HoldersOwn, NEW t \in Turns, Complete(t)
    PROVE  Ledger!Finish(t)
<1> DEFINE k == request[t].key
<1>1. /\ pc[t] = "complete" /\ Keyed(t) /\ pc[t] \in Reserved /\ t \in replied
      /\ request' = request /\ UNCHANGED <<heard, replied>>
      /\ receipts' = [receipts EXCEPT ![k].reply = t]
      /\ answer' \in {answer, [answer EXCEPT ![t] = t]}
  BY DEF Complete, StoredInv, Reserved
<1>2. Ledger!Holds(t) /\ KeyAsked[t] = k /\ k \in DirectKeys
  BY <1>1, HoldersHold
<1>3. t \in OfKeyed(replied)
  BY <1>1 DEF OfKeyed
<1>4. Given' \in {Given, [Given EXCEPT ![t] = t]}
  <2>1. CASE answer' = answer
    BY <1>1, <2>1, ViewStays
  <2>2. CASE answer' = [answer EXCEPT ![t] = t]
    BY <1>1, <2>2 DEF Given, Keyed, TypeOK
  <2> QED
    BY <1>1, <2>1, <2>2
<1>5. receipts[k] # NoReceipt /\ receipts[k] \in Receipt
  BY <1>1, <1>2 DEF HoldersOwn, Owns, TypeOK
<1> HIDE DEF k
<1>6. /\ receipts'[k] = [receipts[k] EXCEPT !.reply = t]
      /\ \A j \in DirectKeys \ {k} : receipts'[j] = receipts[j]
  BY <1>1, <1>2 DEF TypeOK
<1>7. receipts'[k] \in Receipt /\ receipts'[k].owner = receipts[k].owner /\ receipts'[k].reply = t
  BY <1>5, <1>6 DEF Receipt
<1>8. receipts'[k] # NoReceipt
  BY <1>7, TurnAssumptions DEF Receipt
<1>9. Holder' = Holder /\ Outcome' = [Outcome EXCEPT ![k] = t]
  BY <1>2, <1>5, <1>6, <1>7, <1>8 DEF Holder, Outcome
<1> QED
  BY <1>1, <1>2, <1>3, <1>4, <1>9, ViewStays DEF Ledger!Finish

LEMMA StoringStep ==
    ASSUME TypeOK, StoredInv, HoldersOwn, NEW t \in Turns, StoreInbound(t) \/ StoreReply(t)
    PROVE  Ledger!StoreMessage(t) \/ Ledger!StoreAnswer(t) \/ UNCHANGED ledgerView
<1>1. request' = request /\ receipts' = receipts /\ UNCHANGED <<KeyAsked, ContentAsked, Holder, Outcome>>
  <2>1. request' = request /\ receipts' = receipts
    BY DEF StoreInbound, StoreReply
  <2> QED
    BY <2>1, ViewStays
<1>2. CASE ~Keyed(t)
  <2>1. UNCHANGED <<OfKeyed(heard), OfKeyed(replied), Given>>
    BY <1>1, <1>2 DEF StoreInbound, StoreReply, OfKeyed, Given, Keyed, TypeOK
  <2> QED
    BY <1>1, <2>1 DEF ledgerView
<1>3. CASE StoreInbound(t) /\ Keyed(t)
  <2>1. /\ pc[t] \in Reserved /\ t \notin heard /\ heard' = heard \cup {t}
        /\ replied' = replied /\ answer' = answer
    BY <1>3 DEF StoreInbound, StoredInv, Unheard, Reserved
  <2>2. t \notin OfKeyed(heard) /\ OfKeyed(heard)' = OfKeyed(heard) \cup {t}
    BY <1>1, <1>3, <2>1 DEF OfKeyed, Keyed
  <2>3. Ledger!Holds(t) /\ UNCHANGED <<OfKeyed(replied), Given>>
    BY <1>1, <1>3, <2>1, HoldersHold, ViewStays
  <2> QED
    BY <1>1, <2>2, <2>3 DEF Ledger!StoreMessage
<1>4. CASE StoreReply(t) /\ Keyed(t)
  <2>1. /\ pc[t] = "reply" /\ pc[t] \in Reserved /\ t \in heard /\ replied' = replied \cup {t}
        /\ heard' = heard /\ answer' = answer
    BY <1>4 DEF StoreReply, StoredInv, Reserved, TypeOK
  <2>2. t \in OfKeyed(heard) /\ OfKeyed(replied)' = OfKeyed(replied) \cup {t}
    BY <1>1, <1>4, <2>1 DEF OfKeyed, Keyed
  <2>3. Ledger!Holds(t) /\ UNCHANGED <<OfKeyed(heard), Given>>
    BY <1>1, <1>4, <2>1, HoldersHold, ViewStays
  <2> QED
    BY <1>1, <2>2, <2>3 DEF Ledger!StoreAnswer, ledgerView
<1> QED
  BY <1>2, <1>3, <1>4

LEMMA RepeatingStep ==
    ASSUME TypeOK, ReceiptsAreTrue, AnswerInv, NEW t \in Turns, ReplayOrRaise(t)
    PROVE  Ledger!Repeat(t) \/ UNCHANGED ledgerView
<1> DEFINE k == request[t].key
<1>1. /\ Keyed(t) /\ k \in DirectKeys /\ KeyAsked[t] = k /\ receipts[k] # NoReceipt
      /\ request' = request /\ UNCHANGED <<receipts, heard, replied>>
      /\ answer[t] = NoTurn
  BY DEF ReplayOrRaise, Keyed, KeyAsked, tables, AnswerInv, Ended
<1>2. UNCHANGED <<KeyAsked, ContentAsked, Holder, Outcome, OfKeyed(heard), OfKeyed(replied)>>
  BY <1>1, ViewStays
<1>3. CASE answer' = answer
  BY <1>1, <1>2, <1>3, ViewStays DEF ledgerView
<1>4. CASE /\ SameTurn(t) /\ receipts[k].reply # NoTurn
           /\ answer' = [answer EXCEPT ![t] = receipts[k].reply]
  <2>1. Outcome[k] = receipts[k].reply
    BY <1>1 DEF Outcome
  <2>2. /\ receipts[k].reply \in Turns /\ receipts[k].content = request[t].content
        /\ request[receipts[k].reply].content = receipts[k].content
    BY <1>1, <1>4 DEF ReceiptsAreTrue, TrueReceipt, SameTurn
  <2>3. ContentAsked[t] = ContentAsked[Outcome[k]] /\ Outcome[k] # NoTurn
    BY <1>4, <2>1, <2>2 DEF ContentAsked
  <2>4. Given[t] = NoTurn /\ Given' = [Given EXCEPT ![t] = Outcome[k]]
    BY <1>1, <1>4, <2>1 DEF Given, Keyed, TypeOK
  <2> QED
    BY <1>1, <1>2, <2>3, <2>4 DEF Ledger!Repeat
<1> QED
  BY <1>3, <1>4 DEF ReplayOrRaise

(* No other step is seen.                                                  *)
LEMMA UnseenStep ==
    ASSUME TypeOK, [Next]_vars,
           ~\E t \in Turns, q \in TurnRequests : Arrive(t, q),
           ~\E t \in Turns : \/ Reserve(t) \/ ReplayOrRaise(t) \/ StoreInbound(t)
                             \/ StoreReply(t) \/ Complete(t) \/ Discard(t)
    PROVE  UNCHANGED ledgerView
<1>1. UNCHANGED <<request, receipts, heard, replied, answer>>
  <2>1. CASE \E t \in Turns : TurnStep(t)
    BY <2>1 DEF TurnStep, ReserveEvent, Decide, EnsureHandoff, InsertHandoff, ModelAnswers, ModelFails, WriteFails,
                tables
  <2>2. CASE (\E i \in DOMAIN handoffs : Resolve(i)) \/ Crash \/ UNCHANGED vars
    BY <2>2, OthersMove
  <2> QED
    BY <2>1, <2>2 DEF Next
<1> QED
  BY <1>1, ViewStays DEF ledgerView

(* Repeating a direct turn under its key is safe: whatever fails, turns    *)
(* implement the ledger of keys that TurnLedger describes                  *)
(* (DirectSalesConversationTurnService.process).                           *)
THEOREM TurnsImplementLedger == Spec => ImplementsLedger
<1> DEFINE Inv == CoreInv /\ AnswerInv /\ KeyInv
<1>1. Init => Inv
  <2> SUFFICES ASSUME Init PROVE Inv
    OBVIOUS
  <2>1. AnswerInv
    BY TurnAssumptions DEF Init, AnswerInv, Keyed, TurnRequests
  <2>2. KeyInv
    BY DEF Init, KeyInv
  <2> QED
    BY <2>1, <2>2, InitCore
<1>2. Inv /\ [Next]_vars => Inv'
  BY CoreStep, AnswerStep, KeyStep DEF CoreInv
<1>3. Init => Ledger!LedgerInit
  <2> SUFFICES ASSUME Init PROVE Ledger!LedgerInit
    OBVIOUS
  <2>1. \A t \in Turns : request[t].key = NoKey /\ request[t].content \in Contents
    BY DEF Init, TurnRequests
  <2>2. KeyAsked = [t \in Turns |-> NoKey] /\ Given = [t \in Turns |-> NoTurn]
    BY <2>1, TurnAssumptions DEF KeyAsked, Given, Keyed
  <2>3. Holder = [k \in DirectKeys |-> NoTurn] /\ Outcome = [k \in DirectKeys |-> NoTurn]
    BY DEF Init, Holder, Outcome
  <2>4. OfKeyed(heard) = {} /\ OfKeyed(replied) = {} /\ ContentAsked \in [Turns -> Contents]
    BY <2>1 DEF Init, OfKeyed, ContentAsked
  <2> QED
    BY <2>2, <2>3, <2>4 DEF Ledger!LedgerInit
<1>4. Inv /\ [Next]_vars => [Ledger!LedgerNext]_(Ledger!ledgerVars)
  <2> SUFFICES ASSUME Inv, [Next]_vars
               PROVE  Ledger!LedgerNext \/ UNCHANGED ledgerView
    BY DEF Ledger!ledgerVars, ledgerView
  <2>0. TypeOK /\ StoredInv /\ ReceiptInv /\ HoldersOwn /\ ReceiptsAreTrue
    BY DEF CoreInv, ReceiptInv
  <2>1. ASSUME NEW t \in Turns, NEW q \in TurnRequests, Arrive(t, q)
        PROVE  Ledger!LedgerNext \/ UNCHANGED ledgerView
    BY <2>0, <2>1, AskingStep DEF Ledger!LedgerNext
  <2>2. ASSUME NEW t \in Turns, Reserve(t)
        PROVE  Ledger!LedgerNext
    BY <2>0, <2>2, ReservingStep DEF Ledger!LedgerNext
  <2>3. ASSUME NEW t \in Turns, Discard(t)
        PROVE  Ledger!LedgerNext
    BY <2>0, <2>3, DiscardingStep DEF Ledger!LedgerNext
  <2>4. ASSUME NEW t \in Turns, Complete(t)
        PROVE  Ledger!LedgerNext
    BY <2>0, <2>4, CompletingStep DEF Ledger!LedgerNext
  <2>5. ASSUME NEW t \in Turns, StoreInbound(t) \/ StoreReply(t)
        PROVE  Ledger!LedgerNext \/ UNCHANGED ledgerView
    BY <2>0, <2>5, StoringStep DEF Ledger!LedgerNext
  <2>6. ASSUME NEW t \in Turns, ReplayOrRaise(t)
        PROVE  Ledger!LedgerNext \/ UNCHANGED ledgerView
    BY <2>0, <2>6, RepeatingStep DEF Ledger!LedgerNext
  <2> QED
    BY <2>0, <2>1, <2>2, <2>3, <2>4, <2>5, <2>6, UnseenStep
<1> HIDE DEF Inv
<1> QED
  BY <1>1, <1>2, <1>3, <1>4, PTL DEF Spec, ImplementsLedger, Ledger!LedgerSpec

-----------------------------------------------------------------------------
(* The check and the insert of a handoff are not torn apart.               *)
LEMMA HandoffStep ==
    ASSUME CoreInv, HandoffInv, [Next]_vars
    PROVE  HandoffInv'
<1>0. TypeOK /\ LoopInv
  BY DEF CoreInv
<1>1. ASSUME NEW t \in Turns, NEW q \in TurnRequests, Arrive(t, q)
      PROVE  HandoffInv'
  BY <1>0, <1>1 DEF HandoffInv, ActiveHandoffs, Arrive, tables, TypeOK, Goto
<1>2. ASSUME NEW t \in Turns, TurnStep(t)
      PROVE  HandoffInv'
  <2>0. request' = request /\ \A u \in Turns \ {t} : pc'[u] = pc[u]
    BY <1>0, <1>2, TurnMoves
  <2>1. CASE InsertHandoff(t)
    <3>1. /\ ActiveHandoffs = {}
          /\ handoffs' = Append(handoffs, NewHandoff(t))
          /\ pc'[t] # "insert"
      BY <1>0, <2>1 DEF InsertHandoff, HandoffInv, Committed, Unwind, TypeOK, Goto
    <3>2. \A u \in Turns \ {t} : pc[u] # "insert"
      BY <1>0, <2>1 DEF InsertHandoff, LoopInv, OnLoop
    <3>3. Len(handoffs) \in Nat /\ DOMAIN handoffs = 1 .. Len(handoffs) /\ handoffs \in Seq(Handoff)
      BY <1>0 DEF TypeOK
    <3>4. NewHandoff(t) \in Handoff
      BY <1>0, <2>1, HandoffsAreRows DEF InsertHandoff, HandoffReasons, CoreInv
    <3>5. \A i \in DOMAIN handoffs' : i = Len(handoffs) + 1 \/ (i \in DOMAIN handoffs /\ handoffs'[i] = handoffs[i])
      BY <3>1, <3>3, <3>4
    <3>6. \A i \in ActiveHandoffs' : i = Len(handoffs) + 1
      BY <3>1, <3>5 DEF ActiveHandoffs
    <3> QED
      BY <2>0, <3>1, <3>2, <3>6 DEF HandoffInv
  <2>2. CASE EnsureHandoff(t)
    BY <1>0, <2>0, <2>2 DEF EnsureHandoff, HandoffInv, ActiveHandoffs, tables, TypeOK, Goto
  <2>3. CASE ~InsertHandoff(t) /\ ~EnsureHandoff(t)
    <3>1. handoffs' = handoffs /\ pc'[t] # "insert"
      BY <1>0, <1>2, <2>3 DEF TurnStep, Reserve, ReplayOrRaise, ReserveEvent, Decide, ModelAnswers, ModelFails,
         WriteFails, StoreInbound, StoreReply, Complete, Discard, Committed, Unwind, tables, TypeOK, Goto
    <3> QED
      BY <1>0, <2>0, <3>1 DEF HandoffInv, ActiveHandoffs
  <2> QED
    BY <2>1, <2>2, <2>3
<1>3. CASE (\E i \in DOMAIN handoffs : Resolve(i)) \/ Crash \/ UNCHANGED vars
  <2>1. ActiveHandoffs' \subseteq ActiveHandoffs
    <3>1. ASSUME NEW i \in DOMAIN handoffs, Resolve(i)
          PROVE  ActiveHandoffs' \subseteq ActiveHandoffs
      <4>1. handoffs' = [handoffs EXCEPT ![i].active = FALSE] /\ handoffs[i] \in Handoff
        BY <1>0, <3>1 DEF Resolve, TypeOK
      <4>2. DOMAIN handoffs' = DOMAIN handoffs
        BY <4>1
      <4>3. \A j \in DOMAIN handoffs : j # i => handoffs'[j] = handoffs[j]
        BY <4>1
      <4>4. handoffs'[i] = [handoffs[i] EXCEPT !.active = FALSE]
        BY <3>1, <4>1
      <4>5. ~handoffs'[i].active
        BY <4>1, <4>4 DEF Handoff
      <4> QED
        BY <4>2, <4>3, <4>5 DEF ActiveHandoffs
    <3>2. CASE Crash \/ UNCHANGED vars
      BY <3>2 DEF Crash, vars, tables, ActiveHandoffs
    <3> QED
      BY <1>3, <3>1, <3>2
  <2> QED
    BY <1>0, <1>3, <2>1, OthersMove DEF HandoffInv
<1> QED
  BY <1>1, <1>2, <1>3 DEF Next

(* At most one handoff of a lead is active (ensure_sales_handoff).         *)
THEOREM HandoffIsUnique == Spec => []OneActiveHandoff
<1>1. Init => HandoffInv
  BY DEF Init, HandoffInv, ActiveHandoffs
<1>2. HandoffInv => OneActiveHandoff
  <2> SUFFICES ASSUME HandoffInv
               PROVE  Cardinality(ActiveHandoffs) <= 1
    BY DEF OneActiveHandoff
  <2>1. CASE ActiveHandoffs = {}
    BY <2>1, FS_EmptySet
  <2>2. ASSUME NEW i \in ActiveHandoffs
        PROVE  Cardinality(ActiveHandoffs) <= 1
    <3>1. ActiveHandoffs = {i}
      BY <2>2 DEF HandoffInv
    <3>2. Cardinality({i}) = 1
      BY FS_Singleton
    <3> QED
      BY <3>1, <3>2
  <2> QED
    BY <2>1, <2>2
<1> QED
  BY <1>1, <1>2, HandoffStep, CoreAlways, PTL DEF Spec
=============================================================================
