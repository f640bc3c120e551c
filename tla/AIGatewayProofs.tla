---------------------------- MODULE AIGatewayProofs ----------------------------
(***************************************************************************)
(* Proofs about AIGateway, for any calls, workspaces, settings, policies,  *)
(* requests and reports, and any number of stops.                          *)
(***************************************************************************)
EXTENDS AIGateway, FiniteSetTheorems, SequenceTheorems, WellFoundedInduction, TLAPS

-----------------------------------------------------------------------------
(* The core of the inductive invariant.                                    *)

IsLedger(rows) == \E S : rows \in Seq(S)

WaitingRow == [phase : {"waiting"}, workspace : Workspaces, request : Requests,
               tier : Tiers \ {"none"}, result : {"none"}]

(* A call that waits is a row of its own kind; one that reached a model    *)
(* keeps what it asked for when it ends.                                   *)
CallOK(c) ==
    /\ call[c].phase \in {"idle", "waiting", "ended"}
    /\ call[c].phase = "waiting" => call[c] \in WaitingRow
    /\ call[c].phase = "ended" => call[c].result \in Results
    /\ call[c].phase = "ended" /\ call[c].result \notin Refusals =>
          /\ call[c].workspace \in Workspaces
          /\ call[c].request \in Requests
          /\ call[c].tier \in Tiers \ {"none"}

CoreInv ==
    /\ DOMAIN call = Calls /\ DOMAIN usage = Workspaces
    /\ \A w \in Workspaces : IsLedger(usage[w])
    /\ \A c \in Calls : CallOK(c)

(* What the policies let a call have.                                      *)
TierOK(c) ==
    LET tier == call[c].tier
        request == call[c].request
    IN  /\ tier \in PermittedTiers(policy[call[c].workspace])
        /\ IsMapped(settings, tier)
        /\ Rank(tier) <= Rank(Route(settings, request))
        /\ tier = "premium" => settings.premium_enabled /\ PremiumJustified(request)

TierInv == CoreInv /\ TierWithinPolicy

(* A row of the ledger tells the truth about a call that has ended, and no *)
(* other row tells of that call.                                           *)
RowOK(w, i) ==
    LET c == usage[w][i].call
    IN  /\ c \in Calls /\ call[c].phase = "ended" /\ call[c].result \notin Refusals
        /\ call[c].workspace = w
        /\ usage[w][i].model = settings.tiers[call[c].tier]
        /\ usage[w][i].status = "successful" <=> Served(c)

LedgerInv ==
    /\ CoreInv
    /\ \A w \in Workspaces : \A i \in 1 .. Len(usage[w]) : RowOK(w, i)
    /\ \A w \in Workspaces : \A i, j \in 1 .. Len(usage[w]) :
          usage[w][i].call = usage[w][j].call => i = j
    /\ \A c \in Calls : call[c].phase = "ended" /\ call[c].result = "answered" =>
          \E i \in 1 .. Len(usage[call[c].workspace]) : usage[call[c].workspace][i].call = c

(* The rows of a workspace and its waiting calls.                          *)
CountOK(w) ==
    /\ IsFiniteSet(InFlight(w))
    /\ Known(policy[w].invocations) /\ Len(usage[w]) + Cardinality(InFlight(w)) > 0 =>
          /\ policy[w].invocations \in Nat
          /\ Len(usage[w]) + Cardinality(InFlight(w)) <= policy[w].invocations - 1 + peak[w]

CountInv == CoreInv /\ peak \in [Workspaces -> Nat] /\ \A w \in Workspaces : CountOK(w)

(* What a row says was used and paid: numbers, or nothing.                 *)
RowTyped(row) == {row.total, row.cost} \subseteq Nat \cup {Absent}

(* A call that waits alone has room in the budgets for what it estimated.  *)
HasRoom(w, request) ==
    /\ Known(policy[w].tokens) =>
          /\ policy[w].tokens \in Nat /\ Known(request.tokens) /\ request.tokens \in Nat
          /\ SpentTokens(usage[w]) + request.tokens <= policy[w].tokens
    /\ Known(policy[w].spend) =>
          /\ policy[w].spend \in Nat /\ Known(request.cost) /\ request.cost \in Nat
          /\ KnownSpend(usage[w]) + request.cost <= policy[w].spend

(* Where no two calls ever waited at once, the one that waits has room.    *)
RoomOK(w) ==
    /\ \A i \in 1 .. Len(usage[w]) : RowTyped(usage[w][i])
    /\ peak[w] >= Cardinality(InFlight(w))
    /\ peak[w] <= 1 => \A c \in InFlight(w) : InFlight(w) = {c} /\ HasRoom(w, call[c].request)

SerialOK(w) ==
    (peak[w] <= 1 /\ EstimatesCover(w) /\ usage[w] # <<>>) =>
        /\ Known(policy[w].tokens) => SpentTokens(usage[w]) <= policy[w].tokens
        /\ Known(policy[w].spend) => KnownSpend(usage[w]) <= policy[w].spend

BudgetInv ==
    /\ LedgerInv /\ CountInv /\ settings \in Deployments
    /\ \A w \in Workspaces : RoomOK(w) /\ SerialOK(w)

(* A call that failed has no price.                                        *)
PriceInv ==
    CoreInv /\ \A w \in Workspaces : \A i \in 1 .. Len(usage[w]) :
                  usage[w][i].status = "failed" => usage[w][i].cost = Absent

-----------------------------------------------------------------------------
LEMMA LedgerLength == ASSUME NEW rows, IsLedger(rows)
                      PROVE  Len(rows) \in Nat /\ DOMAIN rows = 1 .. Len(rows)
BY LenProperties DEF IsLedger

LEMMA AppendToLedger ==
    ASSUME NEW rows, IsLedger(rows), NEW row
    PROVE  /\ IsLedger(Append(rows, row))
           /\ Len(Append(rows, row)) = Len(rows) + 1
           /\ \A i \in 1 .. Len(rows) : Append(rows, row)[i] = rows[i]
           /\ Append(rows, row)[Len(rows) + 1] = row
<1>1. PICK S : rows \in Seq(S)
  BY DEF IsLedger
<1>2. PICK T : T = S \cup {row}
  OBVIOUS
<1>3. rows \in Seq(T) /\ row \in T
  BY <1>1, <1>2, SeqMonotonic
<1>4. /\ Append(rows, row) \in Seq(T)
      /\ Len(Append(rows, row)) = Len(rows) + 1
      /\ \A i \in 1 .. Len(rows) : Append(rows, row)[i] = rows[i]
      /\ Append(rows, row)[Len(rows) + 1] = row
  BY <1>3
<1> QED
  BY <1>4 DEF IsLedger

LEMMA InitCore == Init => CoreInv
<1> SUFFICES ASSUME Init PROVE CoreInv
  OBVIOUS
<1>1. \A w \in Workspaces : IsLedger(usage[w])
  BY EmptySeq DEF Init, IsLedger
<1> QED
  BY <1>1 DEF Init, CoreInv, CallOK, Idle

(* How a call that waits ends: with or without a row in the ledger.        *)
Ends(c, result) ==
    /\ call[c].phase = "waiting"
    /\ result \in Results \ Refusals
    /\ call' = [call EXCEPT ![c].phase = "ended", ![c].result = result]
    /\ UNCHANGED <<settings, policy, peak>>
    /\ \/ usage' = usage /\ result # "answered"
       \/ \E row : /\ usage' = [usage EXCEPT ![call[c].workspace] = Append(@, row)]
                   /\ row.call = c /\ row.model = settings.tiers[call[c].tier]
                   /\ row.status = "failed" => row.cost = Absent
                   /\ row.status \in {"successful", "failed"}
                   /\ row.status = "successful" <=> result \in {"answered", "unaccounted"}
                   /\ settings \in Deployments => RowTyped(row)

LEMMA UsageRowIs ==
    ASSUME NEW s, NEW c, NEW model, NEW reported, NEW status
    PROVE  /\ UsageRow(s, c, model, reported, status).call = c
           /\ UsageRow(s, c, model, reported, status).model = model
           /\ UsageRow(s, c, model, reported, status).status = status
           /\ reported = NothingReported => UsageRow(s, c, model, reported, status).cost = Absent
BY DEF UsageRow, Cost, Known, NothingReported

LEMMA UsageRowIsTyped ==
    ASSUME NEW s, ValidSettings(s), NEW c, NEW model, NEW reported, UsableCounts(reported), NEW status
    PROVE  RowTyped(UsageRow(s, c, model, reported, status))
<1>1. {reported.input, reported.output, reported.total} \subseteq Nat \cup {Absent}
  BY DEF UsableCounts, Known, IsCount
<1>2. TotalTokens(reported) \in Nat \cup {Absent}
  BY <1>1 DEF TotalTokens, Known
<1>3. Cost(s, model, reported) \in Nat \cup {Absent}
  <2> DEFINE entries == {i \in DOMAIN s.pricing : s.pricing[i].model = model}
  <2> DEFINE price == s.pricing[CHOOSE i \in entries : TRUE]
  <2>1. ASSUME Known(reported.input), Known(reported.output), entries # {}
        PROVE  Cost(s, model, reported) \in Nat
    <3>1. (CHOOSE i \in entries : TRUE) \in DOMAIN s.pricing
      BY <2>1
    <3>2. price.input \in Nat /\ price.output \in Nat
      BY <3>1 DEF ValidSettings, ValidPrice
    <3>3. reported.input \in Nat /\ reported.output \in Nat
      BY <1>1, <2>1 DEF Known
    <3>4. \A n, p \in Nat : n * p \in Nat
      OBVIOUS
    <3>5. reported.input * price.input \in Nat /\ reported.output * price.output \in Nat
      <4> HIDE DEF price
      <4> QED
        BY <3>2, <3>3, <3>4
    <3>6. Cost(s, model, reported) = reported.input * price.input + reported.output * price.output
      BY <2>1 DEF Cost
    <3> HIDE DEF price
    <3> QED
      BY <3>5, <3>6
  <2>2. ~(Known(reported.input) /\ Known(reported.output) /\ entries # {}) => Cost(s, model, reported) = Absent
    BY DEF Cost
  <2> QED
    BY <2>1, <2>2
<1> QED
  BY <1>2, <1>3 DEF RowTyped, UsageRow

LEMMA RecordStep ==
    ASSUME NEW c, NEW reported, NEW status, Record(c, reported, status)
    PROVE  \E row : /\ usage' = [usage EXCEPT ![call[c].workspace] = Append(@, row)]
                    /\ row.call = c /\ row.model = settings.tiers[call[c].tier]
                    /\ row.status = status
                    /\ reported = NothingReported => row.cost = Absent
                    /\ settings \in Deployments /\ UsableCounts(reported) => RowTyped(row)
<1>1. PICK row : row = UsageRow(settings, c, settings.tiers[call[c].tier], reported, status)
  OBVIOUS
<1>2. usage' = [usage EXCEPT ![call[c].workspace] = Append(@, row)]
  BY <1>1 DEF Record
<1>3. /\ row.call = c /\ row.model = settings.tiers[call[c].tier]
      /\ row.status = status
      /\ reported = NothingReported => row.cost = Absent
  BY <1>1, UsageRowIs
<1>4. settings \in Deployments /\ UsableCounts(reported) => RowTyped(row)
  BY <1>1, UsageRowIsTyped, GatewayAssumptions
<1> QED
  BY <1>2, <1>3, <1>4

LEMMA AnswerStep ==
    ASSUME NEW c \in Calls, Fail(c) \/ \E reported \in Reports : Complete(c, reported)
    PROVE  \E result : Ends(c, result)
<1>1. call[c].phase = "waiting" /\ UNCHANGED <<settings, policy, peak>>
  BY DEF Fail, Complete
<1>2. ASSUME NEW result \in Results \ Refusals, result \notin {"answered", "unaccounted"},
             Record(c, NothingReported, "failed"), End(c, result)
      PROVE  Ends(c, result)
  <2>1. UsableCounts(NothingReported)
    BY DEF UsableCounts, NothingReported, Known
  <2> QED
    BY <1>1, <1>2, <2>1, RecordStep DEF Ends, End
<1>3. ASSUME NEW result \in Results \ Refusals, result # "answered", UNCHANGED usage, End(c, result)
      PROVE  Ends(c, result)
  BY <1>1, <1>3 DEF Ends, End
<1>4. ASSUME NEW reported, UsableCounts(reported), Record(c, reported, "successful"),
             NEW result \in {"answered", "unaccounted"}, End(c, result)
      PROVE  Ends(c, result)
  <2>1. {"answered", "unaccounted"} \subseteq Results \ Refusals
    BY DEF Results, Refusals
  <2> QED
    BY <1>1, <1>4, <2>1, RecordStep DEF Ends, End
<1>5. {"provider_error", "metadata_error", "unaccounted"} \subseteq (Results \ Refusals) \ {"answered"}
  BY DEF Results, Refusals
<1>6. CASE Fail(c)
  <2>1. "provider_error" \in Results \ Refusals /\ "provider_error" \notin {"answered", "unaccounted"}
    BY <1>5
  <2> QED
    BY <1>2, <1>3, <1>6, <2>1 DEF Fail, RecordOrNot
<1>7. ASSUME NEW reported \in Reports, Complete(c, reported)
      PROVE  \E result : Ends(c, result)
  <2>1. "metadata_error" \in Results \ Refusals /\ "metadata_error" \notin {"answered", "unaccounted"}
        /\ "unaccounted" \in Results \ Refusals /\ "unaccounted" # "answered"
    BY <1>5
  <2> QED
    BY <1>2, <1>3, <1>4, <1>7, <2>1 DEF Complete, RecordOrNot
<1> QED
  BY <1>6, <1>7

(* What ending does to the call, and to the ledger of its workspace.       *)
LEMMA EndsEffect ==
    ASSUME CoreInv, NEW c \in Calls, NEW result, Ends(c, result)
    PROVE  /\ CoreInv'
           /\ call[c] \in WaitingRow
           /\ call'[c].phase = "ended" /\ call'[c].result = result
           /\ call'[c].workspace = call[c].workspace /\ call'[c].request = call[c].request
           /\ call'[c].tier = call[c].tier
           /\ \A d \in Calls \ {c} : call'[d] = call[d]
<1>1. call[c] \in WaitingRow
  BY DEF Ends, CoreInv, CallOK
<1>2. /\ DOMAIN call' = Calls
      /\ call'[c] = [call[c] EXCEPT !.phase = "ended", !.result = result]
      /\ \A d \in Calls \ {c} : call'[d] = call[d]
  BY DEF Ends, CoreInv
<1>3. /\ call'[c].phase = "ended" /\ call'[c].result = result
      /\ call'[c].workspace = call[c].workspace /\ call'[c].request = call[c].request
      /\ call'[c].tier = call[c].tier
  BY <1>1, <1>2 DEF WaitingRow
<1>4. /\ call[c].workspace \in Workspaces /\ call[c].request \in Requests
      /\ call[c].tier \in Tiers \ {"none"} /\ result \in Results
  BY <1>1 DEF WaitingRow, Ends
<1>5. CallOK(c)'
  BY <1>3, <1>4 DEF CallOK
<1>6. \A d \in Calls : CallOK(d)'
  BY <1>2, <1>5 DEF CoreInv, CallOK
<1>7. DOMAIN usage' = Workspaces /\ \A w \in Workspaces : IsLedger(usage'[w])
  <2>1. CASE usage' = usage
    BY <2>1 DEF CoreInv
  <2>2. ASSUME NEW row, usage' = [usage EXCEPT ![call[c].workspace] = Append(@, row)]
        PROVE  DOMAIN usage' = Workspaces /\ \A w \in Workspaces : IsLedger(usage'[w])
    BY <1>4, <2>2, AppendToLedger DEF CoreInv
  <2> QED
    BY <2>1, <2>2 DEF Ends
<1> QED
  BY <1>1, <1>2, <1>3, <1>6, <1>7 DEF CoreInv

LEMMA AdmitEffect ==
    ASSUME CoreInv, NEW c \in Calls, NEW w \in Workspaces, NEW request \in Requests,
           Admit(c, w, request)
    PROVE  /\ CoreInv'
           /\ call[c].phase = "idle"
           /\ call'[c] = [phase |-> "waiting", workspace |-> w, request |-> request,
                          tier |-> Verdict(w, request), result |-> "none"]
           /\ call'[c].phase = "waiting" /\ call'[c].workspace = w
           /\ \A d \in Calls \ {c} : call'[d] = call[d]
           /\ UNCHANGED <<settings, policy, usage>>
<1>1. /\ DOMAIN call' = Calls
      /\ call[c].phase = "idle"
      /\ call'[c] = [phase |-> "waiting", workspace |-> w, request |-> request,
                     tier |-> Verdict(w, request), result |-> "none"]
      /\ \A d \in Calls \ {c} : call'[d] = call[d]
      /\ UNCHANGED <<settings, policy, usage, stops>>
      /\ call'[c].phase = "waiting" /\ call'[c].workspace = w
  BY DEF Admit, Begun, CoreInv
<1>2. Verdict(w, request) \in Tiers \ {"none"}
  <2>1. Verdict(w, request) # "none"
    BY DEF Verdict
  <2> QED
    BY <2>1 DEF Admit
<1>3. CallOK(c)'
  BY <1>1, <1>2 DEF CallOK, WaitingRow
<1>4. \A d \in Calls : CallOK(d)'
  BY <1>1, <1>3 DEF CoreInv, CallOK
<1> QED
  BY <1>1, <1>4 DEF CoreInv

LEMMA RefuseEffect ==
    ASSUME CoreInv, NEW c \in Calls, NEW w \in Workspaces, NEW request \in Requests,
           Refuse(c, w, request)
    PROVE  /\ CoreInv'
           /\ call[c].phase = "idle"
           /\ call'[c].phase = "ended" /\ call'[c].result \in Refusals
           /\ \A d \in Calls \ {c} : call'[d] = call[d]
           /\ UNCHANGED <<settings, policy, usage, peak>>
<1>1. /\ DOMAIN call' = Calls
      /\ call[c].phase = "idle"
      /\ call'[c].phase = "ended" /\ call'[c].result = Verdict(w, request)
      /\ \A d \in Calls \ {c} : call'[d] = call[d]
      /\ UNCHANGED <<settings, policy, usage, peak>>
  BY DEF Refuse, Begun, CoreInv
<1>2. Verdict(w, request) \in Refusals
  BY DEF Refuse
<1>3. CallOK(c)'
  BY <1>1, <1>2 DEF CallOK, Results
<1>4. \A d \in Calls : CallOK(d)'
  BY <1>1, <1>3 DEF CoreInv, CallOK
<1> QED
  BY <1>1, <1>2, <1>4 DEF CoreInv

LEMMA StopEffect ==
    ASSUME CoreInv, Stop
    PROVE  /\ CoreInv'
           /\ \A c \in Calls : call[c].phase = "waiting" =>
                 /\ call[c] \in WaitingRow
                 /\ call'[c].phase = "ended" /\ call'[c].result = "lost"
                 /\ call'[c].workspace = call[c].workspace /\ call'[c].request = call[c].request
                 /\ call'[c].tier = call[c].tier
           /\ \A c \in Calls : call[c].phase # "waiting" => call'[c] = call[c]
           /\ UNCHANGED <<settings, policy, usage, peak>>
<1>1. /\ call' = [c \in Calls |-> IF call[c].phase = "waiting"
                                  THEN [call[c] EXCEPT !.phase = "ended", !.result = "lost"]
                                  ELSE call[c]]
      /\ UNCHANGED <<settings, policy, usage, peak>>
  BY DEF Stop
<1>2. ASSUME NEW c \in Calls, call[c].phase = "waiting"
      PROVE  /\ call[c] \in WaitingRow
             /\ call'[c].phase = "ended" /\ call'[c].result = "lost"
             /\ call'[c].workspace = call[c].workspace /\ call'[c].request = call[c].request
             /\ call'[c].tier = call[c].tier
  <2>1. call[c] \in WaitingRow
    BY <1>2 DEF CoreInv, CallOK
  <2>2. call'[c] = [call[c] EXCEPT !.phase = "ended", !.result = "lost"]
    BY <1>1, <1>2
  <2> QED
    BY <2>1, <2>2 DEF WaitingRow
<1>3. \A c \in Calls : call[c].phase # "waiting" => call'[c] = call[c]
  BY <1>1
<1>4. ASSUME NEW c \in Calls
      PROVE  CallOK(c)'
  <2>1. CASE call[c].phase = "waiting"
    BY <1>2, <2>1 DEF CallOK, WaitingRow, Results
  <2>2. CASE call[c].phase # "waiting"
    BY <1>3, <2>2 DEF CoreInv, CallOK
  <2> QED
    BY <2>1, <2>2
<1> QED
  BY <1>1, <1>2, <1>3, <1>4 DEF CoreInv

(* The steps of the gateway, seen from its calls.                          *)
LEMMA Steps ==
    ASSUME [Next]_vars
    PROVE  \/ \E c \in Calls, w \in Workspaces, request \in Requests : Refuse(c, w, request)
           \/ \E c \in Calls, w \in Workspaces, request \in Requests : Admit(c, w, request)
           \/ \E c \in Calls : \E result : Ends(c, result)
           \/ Stop
           \/ UNCHANGED vars
BY AnswerStep DEF Next

LEMMA CoreStep == CoreInv /\ [Next]_vars => CoreInv'
<1> SUFFICES ASSUME CoreInv, [Next]_vars PROVE CoreInv'
  OBVIOUS
<1>1. CASE UNCHANGED vars
  BY <1>1 DEF vars, CoreInv, CallOK
<1> QED
  BY <1>1, Steps, RefuseEffect, AdmitEffect, EndsEffect, StopEffect

-----------------------------------------------------------------------------
(* What admission demands.                                                 *)
LEMMA Admitted ==
    ASSUME NEW w \in Workspaces, NEW request, Verdict(w, request) \in Tiers
    PROVE  /\ ValidPolicy(policy[w])
           /\ ValidEstimates(request)
           /\ ~HardLimitReached(policy[w], usage[w], request)
           /\ \/ /\ Verdict(w, request) = Route(settings, request)
                 /\ Verdict(w, request) \in PermittedTiers(policy[w])
              \/ /\ Downgradable(settings, policy[w], Route(settings, request))
                 /\ Verdict(w, request) = policy[w].downgrades[Route(settings, request)]
           /\ IsMapped(settings, Verdict(w, request))
<1> DEFINE routed == Route(settings, request)
<1> DEFINE tier == Evaluate(settings, policy[w], usage[w], request, routed)
<1>1. Tiers \cap Refusals = {}
  BY DEF Tiers, Refusals
<1>2. /\ ValidPolicy(policy[w]) /\ tier # "blocked" /\ tier # "none" /\ IsMapped(settings, tier)
      /\ ValidEstimates(request) /\ Verdict(w, request) = tier
  <2> HIDE DEF tier
  <2>1. Verdict(w, request) \notin Refusals
    BY <1>1
  <2> QED
    BY <2>1 DEF Verdict, Refusals, tier
<1>3. /\ routed # "none" /\ ~HardLimitReached(policy[w], usage[w], request)
      /\ \/ tier = routed /\ tier \in PermittedTiers(policy[w])
         \/ Downgradable(settings, policy[w], routed) /\ tier = policy[w].downgrades[routed]
  BY <1>2 DEF Evaluate
<1> QED
  BY <1>2, <1>3

LEMMA RouteIsTier ==
    ASSUME NEW s, NEW request
    PROVE  /\ Route(s, request) \in Tiers
           /\ Route(s, request) = "premium" => s.premium_enabled /\ PremiumJustified(request)
BY DEF Route, Tiers

LEMMA Ranks ==
    /\ \A tier \in Tiers : Rank(tier) \in 0 .. 3
    /\ \A tier \in Tiers : Rank(tier) >= 3 => tier = "premium"
    /\ Rank("premium") = 3
BY DEF Tiers, Rank

(* The tier that is admitted is one the workspace may have.                *)
LEMMA AdmittedTier ==
    ASSUME NEW w \in Workspaces, NEW request, Verdict(w, request) \in Tiers
    PROVE  /\ Verdict(w, request) \in PermittedTiers(policy[w])
           /\ IsMapped(settings, Verdict(w, request))
           /\ Rank(Verdict(w, request)) <= Rank(Route(settings, request))
           /\ Verdict(w, request) = "premium" => settings.premium_enabled /\ PremiumJustified(request)
<1>1. PICK tier \in Tiers : tier = Verdict(w, request)
  OBVIOUS
<1>2. PICK routed \in Tiers : routed = Route(settings, request)
  BY RouteIsTier
<1>3. /\ ValidPolicy(policy[w]) /\ IsMapped(settings, tier)
      /\ \/ tier = routed /\ tier \in PermittedTiers(policy[w])
         \/ Downgradable(settings, policy[w], routed) /\ tier = policy[w].downgrades[routed]
  BY <1>1, <1>2, Admitted
<1>4. tier \in PermittedTiers(policy[w]) /\ Rank(tier) <= Rank(routed)
  <2>1. CASE tier = routed /\ tier \in PermittedTiers(policy[w])
    BY <2>1, Ranks
  <2>2. CASE Downgradable(settings, policy[w], routed) /\ tier = policy[w].downgrades[routed]
    <3>1. routed \in DOMAIN policy[w].downgrades /\ tier \in PermittedTiers(policy[w])
      BY <2>2 DEF Downgradable
    <3>2. LowerTier(routed, tier)
      BY <1>3, <2>2, <3>1 DEF ValidPolicy
    <3> QED
      BY <3>1, <3>2, Ranks DEF LowerTier
  <2> QED
    BY <1>3, <2>1, <2>2
<1>5. tier = "premium" => routed = "premium"
  BY <1>4, Ranks
<1> QED
  BY <1>1, <1>2, <1>3, <1>4, <1>5, RouteIsTier

LEMMA TierKept ==
    ASSUME TierInv, NEW c \in Calls, UNCHANGED <<settings, policy>>, Invoked(c),
           call'[c].workspace = call[c].workspace, call'[c].request = call[c].request,
           call'[c].tier = call[c].tier
    PROVE  TierOK(c)'
<1>1. TierOK(c)
  BY DEF TierInv, TierWithinPolicy, TierOK
<1> QED
  BY <1>1 DEF TierOK

LEMMA TierAgain ==
    ASSUME \A c \in Calls : Invoked(c)' => TierOK(c)', CoreInv'
    PROVE  TierInv'
BY DEF TierInv, TierWithinPolicy, TierOK

LEMMA TierStep == TierInv /\ [Next]_vars => TierInv'
<1> SUFFICES ASSUME TierInv, [Next]_vars PROVE TierInv'
  OBVIOUS
<1>1. CoreInv' /\ CoreInv
  BY CoreStep DEF TierInv
<1>2. ASSUME NEW c \in Calls, NEW w \in Workspaces, NEW request \in Requests, Refuse(c, w, request)
      PROVE  TierInv'
  <2>1. \A d \in Calls : Invoked(d)' => Invoked(d) /\ call'[d] = call[d]
    BY <1>1, <1>2, RefuseEffect DEF Invoked, Begun
  <2> QED
    BY <1>1, <1>2, <2>1, RefuseEffect, TierKept, TierAgain
<1>3. ASSUME NEW c \in Calls, NEW w \in Workspaces, NEW request \in Requests, Admit(c, w, request)
      PROVE  TierInv'
  <2>1. PICK tier : tier = Verdict(w, request)
    OBVIOUS
  <2>2. /\ call'[c].workspace = w /\ call'[c].request = request /\ call'[c].tier = tier
        /\ UNCHANGED <<settings, policy>>
    <3>1. /\ call'[c] = [phase |-> "waiting", workspace |-> w, request |-> request,
                         tier |-> Verdict(w, request), result |-> "none"]
          /\ UNCHANGED <<settings, policy>>
      BY <1>1, <1>3, AdmitEffect
    <3>2. call'[c] = [phase |-> "waiting", workspace |-> w, request |-> request,
                      tier |-> tier, result |-> "none"]
      BY <2>1, <3>1
    <3> QED
      BY <3>1, <3>2
  <2>3. /\ tier \in PermittedTiers(policy[w]) /\ IsMapped(settings, tier)
        /\ Rank(tier) <= Rank(Route(settings, request))
        /\ tier = "premium" => settings.premium_enabled /\ PremiumJustified(request)
    BY <1>3, <2>1, AdmittedTier DEF Admit
  <2>4. TierOK(c)'
    BY <2>2, <2>3 DEF TierOK
  <2>5. \A d \in Calls \ {c} : Invoked(d)' => Invoked(d) /\ call'[d] = call[d]
    BY <1>1, <1>3, AdmitEffect DEF Invoked, Begun
  <2> QED
    BY <1>1, <2>2, <2>4, <2>5, TierKept, TierAgain
<1>4. ASSUME NEW c \in Calls, NEW result, Ends(c, result)
      PROVE  TierInv'
  <2>1. Invoked(c)
    BY <1>1, <1>4, EndsEffect DEF Invoked, Begun, WaitingRow, Refusals
  <2>2. \A d \in Calls \ {c} : Invoked(d)' => Invoked(d) /\ call'[d] = call[d]
    BY <1>1, <1>4, EndsEffect DEF Invoked, Begun
  <2>3. UNCHANGED <<settings, policy>>
    BY <1>4 DEF Ends
  <2> QED
    BY <1>1, <1>4, <2>1, <2>2, <2>3, EndsEffect, TierKept, TierAgain
<1>5. CASE Stop
  <2>1. ASSUME NEW c \in Calls, Invoked(c)'
        PROVE  /\ Invoked(c) /\ call'[c].workspace = call[c].workspace
               /\ call'[c].request = call[c].request /\ call'[c].tier = call[c].tier
    <3>1. CASE call[c].phase = "waiting"
      BY <1>1, <1>5, <3>1, StopEffect DEF Invoked, Begun, WaitingRow, Refusals
    <3>2. CASE call[c].phase # "waiting"
      BY <1>1, <1>5, <2>1, <3>2, StopEffect DEF Invoked, Begun
    <3> QED
      BY <3>1, <3>2
  <2>2. UNCHANGED <<settings, policy>>
    BY <1>1, <1>5, StopEffect
  <2> QED
    BY <1>1, <2>1, <2>2, TierKept, TierAgain
<1>6. CASE UNCHANGED vars
  <2>1. \A c \in Calls : Invoked(c)' => Invoked(c) /\ call'[c] = call[c]
    BY <1>6 DEF vars, Invoked, Begun
  <2>2. UNCHANGED <<settings, policy>>
    BY <1>6 DEF vars
  <2> QED
    BY <1>1, <2>1, <2>2, TierKept, TierAgain
<1> QED
  BY <1>2, <1>3, <1>4, <1>5, <1>6, Steps

(* A call reaches a tier that its workspace permits, never a better one    *)
(* than the routing chose, and premium only where it is enabled and        *)
(* justified (AIModelRoutingPolicy.decide, AIWorkspaceUsageLimitPolicy).   *)
THEOREM TiersAreWithinPolicy == Spec => []TierWithinPolicy
<1>1. Init => TierInv
  BY InitCore DEF Init, TierInv, TierWithinPolicy, Invoked, Begun, Idle
<1>2. TierInv => TierWithinPolicy
  BY DEF TierInv
<1> QED
  BY <1>1, <1>2, TierStep, PTL DEF Spec

-----------------------------------------------------------------------------
(* The ledger of one workspace grows by a row.                             *)
Grows(w, row) ==
    /\ Len(usage'[w]) = Len(usage[w]) + 1
    /\ \A i \in 1 .. Len(usage[w]) : usage'[w][i] = usage[w][i]
    /\ usage'[w][Len(usage[w]) + 1] = row
    /\ \A v \in Workspaces \ {w} : usage'[v] = usage[v]

(* The row tells of a call that ends with this result.                     *)
TellsOf(row, c, result) ==
    /\ row.call = c /\ row.model = settings.tiers[call[c].tier]
    /\ row.status = "failed" => row.cost = Absent
    /\ row.status \in {"successful", "failed"}
    /\ row.status = "successful" <=> result \in {"answered", "unaccounted"}
    /\ settings \in Deployments => RowTyped(row)

LEMMA EndsLedger ==
    ASSUME CoreInv, NEW c \in Calls, NEW result, Ends(c, result)
    PROVE  \/ usage' = usage /\ result # "answered"
           \/ \E w \in Workspaces : \E row :
                 w = call[c].workspace /\ Grows(w, row) /\ TellsOf(row, c, result)
<1>1. PICK w \in Workspaces : w = call[c].workspace
  BY EndsEffect DEF WaitingRow
<1>2. ASSUME NEW row, usage' = [usage EXCEPT ![w] = Append(@, row)]
      PROVE  Grows(w, row)
  <2>1. /\ usage'[w] = Append(usage[w], row)
        /\ \A v \in Workspaces \ {w} : usage'[v] = usage[v]
    BY <1>2 DEF CoreInv
  <2>2. IsLedger(usage[w])
    BY DEF CoreInv
  <2>3. PICK rows : rows = usage[w]
    OBVIOUS
  <2>4. /\ Len(Append(rows, row)) = Len(rows) + 1
        /\ \A i \in 1 .. Len(rows) : Append(rows, row)[i] = rows[i]
        /\ Append(rows, row)[Len(rows) + 1] = row
    BY <2>2, <2>3, AppendToLedger
  <2> QED
    BY <2>1, <2>3, <2>4 DEF Grows
<1>3. ASSUME NEW row, usage' = [usage EXCEPT ![call[c].workspace] = Append(@, row)]
      PROVE  Grows(w, row)
  BY <1>1, <1>2, <1>3
<1>4. CASE ~(usage' = usage /\ result # "answered")
  <2>1. PICK row : /\ usage' = [usage EXCEPT ![call[c].workspace] = Append(@, row)]
                   /\ TellsOf(row, c, result)
    BY <1>4 DEF Ends, TellsOf
  <2> QED
    BY <1>1, <1>3, <2>1
<1> QED
  BY <1>4

LEMMA InitPrices == Init => PriceInv
<1> SUFFICES ASSUME Init PROVE PriceInv
  OBVIOUS
<1>1. \A w \in Workspaces : 1 .. Len(usage[w]) = {}
  BY DEF Init
<1> QED
  BY <1>1, InitCore DEF PriceInv

LEMMA PriceStep == PriceInv /\ [Next]_vars => PriceInv'
<1> SUFFICES ASSUME PriceInv, [Next]_vars PROVE PriceInv'
  OBVIOUS
<1>1. CoreInv' /\ CoreInv
  BY CoreStep DEF PriceInv
<1>2. CASE UNCHANGED usage
  BY <1>1, <1>2 DEF PriceInv
<1>3. ASSUME NEW c \in Calls, NEW result, Ends(c, result)
      PROVE  PriceInv'
  <2>1. ASSUME NEW w \in Workspaces, NEW row, Grows(w, row), TellsOf(row, c, result)
        PROVE  PriceInv'
    <3>1. Len(usage[w]) \in Nat
      BY <1>1, LedgerLength DEF CoreInv
    <3>2. \A i \in 1 .. Len(usage'[w]) : i \in 1 .. Len(usage[w]) \/ i = Len(usage[w]) + 1
      BY <2>1, <3>1 DEF Grows
    <3>3. \A i \in 1 .. Len(usage'[w]) : usage'[w][i].status = "failed" => usage'[w][i].cost = Absent
      BY <2>1, <3>2 DEF PriceInv, Grows, TellsOf
    <3>4. \A v \in Workspaces \ {w} : \A i \in 1 .. Len(usage'[v]) :
              usage'[v][i].status = "failed" => usage'[v][i].cost = Absent
      BY <2>1 DEF PriceInv, Grows
    <3> QED
      BY <1>1, <3>3, <3>4 DEF PriceInv
  <2> QED
    BY <1>1, <1>2, <1>3, <2>1, EndsLedger
<1>4. ASSUME NEW c \in Calls, NEW w \in Workspaces, NEW request \in Requests,
             Refuse(c, w, request) \/ Admit(c, w, request)
      PROVE  UNCHANGED usage
  BY <1>4 DEF Refuse, Admit
<1>5. Stop \/ UNCHANGED vars => UNCHANGED usage
  BY DEF Stop, vars
<1> QED
  BY <1>2, <1>3, <1>4, <1>5, Steps

(* Nobody is admitted to a workspace whose ledger lacks a price.           *)
LEMMA ClosedWithoutPrice ==
    ASSUME PriceInv, NEW w \in Workspaces, Known(policy[w].spend), Failed(w), NEW request
    PROVE  Verdict(w, request) \notin Tiers
<1>1. PICK i \in 1 .. Len(usage[w]) : usage[w][i].status = "failed"
  <2>1. DOMAIN usage[w] = 1 .. Len(usage[w])
    BY LedgerLength DEF PriceInv, CoreInv
  <2> QED
    BY <2>1 DEF Failed
<1>2. usage[w][i].cost = Absent /\ i \in DOMAIN usage[w]
  BY <1>1, LedgerLength DEF PriceInv, CoreInv
<1>3. UnknownPricing(usage[w])
  BY <1>2 DEF UnknownPricing, Known
<1>4. SpendExhausted(policy[w], usage[w], request)
  BY <1>3 DEF SpendExhausted
<1>5. HardLimitReached(policy[w], usage[w], request)
  BY <1>4 DEF HardLimitReached
<1> QED
  BY <1>5, Admitted

(* In a workspace with a limit on spend, one call that failed closes the   *)
(* provider to every later one (_hard_limit_decision).                     *)
THEOREM FailureCloses == Spec => FailureClosesSpendLimited
<1>1. PriceInv /\ [Next]_vars =>
          [\A w \in Workspaces : (Known(policy[w].spend) /\ Failed(w)) => InFlight(w)' \subseteq InFlight(w)]_vars
  <2> SUFFICES ASSUME PriceInv, [Next]_vars, NEW w \in Workspaces, Known(policy[w].spend), Failed(w)
      PROVE  InFlight(w)' \subseteq InFlight(w)
    OBVIOUS
  <2>1. CoreInv
    BY DEF PriceInv
  <2>2. ASSUME NEW c \in Calls, NEW v \in Workspaces, NEW request \in Requests, Refuse(c, v, request)
        PROVE  InFlight(w)' \subseteq InFlight(w)
    BY <2>1, <2>2, RefuseEffect DEF InFlight
  <2>3. ASSUME NEW c \in Calls, NEW v \in Workspaces, NEW request \in Requests, Admit(c, v, request)
        PROVE  InFlight(w)' \subseteq InFlight(w)
    <3>1. v # w
      <4>1. Verdict(v, request) \in Tiers
        BY <2>3 DEF Admit
      <4>2. Verdict(w, request) \notin Tiers
        BY ClosedWithoutPrice
      <4> QED
        BY <4>1, <4>2
    <3>2. call'[c].workspace = v /\ \A d \in Calls \ {c} : call'[d] = call[d]
      BY <2>1, <2>3, AdmitEffect
    <3> QED
      BY <3>1, <3>2 DEF InFlight
  <2>4. ASSUME NEW c \in Calls, NEW result, Ends(c, result)
        PROVE  InFlight(w)' \subseteq InFlight(w)
    BY <2>1, <2>4, EndsEffect DEF InFlight
  <2>5. CASE Stop
    <3>1. \A c \in Calls : call'[c].phase = "waiting" => call[c].phase = "waiting" /\ call'[c] = call[c]
      BY <2>1, <2>5, StopEffect
    <3> QED
      BY <3>1 DEF InFlight
  <2>6. CASE UNCHANGED vars
    BY <2>6 DEF vars, InFlight
  <2> QED
    BY <2>2, <2>3, <2>4, <2>5, <2>6, Steps
<1> QED
  BY <1>1, InitPrices, PriceStep, PTL DEF Spec, FailureClosesSpendLimited

-----------------------------------------------------------------------------
LEMMA InitLedger == Init => LedgerInv
<1> SUFFICES ASSUME Init PROVE LedgerInv
  OBVIOUS
<1>1. \A w \in Workspaces : 1 .. Len(usage[w]) = {}
  BY DEF Init
<1>2. \A c \in Calls : call[c].phase # "ended"
  BY DEF Init, Idle
<1> QED
  BY <1>1, <1>2, InitCore DEF LedgerInv

(* A step that keeps the ledgers, and ends no recorded call again.         *)
LEMMA LedgerKept ==
    ASSUME LedgerInv, CoreInv', UNCHANGED <<usage, settings>>,
           \A c \in Calls : call[c].phase = "ended" => call'[c] = call[c],
           \A c \in Calls : call'[c].phase = "ended" /\ call'[c].result = "answered" => call'[c] = call[c]
    PROVE  LedgerInv'
<1>1. ASSUME NEW w \in Workspaces, NEW i \in 1 .. Len(usage[w])
      PROVE  RowOK(w, i)'
  <2>1. RowOK(w, i)
    BY DEF LedgerInv
  <2>2. call'[usage[w][i].call] = call[usage[w][i].call]
    BY <2>1 DEF RowOK, Served
  <2> QED
    BY <2>1, <2>2 DEF RowOK, Served
<1>2. \A w \in Workspaces : \A i, j \in 1 .. Len(usage'[w]) :
          usage'[w][i].call = usage'[w][j].call => i = j
  BY DEF LedgerInv
<1>3. \A c \in Calls : call'[c].phase = "ended" /\ call'[c].result = "answered" =>
          \E i \in 1 .. Len(usage'[call'[c].workspace]) : usage'[call'[c].workspace][i].call = c
  BY DEF LedgerInv
<1> QED
  BY <1>1, <1>2, <1>3 DEF LedgerInv

LEMMA EndsKeepsLedger ==
    ASSUME LedgerInv, NEW c \in Calls, NEW result, Ends(c, result)
    PROVE  LedgerInv'
<1>1. CoreInv /\ CoreInv'
  BY EndsEffect DEF LedgerInv
<1>2. /\ call[c].phase = "waiting" /\ result \notin Refusals
      /\ call'[c].phase = "ended" /\ call'[c].result = result
      /\ call'[c].workspace = call[c].workspace /\ call'[c].tier = call[c].tier
      /\ \A d \in Calls \ {c} : call'[d] = call[d]
      /\ UNCHANGED settings
  <2>1. call[c].phase = "waiting" /\ result \notin Refusals /\ UNCHANGED settings
    BY DEF Ends
  <2> QED
    BY <1>1, <2>1, EndsEffect
<1>3. CASE usage' = usage /\ result # "answered"
  BY <1>1, <1>2, <1>3, LedgerKept
<1>4. ASSUME NEW w \in Workspaces, NEW row, w = call[c].workspace, Grows(w, row), TellsOf(row, c, result)
      PROVE  LedgerInv'
  <2>1. PICK n \in Nat : n = Len(usage[w])
    BY <1>1, LedgerLength DEF CoreInv
  <2>2. /\ \A i \in 1 .. n : usage'[w][i] = usage[w][i]
        /\ usage'[w][n + 1] = row /\ Len(usage'[w]) = n + 1
        /\ \A v \in Workspaces \ {w} : usage'[v] = usage[v]
    BY <1>4, <2>1 DEF Grows
  <2>3. \A i \in 1 .. n + 1 : i \in 1 .. n \/ i = n + 1
    BY <2>1
  <2>4. ASSUME NEW v \in Workspaces, NEW i \in 1 .. Len(usage[v])
        PROVE  RowOK(v, i) /\ usage[v][i].call # c
    <3>1. RowOK(v, i)
      BY DEF LedgerInv
    <3> QED
      BY <1>2, <3>1 DEF RowOK, Served
  <2>5. ASSUME NEW v \in Workspaces, NEW i \in 1 .. Len(usage[v]), usage'[v][i] = usage[v][i]
        PROVE  RowOK(v, i)'
    <3>1. RowOK(v, i) /\ usage[v][i].call # c
      BY <2>4
    <3>2. call'[usage[v][i].call] = call[usage[v][i].call]
      BY <1>2, <3>1 DEF RowOK, Served
    <3> QED
      BY <1>2, <2>5, <3>1, <3>2 DEF RowOK, Served
  <2>6. RowOK(w, n + 1)'
    BY <1>2, <1>4, <2>2 DEF RowOK, Served, TellsOf
  <2>7. ASSUME NEW v \in Workspaces, NEW i \in 1 .. Len(usage'[v])
        PROVE  RowOK(v, i)'
    <3>1. CASE v = w
      <4>1. CASE i \in 1 .. n
        BY <2>1, <2>2, <2>5, <3>1, <4>1
      <4>2. CASE i = n + 1
        BY <2>6, <3>1, <4>2
      <4> QED
        BY <2>2, <2>3, <3>1, <4>1, <4>2
    <3>2. CASE v # w
      BY <2>2, <2>5, <3>2
    <3> QED
      BY <3>1, <3>2
  <2>8. ASSUME NEW v \in Workspaces, NEW i \in 1 .. Len(usage'[v]), NEW j \in 1 .. Len(usage'[v]),
               usage'[v][i].call = usage'[v][j].call
        PROVE  i = j
    <3>1. CASE v = w
      <4>1. \A m \in 1 .. n : usage'[w][m].call # c
        BY <2>1, <2>2, <2>4
      <4>2. usage'[w][n + 1].call = c
        BY <1>4, <2>2 DEF TellsOf
      <4>3. CASE i \in 1 .. n /\ j \in 1 .. n
        <5>1. usage[w][i].call = usage[w][j].call
          BY <2>2, <2>8, <3>1, <4>3
        <5> QED
          BY <2>1, <4>3, <5>1 DEF LedgerInv
      <4> QED
        BY <2>2, <2>3, <2>8, <3>1, <4>1, <4>2, <4>3
    <3>2. CASE v # w
      BY <2>2, <2>8, <3>2 DEF LedgerInv
    <3> QED
      BY <3>1, <3>2
  <2>9. ASSUME NEW d \in Calls, call'[d].phase = "ended", call'[d].result = "answered"
        PROVE  \E i \in 1 .. Len(usage'[call'[d].workspace]) : usage'[call'[d].workspace][i].call = d
    <3>1. CASE d = c
      <4>1. n + 1 \in 1 .. n + 1 /\ usage'[w][n + 1].call = c
        BY <1>4, <2>1, <2>2 DEF TellsOf
      <4> QED
        BY <1>2, <1>4, <2>2, <3>1, <4>1
    <3>2. CASE d # c
      <4>1. call'[d] = call[d]
        BY <1>2, <3>2
      <4>2. PICK v : v = call[d].workspace
        OBVIOUS
      <4>3. v \in Workspaces
        BY <1>1, <2>9, <4>1, <4>2 DEF CoreInv, CallOK, Refusals
      <4>4. PICK i \in 1 .. Len(usage[v]) : usage[v][i].call = d
        BY <2>9, <4>1, <4>2 DEF LedgerInv
      <4>5. i \in 1 .. Len(usage'[v]) /\ usage'[v][i] = usage[v][i]
        <5>1. CASE v = w
          BY <2>1, <2>2, <4>4, <5>1
        <5>2. CASE v # w
          BY <2>2, <4>3, <4>4, <5>2
        <5> QED
          BY <5>1, <5>2
      <4> QED
        BY <4>1, <4>2, <4>4, <4>5
    <3> QED
      BY <3>1, <3>2
  <2> QED
    BY <1>1, <2>7, <2>8, <2>9 DEF LedgerInv
<1> QED
  BY <1>1, <1>3, <1>4, EndsLedger

LEMMA LedgerStep == LedgerInv /\ [Next]_vars => LedgerInv'
<1> SUFFICES ASSUME LedgerInv, [Next]_vars PROVE LedgerInv'
  OBVIOUS
<1>1. CoreInv' /\ CoreInv
  BY CoreStep DEF LedgerInv
<1>2. ASSUME NEW c \in Calls, NEW w \in Workspaces, NEW request \in Requests, Refuse(c, w, request)
      PROVE  LedgerInv'
  <2>1. /\ \A d \in Calls \ {c} : call'[d] = call[d]
        /\ call[c].phase = "idle" /\ call'[c].result \in Refusals
        /\ UNCHANGED <<usage, settings>>
    BY <1>1, <1>2, RefuseEffect
  <2> QED
    BY <1>1, <2>1, LedgerKept DEF Refusals
<1>3. ASSUME NEW c \in Calls, NEW w \in Workspaces, NEW request \in Requests, Admit(c, w, request)
      PROVE  LedgerInv'
  <2>1. /\ \A d \in Calls \ {c} : call'[d] = call[d]
        /\ call[c].phase = "idle" /\ call'[c].phase = "waiting"
        /\ UNCHANGED <<usage, settings>>
    BY <1>1, <1>3, AdmitEffect
  <2> QED
    BY <1>1, <2>1, LedgerKept
<1>4. CASE Stop
  <2>1. /\ \A c \in Calls : call[c].phase = "ended" => call'[c] = call[c]
        /\ \A c \in Calls : call'[c].result = "answered" => call'[c] = call[c]
        /\ UNCHANGED <<usage, settings>>
    BY <1>1, <1>4, StopEffect
  <2> QED
    BY <1>1, <2>1, LedgerKept
<1>5. CASE UNCHANGED vars
  <2>1. UNCHANGED <<usage, settings, call>>
    BY <1>5 DEF vars
  <2> QED
    BY <1>1, <2>1, LedgerKept
<1> QED
  BY <1>2, <1>3, <1>4, <1>5, Steps, EndsKeepsLedger

LEMMA RowsOfCall ==
    ASSUME LedgerInv, NEW c \in Calls, NEW row \in RowsOf(c)
    PROVE  /\ row[1] \in Workspaces /\ row[2] \in 1 .. Len(usage[row[1]]) /\ row = <<row[1], row[2]>>
           /\ usage[row[1]][row[2]].call = c
           /\ RowOK(row[1], row[2])
<1>1. PICK w \in Workspaces : row \in {w} \X DOMAIN usage[w]
  BY DEF RowsOf
<1>2. DOMAIN usage[w] = 1 .. Len(usage[w])
  BY LedgerLength DEF LedgerInv, CoreInv
<1>3. row[1] = w /\ row[2] \in 1 .. Len(usage[w]) /\ row = <<row[1], row[2]>>
  BY <1>1, <1>2
<1>4. usage[row[1]][row[2]].call = c
  BY DEF RowsOf
<1> QED
  BY <1>3, <1>4 DEF LedgerInv

(* Every answer is in the ledger once, in its own workspace and under the  *)
(* model it came from, and a row is a success exactly where the model      *)
(* served the call, seen by its caller or not                              *)
(* (AIInvocationUsageService.record).                                      *)
THEOREM AnswersAreAccounted == Spec => []AccountedOnce
<1>1. ASSUME LedgerInv, NEW c \in Calls
      PROVE  /\ Cardinality(RowsOf(c)) <= 1
             /\ ~Invoked(c) => RowsOf(c) = {}
             /\ (Begun(c) /\ call[c].result = "answered") => RowsOf(c) # {}
             /\ \A row \in RowsOf(c) :
                    /\ row[1] = call[c].workspace
                    /\ usage[row[1]][row[2]].model = settings.tiers[call[c].tier]
                    /\ usage[row[1]][row[2]].status = "successful" <=> Served(c)
  <2>1. CoreInv /\ CallOK(c)
    BY <1>1 DEF LedgerInv, CoreInv
  <2>2. \A row, other \in RowsOf(c) : row = other
    <3> SUFFICES ASSUME NEW row \in RowsOf(c), NEW other \in RowsOf(c) PROVE row = other
      OBVIOUS
    <3>1. row[1] = call[c].workspace /\ other[1] = call[c].workspace
      BY <1>1, RowsOfCall DEF RowOK, Served
    <3>2. PICK w \in Workspaces : w = row[1] /\ w = other[1]
      BY <1>1, <3>1, RowsOfCall
    <3>3. /\ row[2] \in 1 .. Len(usage[w]) /\ other[2] \in 1 .. Len(usage[w])
          /\ usage[w][row[2]].call = usage[w][other[2]].call
      BY <1>1, <3>2, RowsOfCall
    <3>4. row[2] = other[2]
      BY <1>1, <3>3 DEF LedgerInv
    <3> QED
      BY <1>1, <3>1, <3>4, RowsOfCall
  <2>3. Cardinality(RowsOf(c)) <= 1
    <3>1. CASE RowsOf(c) = {}
      BY <3>1, FS_EmptySet
    <3>2. CASE RowsOf(c) # {}
      <4>1. PICK row : RowsOf(c) = {row}
        BY <2>2, <3>2
      <4> QED
        BY <4>1, FS_Singleton
    <3> QED
      BY <3>1, <3>2
  <2>4. ~Invoked(c) => RowsOf(c) = {}
    <3> SUFFICES ASSUME NEW row \in RowsOf(c) PROVE Invoked(c)
      OBVIOUS
    <3>1. call[c].phase = "ended" /\ call[c].result \notin Refusals
      BY <1>1, RowsOfCall DEF RowOK, Served
    <3> QED
      BY <3>1 DEF Invoked, Begun
  <2>5. (Begun(c) /\ call[c].result = "answered") => RowsOf(c) # {}
    <3> SUFFICES ASSUME Begun(c), call[c].result = "answered" PROVE RowsOf(c) # {}
      OBVIOUS
    <3>1. call[c].phase = "ended"
      BY <2>1 DEF Begun, CallOK, WaitingRow
    <3>2. PICK w : w = call[c].workspace
      OBVIOUS
    <3>3. w \in Workspaces
      BY <2>1, <3>1, <3>2 DEF CallOK, Refusals
    <3>4. PICK i \in 1 .. Len(usage[w]) : usage[w][i].call = c
      BY <1>1, <3>1, <3>2 DEF LedgerInv
    <3>5. DOMAIN usage[w] = 1 .. Len(usage[w])
      BY <2>1, <3>3, LedgerLength DEF CoreInv
    <3>6. <<w, i>> \in UNION {{v} \X DOMAIN usage[v] : v \in Workspaces}
      BY <3>3, <3>4, <3>5
    <3> QED
      BY <3>4, <3>6 DEF RowsOf
  <2>6. ASSUME NEW row \in RowsOf(c)
        PROVE  /\ row[1] = call[c].workspace
               /\ usage[row[1]][row[2]].model = settings.tiers[call[c].tier]
               /\ usage[row[1]][row[2]].status = "successful" <=> Served(c)
    BY <1>1, RowsOfCall DEF RowOK, Served
  <2> QED
    BY <2>3, <2>4, <2>5, <2>6
<1>2. LedgerInv => AccountedOnce
  BY <1>1 DEF AccountedOnce
<1> QED
  BY <1>2, InitLedger, LedgerStep, PTL DEF Spec

-----------------------------------------------------------------------------
LEMMA InitCount == Init => CountInv
<1> SUFFICES ASSUME Init PROVE CountInv
  OBVIOUS
<1>1. \A w \in Workspaces : InFlight(w) = {} /\ Len(usage[w]) = 0
  BY DEF Init, InFlight, Idle
<1>2. \A w \in Workspaces : IsFiniteSet(InFlight(w)) /\ Cardinality(InFlight(w)) = 0
  BY <1>1, FS_EmptySet
<1>3. \A w \in Workspaces : ~(Len(usage[w]) + Cardinality(InFlight(w)) > 0)
  BY <1>1, <1>2
<1>4. \A w \in Workspaces : CountOK(w)
  BY <1>2, <1>3 DEF CountOK
<1> QED
  BY <1>4, InitCore DEF Init, CountInv

(* Fewer calls wait, and no row is added.                                  *)
LEMMA CountKept ==
    ASSUME CountInv, NEW w \in Workspaces, usage'[w] = usage[w], policy' = policy, peak'[w] = peak[w],
           InFlight(w)' \subseteq InFlight(w)
    PROVE  CountOK(w)'
<1>1. CountOK(w) /\ peak[w] \in Nat /\ Len(usage[w]) \in Nat
  BY LedgerLength DEF CountInv, CoreInv
<1>2. PICK before, after : before = InFlight(w) /\ after = InFlight(w)'
  OBVIOUS
<1>3. /\ IsFiniteSet(after) /\ Cardinality(after) <= Cardinality(before)
      /\ Cardinality(after) \in Nat /\ Cardinality(before) \in Nat
  BY <1>1, <1>2, FS_Subset, FS_CardinalityType DEF CountOK
<1>4. ASSUME Known(policy[w].invocations), Len(usage[w]) + Cardinality(after) > 0
      PROVE  /\ policy[w].invocations \in Nat
             /\ Len(usage[w]) + Cardinality(after) <= policy[w].invocations - 1 + peak[w]
  <2>1. /\ policy[w].invocations \in Nat
        /\ Len(usage[w]) + Cardinality(before) <= policy[w].invocations - 1 + peak[w]
    BY <1>1, <1>2, <1>3, <1>4 DEF CountOK
  <2> QED
    BY <1>1, <1>3, <2>1
<1> QED
  BY <1>2, <1>3, <1>4 DEF CountOK

LEMMA AdmitCount ==
    ASSUME CountInv, NEW c \in Calls, NEW w \in Workspaces, NEW request \in Requests,
           Admit(c, w, request)
    PROVE  CountInv'
<1>1. /\ CoreInv /\ CoreInv' /\ call[c].phase = "idle"
      /\ call'[c].phase = "waiting" /\ call'[c].workspace = w
      /\ \A d \in Calls \ {c} : call'[d] = call[d]
      /\ UNCHANGED <<settings, policy, usage>>
  BY AdmitEffect DEF CountInv
<1>2. PICK before, n : before = InFlight(w) /\ n = Cardinality(before) + 1
  OBVIOUS
<1>3. c \notin before /\ InFlight(w)' = before \cup {c}
  BY <1>1, <1>2 DEF InFlight
<1>4. IsFiniteSet(before)
  BY <1>2 DEF CountInv, CountOK
<1>5. /\ n \in Nat /\ n > 0
      /\ IsFiniteSet(before \cup {c}) /\ Cardinality(before \cup {c}) = n
  BY <1>2, <1>3, <1>4, FS_AddElement, FS_CardinalityType
<1>6. peak' = [peak EXCEPT ![w] = IF n > peak[w] THEN n ELSE peak[w]]
  BY <1>2 DEF Admit
<1>7. peak \in [Workspaces -> Nat]
  BY DEF CountInv
<1>8. /\ peak' \in [Workspaces -> Nat] /\ peak'[w] >= n
      /\ \A v \in Workspaces \ {w} : peak'[v] = peak[v]
  BY <1>5, <1>6, <1>7
<1>9. ASSUME Known(policy[w].invocations)
      PROVE  policy[w].invocations \in Nat /\ Len(usage[w]) + 1 <= policy[w].invocations
  <2>1. Verdict(w, request) \in Tiers
    BY DEF Admit
  <2>2. ValidPolicy(policy[w]) /\ ~HardLimitReached(policy[w], usage[w], request)
    BY <2>1, Admitted
  <2>3. policy[w].invocations \in Nat
    BY <1>9, <2>2 DEF ValidPolicy, ValidLimit, IsCount
  <2>4. ~(Len(usage[w]) + 1 > policy[w].invocations)
    BY <1>9, <2>2 DEF HardLimitReached, InvocationsExhausted, InvocationCount
  <2>5. Len(usage[w]) \in Nat
    BY <1>1, LedgerLength DEF CoreInv
  <2> QED
    BY <2>3, <2>4, <2>5
<1>10. CountOK(w)'
  <2>1. ASSUME Known(policy[w].invocations)
        PROVE  /\ policy[w].invocations \in Nat
               /\ Len(usage[w]) + n <= policy[w].invocations - 1 + peak'[w]
    <3>1. Len(usage[w]) \in Nat /\ peak'[w] \in Nat
      BY <1>1, <1>8, LedgerLength DEF CoreInv
    <3> QED
      BY <1>5, <1>8, <1>9, <2>1, <3>1
  <2> QED
    BY <1>1, <1>3, <1>5, <2>1 DEF CountOK
<1>11. ASSUME NEW v \in Workspaces \ {w}
       PROVE  CountOK(v)'
  <2>1. InFlight(v)' \subseteq InFlight(v)
    BY <1>1 DEF InFlight
  <2> QED
    BY <1>1, <1>8, <2>1, CountKept
<1> QED
  BY <1>1, <1>8, <1>10, <1>11 DEF CountInv

LEMMA EndsCount ==
    ASSUME CountInv, NEW c \in Calls, NEW result, Ends(c, result)
    PROVE  CountInv'
<1>1. CoreInv /\ CoreInv'
  BY EndsEffect DEF CountInv
<1>2. /\ call[c].phase = "waiting" /\ call'[c].phase = "ended"
      /\ \A d \in Calls \ {c} : call'[d] = call[d]
      /\ UNCHANGED <<settings, policy, peak>>
  BY <1>1, EndsEffect DEF Ends
<1>3. \A v \in Workspaces : InFlight(v)' \subseteq InFlight(v)
  BY <1>2 DEF InFlight
<1>4. CASE usage' = usage
  BY <1>1, <1>2, <1>3, <1>4, CountKept DEF CountInv
<1>5. ASSUME NEW w \in Workspaces, NEW row, w = call[c].workspace, Grows(w, row)
      PROVE  CountInv'
  <2>1. PICK before : before = InFlight(w)
    OBVIOUS
  <2>2. c \in before /\ InFlight(w)' = before \ {c}
    BY <1>2, <1>5, <2>1 DEF InFlight
  <2>3. CountOK(w) /\ peak[w] \in Nat /\ Len(usage[w]) \in Nat
    BY <1>1, LedgerLength DEF CountInv, CoreInv
  <2>4. /\ IsFiniteSet(before \ {c}) /\ Cardinality(before \ {c}) = Cardinality(before) - 1
        /\ Cardinality(before) \in Nat /\ Cardinality(before \ {c}) \in Nat
    BY <2>1, <2>2, <2>3, FS_RemoveElement, FS_CardinalityType DEF CountOK
  <2>5. Len(usage'[w]) = Len(usage[w]) + 1 /\ \A v \in Workspaces \ {w} : usage'[v] = usage[v]
    BY <1>5 DEF Grows
  <2>6. Len(usage'[w]) + Cardinality(before \ {c}) = Len(usage[w]) + Cardinality(before)
    BY <2>3, <2>4, <2>5
  <2>7. CountOK(w)'
    BY <1>2, <2>1, <2>2, <2>3, <2>4, <2>6 DEF CountOK
  <2>8. \A v \in Workspaces : CountOK(v)'
    BY <1>2, <1>3, <2>5, <2>7, CountKept
  <2> QED
    BY <1>1, <1>2, <2>8 DEF CountInv
<1> QED
  BY <1>1, <1>4, <1>5, EndsLedger

LEMMA CountStep == CountInv /\ [Next]_vars => CountInv'
<1> SUFFICES ASSUME CountInv, [Next]_vars PROVE CountInv'
  OBVIOUS
<1>1. CoreInv' /\ CoreInv
  BY CoreStep DEF CountInv
<1>2. ASSUME UNCHANGED <<usage, policy, peak>>, \A w \in Workspaces : InFlight(w)' \subseteq InFlight(w)
      PROVE  CountInv'
  BY <1>1, <1>2, CountKept DEF CountInv
<1>3. ASSUME NEW c \in Calls, NEW w \in Workspaces, NEW request \in Requests, Refuse(c, w, request)
      PROVE  CountInv'
  <2>1. /\ \A d \in Calls \ {c} : call'[d] = call[d]
        /\ call'[c].phase = "ended"
        /\ UNCHANGED <<usage, policy, peak>>
    BY <1>1, <1>3, RefuseEffect
  <2>2. \A v \in Workspaces : InFlight(v)' \subseteq InFlight(v)
    BY <2>1 DEF InFlight
  <2> QED
    BY <1>2, <2>1, <2>2
<1>4. CASE Stop
  <2>1. /\ \A c \in Calls : call'[c].phase = "waiting" => call[c].phase = "waiting" /\ call'[c] = call[c]
        /\ UNCHANGED <<usage, policy, peak>>
    BY <1>1, <1>4, StopEffect
  <2>2. \A v \in Workspaces : InFlight(v)' \subseteq InFlight(v)
    BY <2>1 DEF InFlight
  <2> QED
    BY <1>2, <2>1, <2>2
<1>5. CASE UNCHANGED vars
  BY <1>2, <1>5 DEF vars, InFlight
<1> QED
  BY <1>3, <1>4, <1>5, Steps, AdmitCount, EndsCount

(* The limit on invocations is overrun at most by the calls that waited    *)
(* beside another one (AIInvocationGateway.invoke).                        *)
THEOREM OverrunIsBounded == Spec => []OverrunWithinConcurrency
<1>1. CountInv => OverrunWithinConcurrency
  <2> SUFFICES ASSUME CountInv, NEW w \in Workspaces, Known(policy[w].invocations)
      PROVE  LET made == Len(usage[w]) + Cardinality(InFlight(w))
             IN  made = 0 \/ made <= policy[w].invocations - 1 + peak[w]
    BY DEF OverrunWithinConcurrency
  <2>1. CountOK(w) /\ Len(usage[w]) \in Nat
    BY LedgerLength DEF CountInv, CoreInv
  <2>2. Cardinality(InFlight(w)) \in Nat
    BY <2>1, FS_CardinalityType DEF CountOK
  <2> QED
    BY <2>1, <2>2 DEF CountOK
<1> QED
  BY <1>1, InitCount, CountStep, PTL DEF Spec

-----------------------------------------------------------------------------
(* Sums.                                                                   *)

Less == {p \in Nat \X Nat : p[1] < p[2]}

LEMMA LessIsWellFounded == IsWellFoundedOn(Less, Nat)
<1>1. OpToRel(<, Nat) = Less
  BY DEF OpToRel, Less
<1> QED
  BY <1>1, NatLessThanWellFounded

(* A set of numbers with zero and the successors of its members has all of *)
(* them: induction, in a form that names no operator.                      *)
LEMMA SetInduction ==
    ASSUME NEW T, 0 \in T, \A n \in T : n + 1 \in T
    PROVE  Nat \subseteq T
<1> DEFINE U == Nat \ T
<1> SUFFICES ASSUME U # {} PROVE FALSE
  OBVIOUS
<1>1. PICK x \in U : \A y \in U : <<y, x>> \notin Less
  <2> HIDE DEF U
  <2>1. U \subseteq Nat
    BY DEF U
  <2> QED
    BY <2>1, LessIsWellFounded, WFMin
<1>2. x # 0 /\ x \in Nat
  OBVIOUS
<1>3. x - 1 \in Nat /\ x - 1 < x /\ (x - 1) + 1 = x
  BY <1>2
<1>4. x - 1 \in T
  BY <1>1, <1>3 DEF Less
<1> QED
  BY <1>3, <1>4

(* The function behind a sum: what the values at a set of places add up to. *)
Adds(f, values, D) ==
    f = [s \in SUBSET D |-> IF s = {} THEN 0 ELSE f[s \ {Max(s)}] + values[Max(s)]]

(* Two families of numbers that agree up to a place.                       *)
Agree(v, w, n) == \A i \in 1 .. n : v[i] = w[i] /\ v[i] \in Nat

LEMMA SumAdds ==
    ASSUME NEW values
    PROVE  Sum(values) = (CHOOSE f : Adds(f, values, DOMAIN values))[DOMAIN values]
BY DEF Sum, FoldLeft, MapThenFoldSet, Adds

LEMMA TopIsMax ==
    ASSUME NEW n \in Nat, NEW s \in SUBSET (1 .. n + 1), n + 1 \in s
    PROVE  Max(s) = n + 1
<1>1. \A y \in s : n + 1 >= y
  OBVIOUS
<1>2. \A x \in s : (\A y \in s : x >= y) => x = n + 1
  <2> SUFFICES ASSUME NEW x \in s, \A y \in s : x >= y PROVE x = n + 1
    OBVIOUS
  <2>1. x \in Int /\ x >= n + 1 /\ n + 1 >= x
    BY <1>1
  <2> QED
    BY <2>1
<1>3. Max(s) \in s /\ \A y \in s : Max(s) >= y
  BY <1>1 DEF Max
<1> QED
  BY <1>2, <1>3

LEMMA AddsExists ==
    ASSUME NEW values, NEW n \in Nat
    PROVE  \E f : Adds(f, values, 1 .. n)
<1> DEFINE T == {k \in Nat : \E f : Adds(f, values, 1 .. k)}
<1>1. 0 \in T
  <2>1. 1 .. 0 = {} /\ SUBSET (1 .. 0) = {{}}
    OBVIOUS
  <2>2. PICK f : f = [s \in {{}} |-> 0]
    OBVIOUS
  <2>3. f = [s \in {{}} |-> IF s = {} THEN 0 ELSE f[s \ {Max(s)}] + values[Max(s)]]
    BY <2>2
  <2> QED
    BY <2>1, <2>3 DEF Adds
<1>2. ASSUME NEW k \in T
      PROVE  k + 1 \in T
  <2>1. PICK f : Adds(f, values, 1 .. k)
    OBVIOUS
  <2> DEFINE g == [s \in SUBSET (1 .. k + 1) |->
                       IF k + 1 \in s THEN f[s \ {k + 1}] + values[k + 1] ELSE f[s]]
  <2>2. ASSUME NEW s \in SUBSET (1 .. k + 1)
        PROVE  g[s] = IF s = {} THEN 0 ELSE g[s \ {Max(s)}] + values[Max(s)]
    <3>1. CASE k + 1 \in s
      <4>1. Max(s) = k + 1
        BY <3>1, TopIsMax
      <4>2. s \ {k + 1} \in SUBSET (1 .. k + 1) /\ k + 1 \notin s \ {k + 1}
        OBVIOUS
      <4>3. g[s \ {k + 1}] = f[s \ {k + 1}]
        BY <4>2
      <4> QED
        BY <3>1, <4>1, <4>3
    <3>2. CASE k + 1 \notin s
      <4>1. s \in SUBSET (1 .. k)
        BY <3>2
      <4>2. f[s] = IF s = {} THEN 0 ELSE f[s \ {Max(s)}] + values[Max(s)]
        BY <2>1, <4>1 DEF Adds
      <4>3. s \ {Max(s)} \in SUBSET (1 .. k + 1) /\ k + 1 \notin s \ {Max(s)}
        BY <3>2
      <4>4. g[s \ {Max(s)}] = f[s \ {Max(s)}] /\ g[s] = f[s]
        BY <3>2, <4>3
      <4> QED
        BY <4>2, <4>4
    <3> QED
      BY <3>1, <3>2
  <2>3. Adds(g, values, 1 .. k + 1)
    <3> DEFINE h == [s \in SUBSET (1 .. k + 1) |->
                         IF s = {} THEN 0 ELSE g[s \ {Max(s)}] + values[Max(s)]]
    <3>1. \A s \in SUBSET (1 .. k + 1) : g[s] = h[s]
      <4> HIDE DEF g
      <4> QED
        BY <2>2
    <3>2. g = h
      BY <3>1
    <3> HIDE DEF g
    <3> QED
      BY <3>2 DEF Adds
  <2> HIDE DEF g
  <2> QED
    BY <2>3
<1>3. Nat \subseteq T
  <2> HIDE DEF T
  <2> QED
    BY <1>1, <1>2, SetInduction
<1> QED
  BY <1>3

(* Two such functions agree where their values do.                         *)
LEMMA AddsAgree ==
    ASSUME NEW f, NEW g, NEW v, NEW w, NEW m \in Nat, NEW n \in Nat, m <= n,
           Adds(f, v, 1 .. m), Adds(g, w, 1 .. n),
           Agree(v, w, m)
    PROVE  f[1 .. m] = g[1 .. m] /\ f[1 .. m] \in Nat
<1> DEFINE T == {k \in Nat : k <= m => \A s \in SUBSET (1 .. k) : f[s] = g[s] /\ f[s] \in Nat}
<1>1. ASSUME NEW s \in SUBSET (1 .. m)
      PROVE  /\ f[s] = IF s = {} THEN 0 ELSE f[s \ {Max(s)}] + v[Max(s)]
             /\ g[s] = IF s = {} THEN 0 ELSE g[s \ {Max(s)}] + w[Max(s)]
  <2>1. s \in SUBSET (1 .. n)
    OBVIOUS
  <2> QED
    BY <2>1 DEF Adds
<1>2. 0 \in T
  <2>1. \A s \in SUBSET (1 .. 0) : s = {}
    OBVIOUS
  <2>2. {} \in SUBSET (1 .. m)
    OBVIOUS
  <2>3. f[{}] = 0 /\ g[{}] = 0
    BY <1>1, <2>2
  <2>4. ASSUME NEW s \in SUBSET (1 .. 0)
        PROVE  f[s] = g[s] /\ f[s] \in Nat
    <3>1. s = {}
      BY <2>1
    <3> QED
      BY <2>3, <3>1
  <2> QED
    BY <2>4
<1>3. ASSUME NEW k \in T
      PROVE  k + 1 \in T
  <2>0. k \in Nat /\ k + 1 \in Nat
    OBVIOUS
  <2> SUFFICES ASSUME k + 1 <= m
               PROVE  \A s \in SUBSET (1 .. k + 1) : f[s] = g[s] /\ f[s] \in Nat
    BY <2>0
  <2> SUFFICES ASSUME NEW s \in SUBSET (1 .. k + 1)
               PROVE  f[s] = g[s] /\ f[s] \in Nat
    OBVIOUS
  <2>1. \A t \in SUBSET (1 .. k) : f[t] = g[t] /\ f[t] \in Nat
    BY <2>0
  <2>2. CASE k + 1 \in s
    <3>1. Max(s) = k + 1 /\ s # {} /\ s \in SUBSET (1 .. m)
      BY <2>2, TopIsMax
    <3>2. s \ {k + 1} \in SUBSET (1 .. k)
      OBVIOUS
    <3>3. v[k + 1] = w[k + 1] /\ v[k + 1] \in Nat
      <4>1. k + 1 \in 1 .. m
        OBVIOUS
      <4> QED
        BY <4>1 DEF Agree
    <3>4. f[s] = f[s \ {k + 1}] + v[k + 1] /\ g[s] = g[s \ {k + 1}] + w[k + 1]
      BY <1>1, <3>1
    <3> QED
      BY <2>1, <3>2, <3>3, <3>4
  <2>3. CASE k + 1 \notin s
    <3>1. s \in SUBSET (1 .. k)
      BY <2>3
    <3> QED
      BY <2>1, <3>1
  <2> QED
    BY <2>2, <2>3
<1>4. Nat \subseteq T
  <2> HIDE DEF T
  <2> QED
    BY <1>2, <1>3, SetInduction
<1>5. m \in T
  BY <1>4
<1> QED
  BY <1>5

LEMMA SumOf ==
    ASSUME NEW values, NEW n \in Nat, DOMAIN values = 1 .. n
    PROVE  \E f : Adds(f, values, 1 .. n) /\ Sum(values) = f[1 .. n]
<1>1. \E f : Adds(f, values, 1 .. n)
  BY AddsExists
<1>2. Adds(CHOOSE f : Adds(f, values, 1 .. n), values, 1 .. n)
  BY <1>1
<1> QED
  BY <1>2, SumAdds

(* A sum of numbers, and what one more number adds to it.                  *)
LEMMA SumAppend ==
    ASSUME NEW m \in Nat, NEW v, NEW w, NEW x \in Nat,
           DOMAIN v = 1 .. m, DOMAIN w = 1 .. m + 1,
           \A i \in 1 .. m : v[i] \in Nat /\ w[i] = v[i], w[m + 1] = x
    PROVE  Sum(v) \in Nat /\ Sum(w) = Sum(v) + x
<1>1. PICK f : Adds(f, v, 1 .. m) /\ Sum(v) = f[1 .. m]
  BY SumOf
<1>2. PICK g : Adds(g, w, 1 .. m + 1) /\ Sum(w) = g[1 .. m + 1]
  BY SumOf
<1>3. f[1 .. m] = g[1 .. m] /\ f[1 .. m] \in Nat
  <2>1. PICK n \in Nat : n = m + 1 /\ m <= n
    OBVIOUS
  <2>2. Adds(g, w, 1 .. n)
    BY <1>2, <2>1
  <2>3. Agree(v, w, m)
    BY DEF Agree
  <2> QED
    BY <1>1, <2>1, <2>2, <2>3, AddsAgree
<1>4. PICK D : D = 1 .. m + 1
  OBVIOUS
<1>5. D \in SUBSET (1 .. m + 1) /\ m + 1 \in D
  BY <1>4
<1>6. Max(D) = m + 1 /\ D # {}
  BY <1>5, TopIsMax
<1>7. D \ {m + 1} = 1 .. m
  <2>1. \A i : i \in D \ {m + 1} <=> i \in 1 .. m
    BY <1>4
  <2> QED
    BY <2>1
<1>8. g[D] = g[D \ {Max(D)}] + w[Max(D)]
  BY <1>2, <1>5, <1>6 DEF Adds
<1>9. g[D] = g[1 .. m] + x
  BY <1>6, <1>7, <1>8
<1> QED
  BY <1>1, <1>2, <1>3, <1>4, <1>9

-----------------------------------------------------------------------------
(* What a workspace has spent, and what one more row adds to it.           *)
LEMMA RowAdds ==
    ASSUME NEW rows, IsLedger(rows), NEW more, IsLedger(more), NEW row, RowTyped(row),
           \A i \in 1 .. Len(rows) : RowTyped(rows[i]) /\ more[i] = rows[i],
           Len(more) = Len(rows) + 1, more[Len(rows) + 1] = row
    PROVE  /\ SpentTokens(rows) \in Nat /\ SpentTokens(more) = SpentTokens(rows) + OrZero(row.total)
           /\ KnownSpend(rows) \in Nat /\ KnownSpend(more) = KnownSpend(rows) + OrZero(row.cost)
           /\ OrZero(row.total) \in Nat /\ OrZero(row.cost) \in Nat
<1>1. PICK n \in Nat : n = Len(rows) /\ DOMAIN rows = 1 .. n /\ DOMAIN more = 1 .. n + 1
  BY LedgerLength
<1>2. \A r : RowTyped(r) => OrZero(r.total) \in Nat /\ OrZero(r.cost) \in Nat
  BY DEF RowTyped, OrZero, Known
<1>3. /\ \A i \in 1 .. n : RowTyped(rows[i]) /\ more[i] = rows[i]
      /\ more[n + 1] = row
  BY <1>1
<1>4. SpentTokens(rows) \in Nat /\ SpentTokens(more) = SpentTokens(rows) + OrZero(row.total)
  <2> DEFINE v == [i \in DOMAIN rows |-> OrZero(rows[i].total)]
  <2> DEFINE w == [i \in DOMAIN more |-> OrZero(more[i].total)]
  <2>1. DOMAIN v = 1 .. n /\ DOMAIN w = 1 .. n + 1
    BY <1>1
  <2>2. \A i \in 1 .. n : v[i] \in Nat /\ w[i] = v[i]
    BY <1>1, <1>2, <1>3
  <2>3. w[n + 1] = OrZero(row.total)
    BY <1>1, <1>3
  <2>4. OrZero(row.total) \in Nat
    BY <1>2
  <2>5. Sum(v) \in Nat /\ Sum(w) = Sum(v) + OrZero(row.total)
    <3> HIDE DEF v, w
    <3> QED
      BY <2>1, <2>2, <2>3, <2>4, SumAppend
  <2> QED
    BY <2>5 DEF SpentTokens
<1>5. KnownSpend(rows) \in Nat /\ KnownSpend(more) = KnownSpend(rows) + OrZero(row.cost)
  <2> DEFINE v == [i \in DOMAIN rows |-> OrZero(rows[i].cost)]
  <2> DEFINE w == [i \in DOMAIN more |-> OrZero(more[i].cost)]
  <2>1. DOMAIN v = 1 .. n /\ DOMAIN w = 1 .. n + 1
    BY <1>1
  <2>2. \A i \in 1 .. n : v[i] \in Nat /\ w[i] = v[i]
    BY <1>1, <1>2, <1>3
  <2>3. w[n + 1] = OrZero(row.cost)
    BY <1>1, <1>3
  <2>4. OrZero(row.cost) \in Nat
    BY <1>2
  <2>5. Sum(v) \in Nat /\ Sum(w) = Sum(v) + OrZero(row.cost)
    <3> HIDE DEF v, w
    <3> QED
      BY <2>1, <2>2, <2>3, <2>4, SumAppend
  <2> QED
    BY <2>5 DEF KnownSpend
<1> QED
  BY <1>2, <1>4, <1>5

LEMMA SpentIsNumber ==
    ASSUME NEW rows, IsLedger(rows), \A i \in 1 .. Len(rows) : RowTyped(rows[i])
    PROVE  SpentTokens(rows) \in Nat /\ KnownSpend(rows) \in Nat
<1>1. PICK row : row = [total |-> 0, cost |-> 0]
  OBVIOUS
<1>2. RowTyped(row)
  BY <1>1 DEF RowTyped
<1>3. /\ IsLedger(Append(rows, row)) /\ Len(Append(rows, row)) = Len(rows) + 1
      /\ \A i \in 1 .. Len(rows) : RowTyped(rows[i]) /\ Append(rows, row)[i] = rows[i]
      /\ Append(rows, row)[Len(rows) + 1] = row
  BY AppendToLedger
<1> QED
  BY <1>2, <1>3, RowAdds

LEMMA InitBudget == Init => BudgetInv
<1> SUFFICES ASSUME Init PROVE BudgetInv
  OBVIOUS
<1>1. LedgerInv /\ CountInv /\ settings \in Deployments
  BY InitLedger, InitCount DEF Init
<1>2. \A w \in Workspaces : InFlight(w) = {} /\ usage[w] = <<>> /\ peak[w] = 0
  BY DEF Init, InFlight, Idle
<1>3. \A w \in Workspaces : SerialOK(w)
  BY <1>2 DEF SerialOK
<1>4. ASSUME NEW w \in Workspaces
      PROVE  RoomOK(w)
  <2>1. 1 .. Len(usage[w]) = {}
    BY <1>2
  <2>2. peak[w] >= Cardinality(InFlight(w))
    <3>1. InFlight(w) = {} /\ peak[w] = 0
      BY <1>2
    <3>2. Cardinality(InFlight(w)) = 0
      BY <3>1, FS_EmptySet
    <3> QED
      BY <3>1, <3>2
  <2> QED
    BY <1>2, <2>1, <2>2 DEF RoomOK
<1> QED
  BY <1>1, <1>3, <1>4 DEF BudgetInv

(* A workspace whose rows stay, and where at most fewer calls wait.        *)
LEMMA CoverKept ==
    ASSUME LedgerInv, NEW w \in Workspaces, usage'[w] = usage[w],
           \A d \in Calls : call[d].phase = "ended" => call'[d] = call[d], EstimatesCover(w)'
    PROVE  EstimatesCover(w)
<1>1. DOMAIN usage[w] = 1 .. Len(usage[w])
  BY LedgerLength DEF LedgerInv, CoreInv
<1>2. \A i \in DOMAIN usage[w] : call'[usage[w][i].call] = call[usage[w][i].call]
  BY <1>1 DEF LedgerInv, RowOK
<1> QED
  BY <1>2 DEF EstimatesCover

LEMMA BudgetKept ==
    ASSUME BudgetInv, NEW w \in Workspaces, usage'[w] = usage[w], policy' = policy, peak'[w] = peak[w],
           \A d \in Calls : call[d].phase = "ended" => call'[d] = call[d],
           \A d \in InFlight(w)' : d \in InFlight(w) /\ call'[d] = call[d]
    PROVE  RoomOK(w)' /\ SerialOK(w)'
<1>1. RoomOK(w) /\ SerialOK(w) /\ CountOK(w) /\ LedgerInv
  BY DEF BudgetInv, CountInv
<1>2. SerialOK(w)'
  BY <1>1, CoverKept DEF SerialOK
<1>3. peak'[w] >= Cardinality(InFlight(w)')
  <2>1. PICK before, after : before = InFlight(w) /\ after = InFlight(w)' /\ after \subseteq before
    OBVIOUS
  <2>2. /\ Cardinality(after) <= Cardinality(before)
        /\ Cardinality(after) \in Nat /\ Cardinality(before) \in Nat
    BY <1>1, <2>1, FS_Subset, FS_CardinalityType DEF CountOK
  <2>3. peak[w] \in Nat
    BY DEF BudgetInv, CountInv
  <2>4. peak[w] >= Cardinality(before)
    BY <1>1, <2>1 DEF RoomOK
  <2> QED
    BY <2>1, <2>2, <2>3, <2>4
<1>4. ASSUME peak'[w] <= 1, NEW c \in InFlight(w)'
      PROVE  InFlight(w)' = {c} /\ HasRoom(w, call[c].request)'
  <2>1. c \in InFlight(w) /\ call'[c] = call[c]
    OBVIOUS
  <2>2. InFlight(w) = {c} /\ HasRoom(w, call[c].request)
    BY <1>1, <1>4, <2>1 DEF RoomOK
  <2> QED
    BY <2>1, <2>2 DEF HasRoom
<1> QED
  BY <1>1, <1>2, <1>3, <1>4 DEF RoomOK

LEMMA AdmitBudget ==
    ASSUME BudgetInv, NEW c \in Calls, NEW w \in Workspaces, NEW request \in Requests,
           Admit(c, w, request)
    PROVE  \A v \in Workspaces : RoomOK(v)' /\ SerialOK(v)'
<1>1. CoreInv /\ LedgerInv /\ CountInv /\ RoomOK(w) /\ SerialOK(w)
  BY DEF BudgetInv, LedgerInv
<1>2. /\ call[c].phase = "idle" /\ call'[c].phase = "waiting" /\ call'[c].workspace = w
      /\ \A d \in Calls \ {c} : call'[d] = call[d]
      /\ UNCHANGED <<settings, policy, usage>>
  BY <1>1, AdmitEffect
<1>3. call'[c].request = request
  <2>1. PICK tier : tier = Verdict(w, request)
    OBVIOUS
  <2>2. call'[c] = [phase |-> "waiting", workspace |-> w, request |-> request,
                    tier |-> tier, result |-> "none"]
    BY <1>1, <2>1, AdmitEffect
  <2> QED
    BY <2>2
<1>4. PICK before, n : before = InFlight(w) /\ n = Cardinality(before) + 1
  OBVIOUS
<1>5. c \notin before /\ InFlight(w)' = before \cup {c} /\ IsFiniteSet(before)
  BY <1>1, <1>2, <1>4 DEF InFlight, CountInv, CountOK
<1>6. /\ n \in Nat /\ Cardinality(before \cup {c}) = n
      /\ n <= 1 => before = {}
  <2>1. Cardinality(before) \in Nat /\ Cardinality(before \cup {c}) = Cardinality(before) + 1
    BY <1>5, FS_AddElement, FS_CardinalityType
  <2>2. Cardinality(before) = 0 => before = {}
    BY <1>5, FS_EmptySet
  <2> QED
    BY <1>4, <2>1, <2>2
<1>7. /\ peak'[w] \in Nat /\ peak'[w] >= n /\ peak'[w] >= peak[w] /\ peak[w] \in Nat
      /\ \A v \in Workspaces \ {w} : peak'[v] = peak[v]
  <2>1. peak' = [peak EXCEPT ![w] = IF n > peak[w] THEN n ELSE peak[w]]
    BY <1>4 DEF Admit
  <2>2. peak \in [Workspaces -> Nat]
    BY <1>1 DEF CountInv
  <2> QED
    BY <1>6, <2>1, <2>2
<1>8. HasRoom(w, request)
  <2>1. Verdict(w, request) \in Tiers
    BY DEF Admit
  <2>2. /\ ValidPolicy(policy[w]) /\ ValidEstimates(request)
        /\ ~HardLimitReached(policy[w], usage[w], request)
    BY <2>1, Admitted
  <2>3. IsLedger(usage[w]) /\ \A i \in 1 .. Len(usage[w]) : RowTyped(usage[w][i])
    BY <1>1 DEF CoreInv, RoomOK
  <2>4. PICK spent, paid : spent = SpentTokens(usage[w]) /\ paid = KnownSpend(usage[w])
    OBVIOUS
  <2>5. spent \in Nat /\ paid \in Nat
    BY <2>3, <2>4, SpentIsNumber
  <2>6. ASSUME Known(policy[w].tokens)
        PROVE  /\ policy[w].tokens \in Nat /\ Known(request.tokens) /\ request.tokens \in Nat
               /\ spent + request.tokens <= policy[w].tokens
    <3>1. policy[w].tokens \in Nat
      BY <2>2, <2>6 DEF ValidPolicy, ValidLimit, IsCount
    <3>2. Known(request.tokens) /\ ~(spent + request.tokens > policy[w].tokens)
      BY <2>2, <2>4, <2>6 DEF HardLimitReached, TokensExhausted
    <3>3. request.tokens \in Nat
      BY <2>2, <3>2 DEF ValidEstimates, IsCount
    <3> QED
      BY <2>5, <3>1, <3>2, <3>3
  <2>7. ASSUME Known(policy[w].spend)
        PROVE  /\ policy[w].spend \in Nat /\ Known(request.cost) /\ request.cost \in Nat
               /\ paid + request.cost <= policy[w].spend
    <3>1. policy[w].spend \in Nat
      BY <2>2, <2>7 DEF ValidPolicy, ValidLimit, IsCount
    <3>2. Known(request.cost) /\ ~(paid + request.cost > policy[w].spend)
      BY <2>2, <2>4, <2>7 DEF HardLimitReached, SpendExhausted
    <3>3. request.cost \in Nat
      BY <2>2, <3>2 DEF ValidEstimates, IsCount
    <3> QED
      BY <2>5, <3>1, <3>2, <3>3
  <2> QED
    BY <2>4, <2>6, <2>7 DEF HasRoom
<1>9. RoomOK(w)'
  <2>1. HasRoom(w, request)'
    BY <1>2, <1>8 DEF HasRoom
  <2>2. ASSUME peak'[w] <= 1, NEW d \in InFlight(w)'
        PROVE  InFlight(w)' = {d} /\ HasRoom(w, call[d].request)'
    <3>1. before = {}
      BY <1>6, <1>7, <2>2
    <3>2. InFlight(w)' = {c} /\ d = c
      BY <1>5, <2>2, <3>1
    <3> QED
      BY <1>3, <2>1, <3>2 DEF HasRoom
  <2>3. peak'[w] >= Cardinality(InFlight(w)')
    BY <1>5, <1>6, <1>7
  <2> QED
    BY <1>1, <1>2, <2>2, <2>3 DEF RoomOK
<1>10. SerialOK(w)'
  <2>1. \A d \in Calls : call[d].phase = "ended" => call'[d] = call[d]
    BY <1>2
  <2>2. EstimatesCover(w)' => EstimatesCover(w)
    BY <1>1, <1>2, <2>1, CoverKept
  <2>3. peak'[w] <= 1 => peak[w] <= 1
    BY <1>7
  <2> QED
    BY <1>1, <1>2, <2>2, <2>3 DEF SerialOK
<1>11. ASSUME NEW v \in Workspaces \ {w}
       PROVE  RoomOK(v)' /\ SerialOK(v)'
  <2>1. \A d \in InFlight(v)' : d \in InFlight(v) /\ call'[d] = call[d]
    BY <1>2 DEF InFlight
  <2>2. \A d \in Calls : call[d].phase = "ended" => call'[d] = call[d]
    BY <1>2
  <2> QED
    BY <1>2, <1>7, <2>1, <2>2, BudgetKept
<1> QED
  BY <1>9, <1>10, <1>11

LEMMA EndsBudget ==
    ASSUME BudgetInv, NEW c \in Calls, NEW result, Ends(c, result)
    PROVE  \A v \in Workspaces : RoomOK(v)' /\ SerialOK(v)'
<1>1. CoreInv /\ LedgerInv /\ CountInv /\ settings \in Deployments
  BY DEF BudgetInv, LedgerInv
<1>2. /\ call[c].phase = "waiting" /\ call'[c].phase = "ended" /\ call'[c].request = call[c].request
      /\ \A d \in Calls \ {c} : call'[d] = call[d]
      /\ UNCHANGED <<settings, policy, peak>> /\ CoreInv'
  BY <1>1, EndsEffect DEF Ends
<1>3. \A d \in Calls : call[d].phase = "ended" => call'[d] = call[d]
  BY <1>2
<1>4. \A v \in Workspaces : \A d \in InFlight(v)' : d \in InFlight(v) /\ call'[d] = call[d]
  BY <1>2 DEF InFlight
<1>5. CASE usage' = usage
  BY <1>2, <1>3, <1>4, <1>5, BudgetKept
<1>6. ASSUME NEW w \in Workspaces, NEW row, w = call[c].workspace, Grows(w, row), TellsOf(row, c, result)
      PROVE  \A v \in Workspaces : RoomOK(v)' /\ SerialOK(v)'
  <2>1. PICK before, rows, more, request :
            /\ before = InFlight(w) /\ rows = usage[w] /\ more = usage'[w] /\ request = call[c].request
    OBVIOUS
  <2>2. c \in before /\ InFlight(w)' = before \ {c} /\ IsFiniteSet(before)
    BY <1>1, <1>2, <1>6, <2>1 DEF InFlight, CountInv, CountOK
  <2>3. RoomOK(w) /\ SerialOK(w) /\ peak[w] \in Nat
    BY <1>1 DEF BudgetInv, CountInv
  <2>4. RowTyped(row) /\ row.call = c
    BY <1>1, <1>6 DEF TellsOf
  <2>5. /\ IsLedger(rows) /\ IsLedger(more) /\ Len(more) = Len(rows) + 1 /\ more[Len(rows) + 1] = row
        /\ \A i \in 1 .. Len(rows) : RowTyped(rows[i]) /\ more[i] = rows[i]
        /\ Len(rows) \in Nat /\ DOMAIN more = 1 .. Len(more)
    BY <1>1, <1>2, <1>6, <2>1, <2>3, LedgerLength DEF CoreInv, Grows, RoomOK
  <2>6. /\ SpentTokens(rows) \in Nat /\ SpentTokens(more) = SpentTokens(rows) + OrZero(row.total)
        /\ KnownSpend(rows) \in Nat /\ KnownSpend(more) = KnownSpend(rows) + OrZero(row.cost)
        /\ OrZero(row.total) \in Nat /\ OrZero(row.cost) \in Nat
    BY <2>4, <2>5, RowAdds
  <2>7. RoomOK(w)'
    <3>1. \A i \in 1 .. Len(more) : i \in 1 .. Len(rows) \/ i = Len(rows) + 1
      BY <2>5
    <3>2. \A i \in 1 .. Len(more) : RowTyped(more[i])
      BY <2>4, <2>5, <3>1
    <3>3. peak[w] <= 1 => before \ {c} = {}
      BY <2>1, <2>2, <2>3 DEF RoomOK
    <3>4. /\ Cardinality(before \ {c}) <= Cardinality(before)
          /\ Cardinality(before \ {c}) \in Nat /\ Cardinality(before) \in Nat
      BY <2>2, FS_Subset, FS_CardinalityType
    <3>5. peak[w] >= Cardinality(before \ {c})
      BY <2>1, <2>3, <3>4 DEF RoomOK
    <3> QED
      BY <1>2, <2>1, <2>2, <3>2, <3>3, <3>5 DEF RoomOK
  <2>8. SerialOK(w)'
    <3> SUFFICES ASSUME peak[w] <= 1, EstimatesCover(w)'
        PROVE  /\ Known(policy[w].tokens) => SpentTokens(more) <= policy[w].tokens
               /\ Known(policy[w].spend) => KnownSpend(more) <= policy[w].spend
      BY <1>2, <2>1 DEF SerialOK
    <3>1. HasRoom(w, request)
      BY <2>1, <2>2, <2>3 DEF RoomOK
    <3>2. /\ Known(row.total) => Known(request.tokens) /\ row.total <= request.tokens
          /\ Known(row.cost) => Known(request.cost) /\ row.cost <= request.cost
      <4>1. PICK last : last = Len(rows) + 1
        OBVIOUS
      <4>2. last \in DOMAIN usage'[w] /\ usage'[w][last] = row
        BY <2>1, <2>5, <4>1
      <4>3. call'[row.call].request = request
        BY <1>2, <2>1, <2>4
      <4> QED
        BY <4>2, <4>3 DEF EstimatesCover
    <3>3. ASSUME Known(policy[w].tokens)
          PROVE  SpentTokens(more) <= policy[w].tokens
      <4>1. /\ policy[w].tokens \in Nat /\ request.tokens \in Nat
            /\ SpentTokens(rows) + request.tokens <= policy[w].tokens
        BY <2>1, <3>1, <3>3 DEF HasRoom
      <4>2. OrZero(row.total) <= request.tokens
        BY <3>2, <4>1 DEF OrZero
      <4> QED
        BY <2>6, <4>1, <4>2
    <3>4. ASSUME Known(policy[w].spend)
          PROVE  KnownSpend(more) <= policy[w].spend
      <4>1. /\ policy[w].spend \in Nat /\ request.cost \in Nat
            /\ KnownSpend(rows) + request.cost <= policy[w].spend
        BY <2>1, <3>1, <3>4 DEF HasRoom
      <4>2. OrZero(row.cost) <= request.cost
        BY <3>2, <4>1 DEF OrZero
      <4> QED
        BY <2>6, <4>1, <4>2
    <3> QED
      BY <3>3, <3>4
  <2>9. ASSUME NEW v \in Workspaces \ {w}
        PROVE  RoomOK(v)' /\ SerialOK(v)'
    <3>1. usage'[v] = usage[v]
      BY <1>6 DEF Grows
    <3> QED
      BY <1>2, <1>3, <1>4, <3>1, BudgetKept
  <2> QED
    BY <2>7, <2>8, <2>9
<1> QED
  BY <1>1, <1>5, <1>6, EndsLedger

LEMMA BudgetStep == BudgetInv /\ [Next]_vars => BudgetInv'
<1> SUFFICES ASSUME BudgetInv, [Next]_vars PROVE BudgetInv'
  OBVIOUS
<1>1. LedgerInv' /\ CountInv' /\ CoreInv /\ settings \in Deployments
  BY LedgerStep, CountStep DEF BudgetInv, LedgerInv
<1>2. ASSUME UNCHANGED <<usage, policy, peak>>, \A d \in Calls : call[d].phase = "ended" => call'[d] = call[d],
             \A d \in Calls : call'[d].phase = "waiting" => call'[d] = call[d]
      PROVE  \A w \in Workspaces : RoomOK(w)' /\ SerialOK(w)'
  <2>1. \A w \in Workspaces : \A d \in InFlight(w)' : d \in InFlight(w) /\ call'[d] = call[d]
    BY <1>2 DEF InFlight
  <2> QED
    BY <1>2, <2>1, BudgetKept
<1>3. ASSUME NEW c \in Calls, NEW w \in Workspaces, NEW request \in Requests, Refuse(c, w, request)
      PROVE  settings' = settings /\ \A v \in Workspaces : RoomOK(v)' /\ SerialOK(v)'
  <2>1. /\ \A d \in Calls \ {c} : call'[d] = call[d]
        /\ call[c].phase = "idle" /\ call'[c].phase = "ended"
        /\ UNCHANGED <<settings, usage, policy, peak>>
    BY <1>1, <1>3, RefuseEffect
  <2> QED
    BY <1>2, <2>1
<1>4. ASSUME NEW c \in Calls, NEW w \in Workspaces, NEW request \in Requests, Admit(c, w, request)
      PROVE  settings' = settings /\ \A v \in Workspaces : RoomOK(v)' /\ SerialOK(v)'
  BY <1>1, <1>4, AdmitEffect, AdmitBudget
<1>5. ASSUME NEW c \in Calls, NEW result, Ends(c, result)
      PROVE  settings' = settings /\ \A v \in Workspaces : RoomOK(v)' /\ SerialOK(v)'
  BY <1>5, EndsBudget DEF Ends
<1>6. CASE Stop
  <2>1. /\ \A d \in Calls : call'[d].phase = "waiting" => call'[d] = call[d]
        /\ \A d \in Calls : call[d].phase = "ended" => call'[d] = call[d]
        /\ UNCHANGED <<settings, usage, policy, peak>>
    BY <1>1, <1>6, StopEffect
  <2> QED
    BY <1>1, <1>2, <2>1 DEF BudgetInv
<1>7. CASE UNCHANGED vars
  BY <1>1, <1>2, <1>7 DEF vars, BudgetInv
<1> QED
  BY <1>1, <1>3, <1>4, <1>5, <1>6, <1>7, Steps DEF BudgetInv

(* The budgets of a workspace hold: its calls overrun the limit on their   *)
(* number at most by those that waited beside another one, and where none  *)
(* did and the estimates are honest, its tokens and its spend stay within  *)
(* their limits (AIWorkspaceUsageLimitPolicy._hard_limit_decision).        *)
THEOREM BudgetsAreKept == Spec => []BudgetsHold
<1>1. BudgetInv => SerialBudgetsHold
  BY DEF BudgetInv, SerialOK, SerialBudgetsHold
<1>2. Spec => []SerialBudgetsHold
  BY <1>1, InitBudget, BudgetStep, PTL DEF Spec
<1> QED
  BY <1>2, OverrunIsBounded, PTL DEF BudgetsHold
-----------------------------------------------------------------------------
(* What the types of the rows, of the peaks and of the bounds need beside  *)
(* the budgets.                                                            *)
BoundsInv ==
    /\ BudgetInv
    /\ policy \in Assignments /\ stops \in 0 .. MaxStops
    /\ \A w \in Workspaces : peak[w] <= Cardinality(Calls)
    /\ \A w \in Workspaces : \A i \in 1 .. Len(usage[w]) :
          usage[w][i].status \in {"successful", "failed"}

LEMMA InitBounds == IsFiniteSet(Calls) /\ Init => BoundsInv
<1> SUFFICES ASSUME IsFiniteSet(Calls), Init PROVE BoundsInv
  OBVIOUS
<1>1. Cardinality(Calls) \in Nat
  BY FS_CardinalityType
<1>2. \A w \in Workspaces : peak[w] = 0 /\ 1 .. Len(usage[w]) = {}
  BY DEF Init
<1>3. \A w \in Workspaces : peak[w] <= Cardinality(Calls)
  BY <1>1, <1>2
<1>4. policy \in Assignments /\ stops \in 0 .. MaxStops
  BY GatewayAssumptions DEF GatewayAssumptions, Init
<1> QED
  BY <1>2, <1>3, <1>4, InitBudget DEF BoundsInv

(* The settings of the bounds: nothing but a stop counts stops, and no     *)
(* step of the gateway changes a policy.                                   *)
LEMMA StopsAndPolicies ==
    ASSUME stops \in 0 .. MaxStops, [Next]_vars
    PROVE  stops' \in 0 .. MaxStops /\ policy' = policy
<1>1. MaxStops \in Nat
  BY GatewayAssumptions DEF GatewayAssumptions
<1>2. CASE Stop
  <2>1. stops < MaxStops /\ stops' = stops + 1 /\ policy' = policy
    BY <1>2 DEF Stop
  <2> QED
    BY <1>1, <2>1
<1> QED
  BY <1>2 DEF Next, Refuse, Admit, Fail, Complete, vars

(* No more calls wait than there are.                                      *)
LEMMA AdmitPeak ==
    ASSUME IsFiniteSet(Calls), CountInv, NEW c \in Calls, NEW w \in Workspaces, NEW request \in Requests,
           Admit(c, w, request), \A v \in Workspaces : peak[v] <= Cardinality(Calls)
    PROVE  \A v \in Workspaces : peak'[v] <= Cardinality(Calls)
<1>1. PICK before, n : before = InFlight(w) /\ n = Cardinality(before) + 1
  OBVIOUS
<1>2. call[c].phase = "idle"
  BY AdmitEffect DEF CountInv
<1>3. c \notin before /\ before \cup {c} \subseteq Calls
  BY <1>1, <1>2 DEF InFlight
<1>4. IsFiniteSet(before)
  BY <1>1 DEF CountInv, CountOK
<1>5. /\ Cardinality(before \cup {c}) = n
      /\ Cardinality(before \cup {c}) <= Cardinality(Calls)
  BY <1>1, <1>3, <1>4, FS_AddElement, FS_Subset
<1>6. peak' = [peak EXCEPT ![w] = IF n > peak[w] THEN n ELSE peak[w]]
  BY <1>1 DEF Admit
<1>7. peak \in [Workspaces -> Nat]
  BY DEF CountInv
<1> QED
  BY <1>5, <1>6, <1>7

LEMMA BoundsStep == IsFiniteSet(Calls) /\ BoundsInv /\ [Next]_vars => BoundsInv'
<1> SUFFICES ASSUME IsFiniteSet(Calls), BoundsInv, [Next]_vars PROVE BoundsInv'
  OBVIOUS
<1>1. BudgetInv' /\ CountInv /\ CoreInv /\ stops' \in 0 .. MaxStops /\ policy' = policy
  BY BudgetStep, StopsAndPolicies DEF BoundsInv, BudgetInv, CountInv
<1> DEFINE Rest == /\ \A w \in Workspaces : peak[w] <= Cardinality(Calls)
                   /\ \A w \in Workspaces : \A i \in 1 .. Len(usage[w]) :
                         usage[w][i].status \in {"successful", "failed"}
<1>2. Rest
  BY DEF BoundsInv
<1>3. usage' = usage /\ peak' = peak => Rest'
  BY <1>2
<1>4. ASSUME NEW c \in Calls, NEW w \in Workspaces, NEW request \in Requests, Refuse(c, w, request)
      PROVE  Rest'
  BY <1>3, <1>4 DEF Refuse
<1>5. ASSUME NEW c \in Calls, NEW w \in Workspaces, NEW request \in Requests, Admit(c, w, request)
      PROVE  Rest'
  <2>1. \A v \in Workspaces : peak'[v] <= Cardinality(Calls)
    BY <1>1, <1>2, <1>5, AdmitPeak
  <2>2. usage' = usage
    BY <1>5 DEF Admit
  <2> QED
    BY <1>2, <2>1, <2>2
<1>6. ASSUME NEW c \in Calls, NEW result, Ends(c, result)
      PROVE  Rest'
  <2>1. peak' = peak
    BY <1>6 DEF Ends
  <2>2. CASE usage' = usage
    BY <1>3, <2>1, <2>2
  <2>3. ASSUME NEW w \in Workspaces, NEW row, Grows(w, row), TellsOf(row, c, result)
        PROVE  Rest'
    <3>1. /\ Len(usage'[w]) = Len(usage[w]) + 1 /\ usage'[w][Len(usage[w]) + 1] = row
          /\ \A i \in 1 .. Len(usage[w]) : usage'[w][i] = usage[w][i]
          /\ \A v \in Workspaces \ {w} : usage'[v] = usage[v]
      BY <2>3 DEF Grows
    <3>2. row.status \in {"successful", "failed"}
      BY <2>3 DEF TellsOf
    <3>3. Len(usage[w]) \in Nat
      BY <1>1, LedgerLength DEF CoreInv
    <3>4. \A i \in 1 .. Len(usage'[w]) : i \in 1 .. Len(usage[w]) \/ i = Len(usage[w]) + 1
      BY <3>1, <3>3
    <3>5. \A i \in 1 .. Len(usage'[w]) : usage'[w][i].status \in {"successful", "failed"}
      BY <1>2, <3>1, <3>2, <3>4
    <3>6. \A v \in Workspaces : \A i \in 1 .. Len(usage'[v]) :
             usage'[v][i].status \in {"successful", "failed"}
      BY <1>2, <3>1, <3>5
    <3> QED
      BY <1>2, <2>1, <3>6
  <2> QED
    BY <1>1, <1>6, <2>2, <2>3, EndsLedger
<1>7. ASSUME Stop PROVE Rest'
  BY <1>1, <1>3, <1>7, StopEffect
<1>8. ASSUME UNCHANGED vars PROVE Rest'
  BY <1>3, <1>8 DEF vars
<1>9. Rest'
  BY <1>4, <1>5, <1>6, <1>7, <1>8, Steps
<1> QED
  BY <1>1, <1>9 DEF BoundsInv

(* The gateway is typed, whatever the calls ask for and the provider       *)
(* reports: every row of the ledger names a call and holds numbers or      *)
(* nothing, a call that reached a model keeps its workspace, its request   *)
(* and its tier, and never do more calls wait than there are               *)
(* (AIInvocationGateway.invoke).                                           *)
THEOREM GatewayIsTyped == IsFiniteSet(Calls) => (Spec => []TypeOK)
<1> SUFFICES ASSUME IsFiniteSet(Calls) PROVE Spec => []TypeOK
  OBVIOUS
<1>1. ASSUME BoundsInv PROVE TypeOK
  <2>1. LedgerInv /\ CountInv /\ CoreInv /\ settings \in Deployments
    BY <1>1 DEF BoundsInv, BudgetInv, LedgerInv
  <2>2. policy \in Assignments /\ stops \in 0 .. MaxStops
    BY <1>1 DEF BoundsInv
  <2>3. peak \in [Workspaces -> 0 .. Cardinality(Calls)]
    <3>1. peak \in [Workspaces -> Nat] /\ \A w \in Workspaces : peak[w] <= Cardinality(Calls)
      BY <1>1, <2>1 DEF BoundsInv, CountInv
    <3>2. Cardinality(Calls) \in Nat
      BY FS_CardinalityType
    <3> QED
      BY <3>1, <3>2
  <2>4. ASSUME NEW w \in Workspaces, NEW i \in DOMAIN usage[w]
        PROVE  /\ usage[w][i].call \in Calls
               /\ usage[w][i].status \in {"successful", "failed"}
               /\ {usage[w][i].total, usage[w][i].cost} \subseteq Nat \cup {Absent}
    <3>1. i \in 1 .. Len(usage[w])
      BY <2>1, <2>4, LedgerLength DEF CoreInv
    <3>2. usage[w][i].call \in Calls
      BY <2>1, <3>1 DEF LedgerInv, RowOK
    <3>3. RowTyped(usage[w][i])
      BY <1>1, <3>1 DEF BoundsInv, BudgetInv, RoomOK
    <3>4. usage[w][i].status \in {"successful", "failed"}
      BY <1>1, <3>1 DEF BoundsInv
    <3> QED
      BY <3>2, <3>3, <3>4 DEF RowTyped
  <2>5. ASSUME NEW c \in Calls
        PROVE  /\ Begun(c) => <<call[c].phase, call[c].result>>
                                   \in {<<"waiting", "none">>} \cup ({"ended"} \X Results)
               /\ Invoked(c) => /\ call[c].workspace \in Workspaces /\ call[c].request \in Requests
                                /\ call[c].tier \in Tiers \ {"none"}
    <3>1. CallOK(c)
      BY <2>1 DEF CoreInv
    <3>2. CASE call[c].phase = "waiting"
      <4>1. /\ call[c].result = "none" /\ call[c].workspace \in Workspaces
            /\ call[c].request \in Requests /\ call[c].tier \in Tiers \ {"none"}
        BY <3>1, <3>2 DEF CallOK, WaitingRow
      <4> QED
        BY <3>2, <4>1
    <3>3. CASE call[c].phase = "ended"
      BY <3>1, <3>3 DEF CallOK, Invoked
    <3> QED
      BY <3>1, <3>2, <3>3 DEF CallOK, Begun, Invoked
  <2>6. DOMAIN usage = Workspaces /\ DOMAIN call = Calls
    BY <2>1 DEF CoreInv
  <2> QED
    BY <2>1, <2>2, <2>3, <2>4, <2>5, <2>6 DEF TypeOK
<1> QED
  BY <1>1, InitBounds, BoundsStep, PTL DEF Spec
=============================================================================
