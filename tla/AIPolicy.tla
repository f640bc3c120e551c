------------------------------- MODULE AIPolicy -------------------------------
(***************************************************************************)
(* The pure policies between an agent and the language model: routing to a *)
(* tier (ai_model_routing.py), the tier's model (ai_model_tiers.py), what  *)
(* a completion costs (ai_model_pricing.py, ai_invocation_usage.py), and   *)
(* the limits of a workspace (workspace_ai_usage_limits.py).  None of them *)
(* changes state; AIGateway calls them in order around one completion.     *)
(*                                                                         *)
(* A workspace's policy and the deployment's settings are records of       *)
(* values as they are stored, valid or not: the code parses them on every  *)
(* call.  Decimals are natural numbers, as only sums and comparisons of    *)
(* amounts matter; Absent is Python's None.                                *)
(***************************************************************************)
EXTENDS Integers, SequencesExt

CONSTANT Absent

-----------------------------------------------------------------------------
(* Tiers and routing.                                                      *)

Tiers == {"none", "economy", "standard", "premium"}

Rank(tier) == CASE tier = "none"     -> 0
                [] tier = "economy"  -> 1
                [] tier = "standard" -> 2
                [] tier = "premium"  -> 3

LightweightTasks == {"classification", "extraction", "simple_summary", "lightweight_qualification"}

StandardTasks == {"sales_conversation", "contextual_customer_response"}

RoutingTasks == {"deterministic", "complex_reasoning", "high_value_case"}
                    \cup LightweightTasks \cup StandardTasks

(* The only pairs of task and justification that earn the premium tier.    *)
PremiumJustified(request) ==
    <<request.task, request.justification>>
        \in {<<"complex_reasoning", "complex_case">>, <<"high_value_case", "high_value_case">>}

(* AIModelRoutingPolicy.decide                                             *)
Route(settings, request) ==
    CASE request.task = "deterministic"    -> "none"
      [] request.task \in LightweightTasks -> "economy"
      [] /\ request.task \notin StandardTasks
         /\ settings.premium_enabled
         /\ PremiumJustified(request)      -> "premium"
      [] OTHER                             -> "standard"

(* A tier resolves to the model it is mapped to; "none" never is mapped.   *)
IsMapped(settings, tier) == tier \in DOMAIN settings.tiers

(* A price has two finite rates, neither of them negative.                 *)
ValidPrice(price) == {price.input, price.output} \subseteq Nat

(* Settings are refused at start-up unless these hold.                     *)
ValidSettings(settings) ==
    /\ DOMAIN settings.tiers \subseteq Tiers \ {"none"}
    /\ \A i \in DOMAIN settings.pricing : ValidPrice(settings.pricing[i])
    /\ IsInjective([i \in DOMAIN settings.pricing |-> settings.pricing[i].model])

-----------------------------------------------------------------------------
(* Usage metadata and prices.                                              *)

Known(n) == n # Absent

IsCount(n) == n \in Nat

(* What the provider reports about one completion: a pair of counts and a  *)
(* total, each of which may be missing or unusable.                        *)
UsableCounts(reported) ==
    \A n \in {reported.input, reported.output, reported.total} : Known(n) => IsCount(n)

ConsistentTotal(reported) ==
    (Known(reported.input) /\ Known(reported.output) /\ Known(reported.total))
        => reported.total = reported.input + reported.output

(* A total is computed when both parts are known, and taken otherwise.     *)
TotalTokens(reported) == IF Known(reported.input) /\ Known(reported.output)
                         THEN reported.input + reported.output
                         ELSE reported.total

(* AIModelPricingCatalog.estimate behind _estimated_cost: no price without *)
(* both counts, and none for a model the catalogue does not list.          *)
Cost(settings, model, reported) ==
    LET entries == {i \in DOMAIN settings.pricing : settings.pricing[i].model = model}
    IN  IF ~Known(reported.input) \/ ~Known(reported.output) \/ entries = {}
        THEN Absent
        ELSE LET price == settings.pricing[CHOOSE i \in entries : TRUE]
             IN  reported.input * price.input + reported.output * price.output

NothingReported == [input |-> Absent, output |-> Absent, total |-> Absent]

UsageRow(settings, call, model, reported, status) ==
    [call  |-> call, model |-> model, status |-> status,
     total |-> TotalTokens(reported), cost |-> Cost(settings, model, reported)]

Sum(values) == FoldLeft(LAMBDA sum, value : sum + value, 0, values)

InvocationCount(rows) == Len(rows)

OrZero(n) == IF Known(n) THEN n ELSE 0

SpentTokens(rows) == Sum([i \in DOMAIN rows |-> OrZero(rows[i].total)])

KnownSpend(rows) == Sum([i \in DOMAIN rows |-> OrZero(rows[i].cost)])

UnknownPricing(rows) == \E i \in DOMAIN rows : ~Known(rows[i].cost)

-----------------------------------------------------------------------------
(* The limits of a workspace.                                              *)

PermittedTiers(policy) == IF policy.permitted = Absent THEN Tiers
                          ELSE ToSet(policy.permitted) \cup {"none"}

ValidLimit(limit) == Known(limit) => IsCount(limit)

LowerTier(source, target) == "none" \notin {source, target} /\ Rank(target) < Rank(source)

(* AIWorkspaceUsageLimitPolicy._configuration raises otherwise.            *)
ValidPolicy(policy) ==
    /\ Known(policy.permitted) => ToSet(policy.permitted) \subseteq Tiers /\ IsInjective(policy.permitted)
    /\ \A source \in DOMAIN policy.downgrades :
           /\ {source, policy.downgrades[source]} \subseteq Tiers
           /\ LowerTier(source, policy.downgrades[source])
    /\ ValidLimit(policy.invocations) /\ ValidLimit(policy.tokens) /\ ValidLimit(policy.spend)

(* The estimates of a request: a cost if, and only if, the price is known. *)
ValidEstimates(request) ==
    /\ Known(request.tokens) => IsCount(request.tokens)
    /\ Known(request.cost) => IsCount(request.cost)
    /\ request.pricing_known = TRUE => Known(request.cost)
    /\ request.pricing_known = FALSE => ~Known(request.cost)

(* faulty: the call that is being admitted does not count                  *)
InvocationsExhaustedLate(policy, rows) ==
    Known(policy.invocations) /\ InvocationCount(rows) > policy.invocations

InvocationsExhausted(policy, rows) ==
    Known(policy.invocations) /\ InvocationCount(rows) + 1 > policy.invocations

TokensExhausted(policy, rows, request) ==
    /\ Known(policy.tokens)
    /\ Known(request.tokens) => SpentTokens(rows) + request.tokens > policy.tokens

(* faulty: a row without a price counts as free                            *)
SpendExhaustedIgnoringUnknown(policy, rows, request) ==
    /\ Known(policy.spend)
    /\ (request.pricing_known = TRUE /\ Known(request.cost))
           => KnownSpend(rows) + request.cost > policy.spend

SpendExhausted(policy, rows, request) ==
    /\ Known(policy.spend)
    /\ (~UnknownPricing(rows) /\ request.pricing_known = TRUE /\ Known(request.cost))
           => KnownSpend(rows) + request.cost > policy.spend

(* AIWorkspaceUsageLimitPolicy._hard_limit_decision                        *)
HardLimitReached(policy, rows, request) ==
    \/ InvocationsExhausted(policy, rows)
    \/ TokensExhausted(policy, rows, request)
    \/ SpendExhausted(policy, rows, request)

(* faulty: the target of a downgrade is taken without looking at it        *)
DowngradableUnchecked(settings, policy, tier) ==
    tier \in DOMAIN policy.downgrades /\ IsMapped(settings, policy.downgrades[tier])

(* A downgrade is usable if its target is permitted and mapped to a model. *)
Downgradable(settings, policy, tier) ==
    /\ tier \in DOMAIN policy.downgrades
    /\ policy.downgrades[tier] \in PermittedTiers(policy)
    /\ IsMapped(settings, policy.downgrades[tier])

(* AIWorkspaceUsageLimitPolicy.evaluate: the tier the call may use, or     *)
(* "blocked".  Limits come first, and a downgrade never lifts a limit.     *)
Evaluate(settings, policy, rows, request, tier) ==
    IF tier = "none" THEN "none"
    ELSE IF HardLimitReached(policy, rows, request) THEN "blocked"
    ELSE IF tier \in PermittedTiers(policy) THEN tier
    ELSE IF Downgradable(settings, policy, tier) THEN policy.downgrades[tier]
    ELSE "blocked"
=============================================================================
