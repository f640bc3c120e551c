------------------------------ MODULE AIGateway ------------------------------
(***************************************************************************)
(* One completion of the language model per call, between the policies of  *)
(* AIPolicy and the usage ledger (ai_invocation_gateway.py).  Everything   *)
(* before the await on the provider happens in one step of the event loop: *)
(* route, limits, model, client.  While a call waits, other calls run, and *)
(* its own row reaches the ledger only after the answer, so a limit never  *)
(* counts the calls that are waiting.                                      *)
(***************************************************************************)
EXTENDS AIPolicy

CONSTANTS
    Calls,          \* the calls that are ever made
    Workspaces,
    Deployments,    \* bound: settings the process may run with
    Assignments,    \* bound: policies the workspaces may have
    Requests,       \* bound: what callers ask for
    Reports,        \* bound: usage metadata a completion may carry
    MaxStops        \* bound: how often the process stops

ASSUME GatewayAssumptions ==
    /\ \A settings \in Deployments : ValidSettings(settings)
    /\ \A request \in Requests : request.task \in RoutingTasks
    /\ NothingReported \in Reports
    /\ MaxStops \in Nat

VARIABLES
    settings,    \* Settings, read once per process
    policy,      \* the policy columns of each Workspace row
    usage,       \* AIInvocationUsage rows of each workspace in commit order
    call,        \* what each call asks for and how far it is
    peak,        \* most calls of a workspace that ever waited at once
    stops

vars == <<settings, policy, usage, call, peak, stops>>

-----------------------------------------------------------------------------
(* The calls.                                                              *)

Idle == [phase |-> "idle"]

Refusals == {"misconfigured", "invalid", "blocked", "skipped", "unmapped", "unbuilt"}

Results == Refusals \cup {"answered", "provider_error", "metadata_error", "unaccounted", "lost"}

Begun(c) == call[c].phase # "idle"

InFlight(w) == {c \in Calls : call[c].phase = "waiting" /\ call[c].workspace = w}

Invoked(c) == Begun(c) /\ call[c].result \notin Refusals

RowsOf(c) ==
    {row \in UNION {{w} \X DOMAIN usage[w] : w \in Workspaces} : usage[row[1]][row[2]].call = c}

(* build_llm: the client of OpenAI's protocol cannot be built without key. *)
ClientBuilds == settings.client = "openai_compatible" => settings.api_key

(* The bundled client raises on unusable metadata before it returns.       *)
ClientReturns(reported) ==
    settings.client = "openai_compatible" => UsableCounts(reported) /\ ConsistentTotal(reported)

(* The tier a call gets, or why it gets none.  AIInvocationGateway.invoke  *)
(* up to the construction of the client.                                   *)
Verdict(w, request) ==
    LET tier == Evaluate(settings, policy[w], usage[w], request, Route(settings, request))
    IN  IF ~ValidPolicy(policy[w])          THEN "misconfigured"
        ELSE IF ~ValidEstimates(request)    THEN "invalid"
        ELSE IF tier = "blocked"            THEN "blocked"
        ELSE IF tier = "none"               THEN "skipped"
        ELSE IF ~IsMapped(settings, tier)   THEN "unmapped"
        ELSE IF ~ClientBuilds               THEN "unbuilt"
        ELSE tier

-----------------------------------------------------------------------------
Init == /\ settings \in Deployments
        /\ policy \in Assignments
        /\ usage = [w \in Workspaces |-> <<>>]
        /\ call = [c \in Calls |-> Idle]
        /\ peak = [w \in Workspaces |-> 0]
        /\ stops = 0

(* A call that is not admitted leaves nothing behind, no row included.     *)
Refuse(c, w, request) ==
    /\ ~Begun(c)
    /\ Verdict(w, request) \in Refusals
    /\ call' = [call EXCEPT ![c] = [phase |-> "ended", result |-> Verdict(w, request)]]
    /\ UNCHANGED <<settings, policy, usage, peak, stops>>

Admit(c, w, request) ==
    /\ ~Begun(c)
    /\ Verdict(w, request) \in Tiers
    /\ call' = [call EXCEPT ![c] = [phase |-> "waiting", workspace |-> w, request |-> request,
                                    tier |-> Verdict(w, request), result |-> "none"]]
    /\ peak' = [peak EXCEPT ![w] = LET waiting == Cardinality(InFlight(w)) + 1
                                   IN  IF waiting > @ THEN waiting ELSE @]
    /\ UNCHANGED <<settings, policy, usage, stops>>

End(c, result) == call' = [call EXCEPT ![c].phase = "ended", ![c].result = result]

(* faulty: the row is filed under the default workspace                    *)
RecordForDefault(c, reported, status) ==
    LET w == CHOOSE w \in Workspaces : TRUE
    IN  usage' = [usage EXCEPT ![w] = Append(@, UsageRow(settings, c, settings.tiers[call[c].tier],
                                                         reported, status))]

(* AIInvocationUsageService.record: one row, one commit of its own.        *)
Record(c, reported, status) ==
    LET w == call[c].workspace
    IN  usage' = [usage EXCEPT ![w] = Append(@, UsageRow(settings, c, settings.tiers[call[c].tier],
                                                         reported, status))]

(* The commit and the refresh after it share one try: when the commit      *)
(* fails there is no row, when the refresh fails the row stays, and to the *)
(* caller both are the same error.  Neither is tried again.                *)
RecordOrNot(c, reported, status, result, otherwise) ==
    \/ Record(c, reported, status) /\ End(c, result)
    \/ Record(c, reported, status) /\ End(c, otherwise)
    \/ UNCHANGED usage /\ End(c, otherwise)

(* The provider answers.                                                   *)
Complete(c, reported) ==
    /\ call[c].phase = "waiting"
    /\ ClientReturns(reported)
    /\ IF UsableCounts(reported) /\ ConsistentTotal(reported)
       THEN RecordOrNot(c, reported, "successful", "answered", "unaccounted")
       ELSE RecordOrNot(c, NothingReported, "failed", "metadata_error", "metadata_error")
    /\ UNCHANGED <<settings, policy, peak, stops>>

(* The provider refuses, times out, or answers what the client rejects.    *)
Fail(c) ==
    /\ call[c].phase = "waiting"
    /\ RecordOrNot(c, NothingReported, "failed", "provider_error", "provider_error")
    /\ UNCHANGED <<settings, policy, peak, stops>>

(* The process stops: calls that wait are lost, and no row tells of them.  *)
Stop ==
    /\ stops < MaxStops
    /\ stops' = stops + 1
    /\ \E w \in Workspaces : InFlight(w) # {}
    /\ call' = [c \in Calls |-> IF call[c].phase = "waiting"
                                THEN [call[c] EXCEPT !.phase = "ended", !.result = "lost"]
                                ELSE call[c]]
    /\ UNCHANGED <<settings, policy, usage, peak>>

Next == \/ \E c \in Calls, w \in Workspaces, request \in Requests :
               Refuse(c, w, request) \/ Admit(c, w, request)
        \/ \E c \in Calls : Fail(c) \/ \E reported \in Reports : Complete(c, reported)
        \/ Stop

Spec == Init /\ [][Next]_vars

-----------------------------------------------------------------------------
(* Correctness.                                                            *)

(* Types of the rows and of the calls.                                     *)
TypeOK ==
    /\ settings \in Deployments /\ policy \in Assignments /\ stops \in 0..MaxStops
    /\ DOMAIN usage = Workspaces /\ DOMAIN call = Calls
    /\ peak \in [Workspaces -> 0..Cardinality(Calls)]
    /\ \A w \in Workspaces : \A i \in DOMAIN usage[w] :
           /\ usage[w][i].call \in Calls
           /\ usage[w][i].status \in {"successful", "failed"}
           /\ {usage[w][i].total, usage[w][i].cost} \subseteq Nat \cup {Absent}
    /\ \A c \in Calls :
           /\ Begun(c) => <<call[c].phase, call[c].result>>
                               \in {<<"waiting", "none">>} \cup ({"ended"} \X Results)
           /\ Invoked(c) => /\ call[c].workspace \in Workspaces /\ call[c].request \in Requests
                            /\ call[c].tier \in Tiers \ {"none"}

(* The limit on invocations is checked against the ledger before the await *)
(* and the row is written after it (invoke, :122 and :183).  The rows and  *)
(* the waiting calls of a workspace still exceed its limit by at most the  *)
(* calls that waited beside another one, whatever fails or is lost.        *)
OverrunWithinConcurrency ==
    \A w \in Workspaces : Known(policy[w].invocations) =>
        LET made == Len(usage[w]) + Cardinality(InFlight(w))
        IN  made = 0 \/ made <= policy[w].invocations - 1 + peak[w]

(* A call reaches the model of a tier its workspace permits, never a       *)
(* better one than the policy of routing chose, and premium only where the *)
(* deployment enables it and the request justifies it (decide, evaluate).  *)
TierWithinPolicy ==
    \A c \in Calls : Invoked(c) =>
        LET tier == call[c].tier
            request == call[c].request
        IN  /\ tier \in PermittedTiers(policy[call[c].workspace])
            /\ IsMapped(settings, tier)
            /\ Rank(tier) <= Rank(Route(settings, request))
            /\ tier = "premium" => settings.premium_enabled /\ PremiumJustified(request)

(* The model returned what could be used, whether or not the caller saw it.*)
Served(c) == call[c].result \in {"answered", "unaccounted"}

(* Every call is in the ledger at most once, in its own workspace and      *)
(* under the model it was sent to.  An answer its caller sees is always    *)
(* there.  A row is a success exactly where the model served the call: an  *)
(* accounting error may leave one behind, for the commit and the refresh   *)
(* that follows it fail alike (record, :104), any other error may not.     *)
AccountedOnce ==
    \A c \in Calls :
        /\ Cardinality(RowsOf(c)) <= 1
        /\ ~Invoked(c) => RowsOf(c) = {}
        /\ (Begun(c) /\ call[c].result = "answered") => RowsOf(c) # {}
        /\ \A row \in RowsOf(c) :
               /\ row[1] = call[c].workspace
               /\ usage[row[1]][row[2]].model = settings.tiers[call[c].tier]
               /\ usage[row[1]][row[2]].status = "successful" <=> Served(c)

(* No completion used more than its caller had estimated.                  *)
EstimatesCover(w) ==
    \A i \in DOMAIN usage[w] :
        LET row == usage[w][i]
            request == call[row.call].request
        IN  /\ Known(row.total) => Known(request.tokens) /\ row.total <= request.tokens
            /\ Known(row.cost) => Known(request.cost) /\ row.cost <= request.cost

(* Without overlapping calls, and with honest estimates, the limits on     *)
(* tokens and on spend are never exceeded (_hard_limit_decision): an       *)
(* admission leaves room for its own estimate.                             *)
SerialBudgetsHold ==
    \A w \in Workspaces : (peak[w] <= 1 /\ EstimatesCover(w) /\ usage[w] # <<>>) =>
        /\ Known(policy[w].tokens) => SpentTokens(usage[w]) <= policy[w].tokens
        /\ Known(policy[w].spend) => KnownSpend(usage[w]) <= policy[w].spend

(* The budgets of a workspace hold as far as they can: the two above.      *)
BudgetsHold == OverrunWithinConcurrency /\ SerialBudgetsHold

Failed(w) == \E i \in DOMAIN usage[w] : usage[w][i].status = "failed"

(* A call that failed is in the ledger without a price, and in a workspace *)
(* with a limit on spend a row without a price closes the provider to      *)
(* every later call (_record_failed..., _hard_limit_decision :195).        *)
FailureClosesSpendLimited ==
    [][\A w \in Workspaces : (Known(policy[w].spend) /\ Failed(w)) => InFlight(w)' \subseteq InFlight(w)]_vars
=============================================================================
