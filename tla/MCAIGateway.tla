----------------------------- MODULE MCAIGateway -----------------------------
(* Small instances of AIGateway for TLC.                                   *)
EXTENDS AIGateway

CONSTANTS c1, c2, c3,     \* calls
          w1, w2,         \* workspaces
          null

TwoCalls   == {c1, c2}
ThreeCalls == {c1, c2, c3}

TwoWorkspaces == {w1, w2}

(* One deployment with every tier but the economy one mapped and priced,   *)
(* one with premium disabled whose client takes what the provider reports. *)
MCDeployments ==
    {[premium_enabled |-> TRUE, client |-> "openai_compatible", api_key |-> TRUE,
      tiers |-> [standard |-> "large", premium |-> "best"],
      pricing |-> <<[model |-> "large", input |-> 1, output |-> 1], [model |-> "best", input |-> 1, output |-> 2]>>],
     [premium_enabled |-> FALSE, client |-> "other", api_key |-> FALSE,
      tiers |-> [economy |-> "small", standard |-> "large"],
      pricing |-> <<[model |-> "large", input |-> 1, output |-> 1]>>],
     [premium_enabled |-> FALSE, client |-> "openai_compatible", api_key |-> FALSE,
      tiers |-> [standard |-> "large"], pricing |-> <<>>]}

NoDowngrade == [tier \in {} |-> tier]

Unlimited == [invocations |-> null, tokens |-> null, spend |-> null,
              permitted |-> null, downgrades |-> NoDowngrade]

MCPolicies ==
    {[Unlimited EXCEPT !.invocations = 0],
     [Unlimited EXCEPT !.invocations = 2, !.permitted = <<"economy", "standard">>,
                       !.downgrades = [premium |-> "standard"]],
     [Unlimited EXCEPT !.tokens = 4, !.permitted = <<"premium">>,
                       !.downgrades = [standard |-> "economy"]],
     [Unlimited EXCEPT !.spend = 5],
     [Unlimited EXCEPT !.downgrades = [economy |-> "premium"]]}

(* The second workspace keeps one policy: it is there to be kept apart.    *)
MCAssignments == {(w1 :> p) @@ (w2 :> [Unlimited EXCEPT !.invocations = 1]) : p \in MCPolicies}

Asked == [task |-> "sales_conversation", justification |-> null,
          tokens |-> null, cost |-> null, pricing_known |-> null]

Estimated == [Asked EXCEPT !.tokens = 2, !.cost = 2, !.pricing_known = TRUE]

MCRequests ==
    {Asked, Estimated,
     [Estimated EXCEPT !.task = "complex_reasoning", !.justification = "complex_case", !.cost = 3],
     [Asked EXCEPT !.task = "high_value_case", !.justification = "complex_case"],
     [Estimated EXCEPT !.task = "simple_summary"],
     [Asked EXCEPT !.task = "deterministic"],
     [Asked EXCEPT !.cost = 2, !.pricing_known = FALSE]}

Reported(input, output, total) == [input |-> input, output |-> output, total |-> total]

MCReports == {NothingReported, Reported(1, 1, null), Reported(null, null, 2), Reported(1, 1, 3), Reported(-2, 1, null)}

CallSymmetry == Permutations(Calls)
=============================================================================
