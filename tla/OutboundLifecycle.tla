-------------------------- MODULE OutboundLifecycle --------------------------
(***************************************************************************)
(* What the outbound subsystem promises about one action, whoever asks for *)
(* it: the status follows the transition table, each recorded attempt ends *)
(* in delivered or failed, and an action never gets more attempts than the *)
(* retry policy allows.  OutboundDelivery is shown to implement this when  *)
(* the requests for an action do not overlap.                              *)
(***************************************************************************)
EXTENDS Naturals, OutboundTransitions

CONSTANT MaximumAttempts    \* OUTBOUND_DELIVERY_MAX_ATTEMPTS

VARIABLES status,     \* the status of the action
          attempts    \* how many delivery attempts have been recorded

lifecycleVars == <<status, attempts>>

LifecycleInit == status = "pending" /\ attempts = 0

(* One delivery attempt, the first or a retry, recorded with its outcome.  *)
Attempt(outcome) ==
    /\ CanTransition(status, outcome)
    /\ attempts < MaximumAttempts
    /\ status' = outcome
    /\ attempts' = attempts + 1

(* An action leaves the lifecycle without an attempt.                      *)
Withdraw(target) ==
    /\ CanTransition(status, target)
    /\ status' = target
    /\ UNCHANGED attempts

LifecycleNext == \/ \E outcome \in {"delivered", "failed"} : Attempt(outcome)
                 \/ \E target \in {"cancelled", "expired"} : Withdraw(target)

LifecycleSpec == LifecycleInit /\ [][LifecycleNext]_lifecycleVars
=============================================================================
