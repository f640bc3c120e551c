------------------------- MODULE OutboundTransitions -------------------------
(***************************************************************************)
(* The lifecycle table of an outbound action: which status may follow      *)
(* which, and the audit event each change records.  It is the pure part of *)
(* OutboundIntegrationActionStateTransitionGuard; the delivery service,    *)
(* the archiving service and the abstract lifecycle all read it.           *)
(***************************************************************************)

Statuses == {"pending", "delivered", "failed", "cancelled", "expired"}

AllowedTargets == [pending   |-> {"cancelled", "expired", "delivered", "failed"},
                   failed    |-> {"delivered", "failed"},
                   delivered |-> {},
                   cancelled |-> {},
                   expired   |-> {}]

CanTransition(source, target) == target \in AllowedTargets[source]

IsTerminal(status) == AllowedTargets[status] = {}

(* The audit event of an authorised change bears the name of its target.   *)
AuditEventFor(target) == target

TransitionEvents == Statuses \ {"pending"}

(* Archiving a terminal action changes no status; it can be repeated.      *)
ArchivingEvents == {"archived", "unarchived"}

AuditEvents == TransitionEvents \cup ArchivingEvents \cup {"created", "retried", "delivery_attempted"}
=============================================================================
