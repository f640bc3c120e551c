------------------------------ MODULE HttpRoutes ------------------------------
(***************************************************************************)
(* The HTTP surface behind a human's bearer token, as far as it decides    *)
(* who may do what: the permission each route demands, whether its handler *)
(* changes stored rows, and the errors the handler itself maps (404, 409,  *)
(* 422, 502).  What the handlers do is modelled by the components.         *)
(***************************************************************************)
EXTENDS TLC

Permissions == {"workspace_read", "workspace_settings_manage", "sales_data_read",
                "sales_data_write", "conversation_operate", "approval_decide",
                "operator_assignment_manage", "integration_read", "integration_manage",
                "outbound_action_operate", "ai_usage_read"}

Roles == {"owner", "admin", "member"}

RolePermissions ==
    [owner  |-> Permissions,
     admin  |-> Permissions,
     member |-> {"workspace_read", "sales_data_read", "sales_data_write", "conversation_operate"}]

(* A role outside the enumeration is allowed nothing.                      *)
Allows(role, permission) == role \in Roles /\ permission \in RolePermissions[role]

-----------------------------------------------------------------------------
Read(permission, errors)   == [permission |-> permission, changes |-> FALSE, errors |-> errors]
Change(permission, errors) == [permission |-> permission, changes |-> TRUE, errors |-> errors]

IntegrationRead(errors)   == Read("integration_read", errors)
IntegrationManage(errors) == Change("integration_manage", errors)
OutboundOperate(errors)   == Change("outbound_action_operate", errors)

ApprovalRoutes ==
    [list_approvals          |-> Read("sales_data_read", {}),
     assign_approval_operator |-> Change("operator_assignment_manage", {404, 409}),
     clear_approval_operator |-> Change("operator_assignment_manage", {404, 409}),
     approve_action          |-> Change("approval_decide", {404, 409, 502}),
     reject_action           |-> Change("approval_decide", {404, 409})]

ConversationRoutes ==
    [get_conversation_history     |-> Read("conversation_operate", {404}),
     assign_conversation_operator |-> Change("operator_assignment_manage", {404}),
     clear_conversation_operator  |-> Change("operator_assignment_manage", {404}),
     draft_sales_reply            |-> Change("conversation_operate", {404, 409, 422}),
     resolve_sales_handoff        |-> Change("conversation_operate", {404, 409})]

LeadRoutes ==
    [create_lead |-> Change("sales_data_write", {}),
     list_leads  |-> Read("sales_data_read", {}),
     get_lead    |-> Read("sales_data_read", {404})]

ProductRoutes ==
    [create_product |-> Change("sales_data_write", {}),
     list_products  |-> Read("sales_data_read", {})]

WorkflowRoutes == [run_lead_workflow |-> Change("conversation_operate", {404})]

WorkspaceRoutes ==
    [get_workspace_sales_instructions     |-> Read("workspace_read", {}),
     replace_workspace_sales_instructions |-> Change("workspace_settings_manage", {422}),
     clear_workspace_sales_instructions   |-> Change("workspace_settings_manage", {}),
     get_workspace_sales_communication    |-> Read("workspace_read", {}),
     update_workspace_sales_communication |-> Change("workspace_settings_manage", {}),
     get_workspace                        |-> Read("workspace_read", {})]

-----------------------------------------------------------------------------
(* The routes of integrations.py, in the order of the file.                *)
AccountRoutes ==
    [list_outbound_integration_audit_events |-> IntegrationRead({422}),
     provision_integration_account          |-> IntegrationManage({422}),
     list_integration_accounts              |-> IntegrationRead({})]

SummaryRoutes ==
    [get_integration_operational_summary       |-> IntegrationRead({}),
     get_workspace_ai_invocation_usage_summary |-> Read("ai_usage_read", {}),
     list_workspace_ai_invocation_usage        |-> Read("ai_usage_read", {}),
     get_integration_account_health            |-> IntegrationRead({404}),
     get_integration_runtime_readiness         |-> IntegrationRead({404})]

AccountAuditRoutes ==
    [list_integration_account_audit_events              |-> IntegrationRead({404, 422}),
     list_workspace_integration_account_audit_events    |-> IntegrationRead({422}),
     cleanup_workspace_integration_account_audit_events |-> IntegrationManage({})]

AccountLifecycleRoutes ==
    [deactivate_integration_account              |-> IntegrationManage({404}),
     reactivate_integration_account              |-> IntegrationManage({404}),
     rotate_integration_account_credential       |-> IntegrationManage({404}),
     update_integration_account_secret_reference |-> IntegrationManage({404, 422})]

CreationRoutes ==
    [create_outbound_integration_action     |-> OutboundOperate({404, 409}),
     list_outbound_integration_actions      |-> IntegrationRead({422}),
     cleanup_expired_outbound_actions       |-> IntegrationManage({}),
     get_outbound_integration_action_detail |-> IntegrationRead({404})]

UpkeepRoutes ==
    [create_outbound_action_annotation      |-> OutboundOperate({404}),
     list_outbound_action_annotations       |-> IntegrationRead({404}),
     add_outbound_action_label              |-> OutboundOperate({404, 422}),
     list_outbound_action_labels            |-> IntegrationRead({404}),
     remove_outbound_action_label           |-> OutboundOperate({404, 422}),
     update_outbound_action_priority        |-> OutboundOperate({404}),
     update_outbound_action_owner_reference |-> OutboundOperate({404, 422})]

ArchivingRoutes ==
    [archive_outbound_integration_action   |-> OutboundOperate({404, 409}),
     unarchive_outbound_integration_action |-> OutboundOperate({404, 409})]

DeliveryRoutes ==
    [deliver_outbound_integration_action      |-> OutboundOperate({404, 409}),
     cancel_outbound_integration_action       |-> OutboundOperate({404, 409}),
     retry_failed_outbound_integration_action |-> OutboundOperate({404, 409})]

ReadinessRoutes ==
    [get_outbound_delivery_readiness    |-> IntegrationRead({404}),
     get_outbound_approval_status       |-> IntegrationRead({404}),
     list_outbound_action_state_history |-> IntegrationRead({404, 422}),
     list_outbound_action_timeline      |-> IntegrationRead({404, 422})]

StatusRoutes ==
    [validate_outbound_action_transition         |-> IntegrationRead({404}),
     get_outbound_integration_delivery_status    |-> IntegrationRead({404}),
     list_outbound_integration_delivery_attempts |-> IntegrationRead({404, 422}),
     get_integration_execution_trace             |-> IntegrationRead({404})]

Routes == ApprovalRoutes @@ ConversationRoutes @@ LeadRoutes @@ ProductRoutes @@ WorkflowRoutes
             @@ WorkspaceRoutes @@ AccountRoutes @@ SummaryRoutes @@ AccountAuditRoutes
             @@ AccountLifecycleRoutes @@ CreationRoutes @@ UpkeepRoutes @@ ArchivingRoutes
             @@ DeliveryRoutes @@ ReadinessRoutes @@ StatusRoutes

(* The routes that resolve an inactive workspace too.                      *)
ForInactiveWorkspaces == {"get_workspace", "get_integration_runtime_readiness"}

(* A member's routes: what they change is a lead, a product or a           *)
(* conversation, never the workspace, an account or an outbound action; and*)
(* a route that changes nothing has no conflict to answer.                 *)
ASSUME MembersChangeSalesDataOnly ==
    \A name \in DOMAIN Routes :
        /\ Routes[name].permission \in Permissions
        /\ Routes[name].changes /\ Allows("member", Routes[name].permission) =>
              name \in DOMAIN LeadRoutes \cup DOMAIN ProductRoutes \cup DOMAIN WorkflowRoutes
                         \cup {"draft_sales_reply", "resolve_sales_handoff"}
        /\ ~Routes[name].changes => 409 \notin Routes[name].errors

(* The sales instructions of a workspace are its managers' to replace.     *)
ASSUME InstructionsAreManaged ==
    Routes["replace_workspace_sales_instructions"].permission = "workspace_settings_manage"
=============================================================================
