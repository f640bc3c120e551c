------------------------ MODULE MCIntegrationAccounts ------------------------
(* Small instances of IntegrationAccounts, and with it of WorkspaceAccess, *)
(* for TLC.                                                                *)
EXTENDS IntegrationAccounts

CONSTANTS r1, r2, r3, mona, lena, u1, u2, mail_m, mail_l, mail_n, w1, w2, w3,
          acme, bazar, chic, a1, a2, i1, none

TwoRequests   == {r1, r2}
ThreeRequests == {r1, r2, r3}
FourUsers       == {mona, lena, u1, u2}
ThreeEmails     == {mail_m, mail_l, mail_n}
ThreeWorkspaces == {w1, w2, w3}
ThreeSlugs      == {acme, bazar, chic}
TwoAccounts == {a1, a2}
OneEvent    == {i1}

ChangingRoutes ==
    {"replace_workspace_sales_instructions", "clear_workspace_sales_instructions",
     "provision_integration_account", "cleanup_workspace_integration_account_audit_events"}
        \cup DOMAIN AccountLifecycleRoutes

(* Mona owns acme; Lena, who has no credential, administers bazar, a       *)
(* workspace of old that nobody owns; two more users may register.         *)
MCSeed ==
    [emails    |-> [u \in Users |-> CASE u = mona -> mail_m [] u = lena -> mail_l [] OTHER -> None],
     passwords |-> {mona},
     tokens    |-> {mona},
     slugs     |-> [w \in Workspaces |-> CASE w = w1 -> acme [] w = w2 -> bazar [] OTHER -> None],
     roles     |-> [m \in Workspaces \X Users |->
                      CASE m = <<w1, mona>> -> "owner" [] m = <<w2, lena>> -> "admin" [] OTHER -> None]]

(* The account was deactivated and reactivated once.                       *)
MCHistory == <<"provisioned", "deactivated", "reactivated">>

MCSymmetry == Permutations(Requests) \cup Permutations({u1, u2})
=============================================================================
