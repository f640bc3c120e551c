--------------------------- MODULE WorkspaceAccess ---------------------------
(***************************************************************************)
(* Who may act in a workspace: registration, login, workspaces and their   *)
(* members, and the checks every human request passes before its handler   *)
(* runs.  Each check reads the rows anew and lets go of them; principal,   *)
(* context and handler are steps of their own, and any row may change in   *)
(* between.  IdentityMembershipService, which makes users without a        *)
(* credential, adds members and deactivates users, has no route; whether a *)
(* workspace or a membership is active is changed by operators of the      *)
(* database, never by the program.                                         *)
(***************************************************************************)
EXTENDS HttpRoutes, Naturals, FiniteSets

CONSTANTS
    Requests,       \* bound: requests that are ever made
    Users,          \* bound: platform_user rows that ever exist
    Emails,         \* canonical addresses
    Workspaces,     \* bound: workspace rows that ever exist
    Slugs,
    AskedRoutes,    \* bound: the routes that are asked for
    MaxInactive,    \* bound: rows that are ever deactivated
    Seed,           \* the rows there are at the start
    None

ASSUME AccessAssumptions ==
    /\ MaxInactive \in Nat
    /\ None \notin Users \cup Emails \cup Workspaces \cup Slugs \cup Requests
    /\ AskedRoutes \subseteq DOMAIN Routes
    /\ Seed.emails \in [Users -> Emails \cup {None}]
    /\ Seed.slugs \in [Workspaces -> Slugs \cup {None}]
    /\ Seed.passwords \subseteq {u \in Users : Seed.emails[u] # None}
    /\ Seed.tokens \subseteq Seed.passwords
    /\ Seed.roles \in [Workspaces \X Users -> Roles \cup {None}]

UserRows      == [email : Emails, active : BOOLEAN]
WorkspaceRows == [slug : Slugs, active : BOOLEAN, instructions : Requests \cup {None}]
MemberRows    == [role : Roles, active : BOOLEAN]

ASSUME NoneIsNoRow == None \notin UserRows \cup WorkspaceRows \cup MemberRows \cup Roles

(* The rows there are at the start keep the constraints of their tables; a *)
(* user may be without a credential and a workspace without an owner.      *)
ASSUME SeedIsWhole ==
    /\ \A u, v \in Users : Seed.emails[u] = Seed.emails[v] /\ Seed.emails[u] # None => u = v
    /\ \A w, x \in Workspaces : Seed.slugs[w] = Seed.slugs[x] /\ Seed.slugs[w] # None => w = x
    /\ \A w \in Workspaces, u \in Users :
          Seed.roles[<<w, u>>] # None => Seed.slugs[w] # None /\ Seed.emails[u] # None

VARIABLES
    user,        \* User rows: address, and whether the user is active
    passwords,   \* users that have a UserPasswordCredential
    tokens,      \* users to whom an access token was issued; one that has
                 \* expired is a request that does not come
    workspace,   \* Workspace rows: slug, whether active, sales instructions
    member,      \* WorkspaceMember rows
    call         \* the requests

identity == <<user, passwords, workspace, member>>
accessVars == <<identity, tokens, call>>

-----------------------------------------------------------------------------
Idle == [phase |-> "idle"]

Known(u) == user[u] # None

Eligible(u) == Known(u) /\ user[u].active

EmailIsFreeUnchecked(e) == TRUE     \* faulty: no unique constraint

EmailIsFree(e) == \A u \in Users : Known(u) => user[u].email # e

SlugIsFree(s) == \A w \in Workspaces : workspace[w] # None => workspace[w].slug # s

(* faulty: a member of any workspace is a member                           *)
MembershipAnywhere(w, u) ==
    IF \E v \in Workspaces : member[<<v, u>>] # None
    THEN member[<<CHOOSE v \in Workspaces : member[<<v, u>>] # None, u>>] ELSE None

Membership(w, u) == member[<<w, u>>]

(* A request goes on to its next step with what it has read, or ends.      *)
Move(r, phase, read) ==
    call' = [call EXCEPT ![r] = [phase |-> phase, op |-> call[r].op, asked |-> call[r].asked,
                                 who |-> call[r].who, stood |-> call[r].stood, read |-> read]]

End(r, answer) == Move(r, "ended", answer)

(* A request starts; "stood" remembers whether its user was then active.   *)
Start(r, phase, op, asked, who, stood) ==
    call' = [call EXCEPT ![r] = [phase |-> phase, op |-> op, asked |-> asked,
                                 who |-> who, stood |-> stood, read |-> None]]

AccessInit ==
    /\ user = [u \in Users |-> IF Seed.emails[u] = None THEN None
                               ELSE [email |-> Seed.emails[u], active |-> TRUE]]
    /\ passwords = Seed.passwords
    /\ tokens = Seed.tokens
    /\ workspace = [w \in Workspaces |->
                      IF Seed.slugs[w] = None THEN None
                      ELSE [slug |-> Seed.slugs[w], active |-> TRUE, instructions |-> None]]
    /\ member = [m \in Workspaces \X Users |->
                   IF Seed.roles[m] = None THEN None ELSE [role |-> Seed.roles[m], active |-> TRUE]]
    /\ call = [r \in Requests |-> Idle]

-----------------------------------------------------------------------------
(* Registration looks for the address and then inserts the user, and       *)
(* register_user does the same; only the first adds a credential, in the   *)
(* same transaction.  Of a duplicate address nothing is left.              *)
LookForEmail(r, op, e) ==
    /\ call[r] = Idle
    /\ EmailIsFree(e)
    /\ Start(r, "email_free", op, e, None, TRUE)
    /\ UNCHANGED <<identity, tokens>>

(* If the refresh after the commit fails, only the answer is another.      *)
Register(r) ==
    /\ call[r].phase = "email_free"
    /\ \/ \E u \in Users :
             /\ ~Known(u)
             /\ EmailIsFree(call[r].asked)
             /\ user' = [user EXCEPT ![u] = [email |-> call[r].asked, active |-> TRUE]]
             /\ passwords' = passwords \cup {v \in {u} : call[r].op = "register"}
             /\ End(r, u)
       \/ /\ ~EmailIsFree(call[r].asked)
          /\ End(r, "conflict")
          /\ UNCHANGED <<user, passwords>>
    /\ UNCHANGED <<tokens, workspace, member>>

(* Login reads the user and verifies the password; the token is issued on  *)
(* what was read then.                                                     *)
Authenticate(r, u) ==
    /\ call[r] = Idle
    /\ Eligible(u) /\ u \in passwords
    /\ Start(r, "verified", "login", None, u, user[u].active)
    /\ UNCHANGED <<identity, tokens>>

IssueToken(r) ==
    /\ call[r].phase = "verified"
    /\ tokens' = tokens \cup {call[r].who}
    /\ End(r, "token")
    /\ UNCHANGED identity

-----------------------------------------------------------------------------
(* Every other request carries a token, whose user is read again.          *)
ResolvePrincipal(r, u, op, asked) ==
    /\ call[r] = Idle
    /\ u \in tokens
    /\ Eligible(u)
    /\ Start(r, "principal", op, asked, u, user[u].active)
    /\ UNCHANGED <<identity, tokens>>

LookForSlug(r) ==
    /\ call[r].phase = "principal" /\ call[r].op = "create_workspace"
    /\ IF Eligible(call[r].who) /\ SlugIsFree(call[r].asked)
       THEN Move(r, "slug_free", None)
       ELSE End(r, IF Eligible(call[r].who) THEN "conflict" ELSE "error")
    /\ UNCHANGED <<identity, tokens>>

(* A workspace and its owner are one transaction.                          *)
CreateWorkspace(r) ==
    /\ call[r].phase = "slug_free"
    /\ \/ \E w \in Workspaces :
             /\ workspace[w] = None
             /\ SlugIsFree(call[r].asked)
             /\ workspace' = [workspace EXCEPT ![w] =
                   [slug |-> call[r].asked, active |-> TRUE, instructions |-> None]]
             /\ member' = [member EXCEPT ![<<w, call[r].who>>] = [role |-> "owner", active |-> TRUE]]
             /\ End(r, w)
       \/ /\ ~SlugIsFree(call[r].asked)
          /\ End(r, "conflict")
          /\ UNCHANGED <<workspace, member>>
    /\ UNCHANGED <<user, passwords, tokens>>

(* The context of a workspace's route: workspace, user, membership, active *)
(* workspace and permission are checked in this order.  An unknown         *)
(* workspace and a missing membership answer alike.                        *)
ContextAnswer(u, name, w) ==
    LET m == Membership(w, u)
    IN  CASE workspace[w] = None -> "not_found"
          [] ~Eligible(u) -> "unauthenticated"
          [] m = None -> "not_found"
          [] ~m.active -> "not_found"
          [] name \notin ForInactiveWorkspaces /\ ~workspace[w].active -> "inactive"
          [] ~Allows(m.role, Routes[name].permission) -> "forbidden"
          [] OTHER -> "ok"

(* An authorised request keeps the workspace row it has read, of which     *)
(* only the instructions matter later.                                     *)
ResolveContext(r) ==
    /\ call[r].phase = "principal" /\ call[r].op = "route"
    /\ LET name   == call[r].asked[1]
           w      == call[r].asked[2]
           answer == ContextAnswer(call[r].who, name, w)
       IN  IF answer = "ok"
           THEN Move(r, "authorised", workspace[w].instructions)
           ELSE End(r, answer)
    /\ UNCHANGED <<identity, tokens>>

(* Sales instructions are replaced or cleared with one commit that writes  *)
(* the column only if it differs from what the request has read.  The text *)
(* that a request stores is named after the request.                       *)
WriteInstructions(r) ==
    /\ call[r].phase = "authorised"
    /\ call[r].asked[1] \in {"replace_workspace_sales_instructions",
                             "clear_workspace_sales_instructions"}
    /\ LET text == IF call[r].asked[1] = "replace_workspace_sales_instructions" THEN r ELSE None
       IN  workspace' = IF text = call[r].read THEN workspace
                        ELSE [workspace EXCEPT ![call[r].asked[2]].instructions = text]
    /\ End(r, "ok")
    /\ UNCHANGED <<user, passwords, tokens, member>>

-----------------------------------------------------------------------------
(* The administrative calls without a route.                               *)
LookForMembership(r, w, u, role) ==
    /\ call[r] = Idle
    /\ workspace[w] # None /\ Eligible(u) /\ member[<<w, u>>] = None
    /\ Start(r, "no_membership", "join", <<w, role>>, u, TRUE)
    /\ UNCHANGED <<identity, tokens>>

AddMembership(r) ==
    /\ call[r].phase = "no_membership"
    /\ LET w    == call[r].asked[1]
           role == call[r].asked[2]
       IN  IF member[<<w, call[r].who>>] = None
           THEN /\ member' = [member EXCEPT ![<<w, call[r].who>>] = [role |-> role, active |-> TRUE]]
                /\ End(r, "added")
           ELSE End(r, "conflict") /\ UNCHANGED member
    /\ UNCHANGED <<user, passwords, tokens, workspace>>

Inactive == {u \in Users : Known(u) /\ ~user[u].active}
               \cup {w \in Workspaces : workspace[w] # None /\ ~workspace[w].active}
               \cup {m \in Workspaces \X Users : member[m] # None /\ ~member[m].active}

DeactivateUser(u) ==
    /\ Eligible(u)
    /\ user' = [user EXCEPT ![u].active = FALSE]
    /\ UNCHANGED <<passwords, tokens, workspace, member, call>>

(* Not done by the program: the active columns of workspace and member.    *)
(* Bound: they are only switched off.                                      *)
OperatorDeactivates ==
    /\ \/ \E w \in Workspaces :
             /\ workspace[w] # None /\ workspace[w].active
             /\ workspace' = [workspace EXCEPT ![w].active = FALSE]
             /\ UNCHANGED member
       \/ \E m \in Workspaces \X Users :
             /\ member[m] # None /\ member[m].active
             /\ member' = [member EXCEPT ![m].active = FALSE]
             /\ UNCHANGED workspace
    /\ UNCHANGED <<user, passwords, tokens, call>>

AccessStep(r) ==
    \/ \E op \in {"register", "register_user"}, e \in Emails : LookForEmail(r, op, e)
    \/ Register(r)
    \/ \E u \in Users : Authenticate(r, u)
    \/ IssueToken(r)
    \/ \E u \in Users, s \in Slugs : ResolvePrincipal(r, u, "create_workspace", s)
    \/ \E u \in Users, name \in AskedRoutes, w \in Workspaces :
          ResolvePrincipal(r, u, "route", <<name, w>>)
    \/ LookForSlug(r)
    \/ CreateWorkspace(r)
    \/ ResolveContext(r)
    \/ WriteInstructions(r)
    \/ \E w \in Workspaces, u \in Users, role \in Roles : LookForMembership(r, w, u, role)
    \/ AddMembership(r)

Administration ==
    /\ Cardinality(Inactive) < MaxInactive
    /\ \/ \E u \in Users : DeactivateUser(u)
       \/ OperatorDeactivates

AccessNext == (\E r \in Requests : AccessStep(r)) \/ Administration

AccessSpec == AccessInit /\ [][AccessNext]_accessVars

-----------------------------------------------------------------------------
(* The rows have their types, and every row hangs on rows that exist: a    *)
(* credential on its user, a member on its user and its workspace.         *)
AccessTypeOK ==
    /\ user \in [Users -> UserRows \cup {None}]
    /\ passwords \subseteq {u \in Users : Known(u)}
    /\ tokens \subseteq passwords
    /\ workspace \in [Workspaces -> WorkspaceRows \cup {None}]
    /\ member \in [Workspaces \X Users -> MemberRows \cup {None}]
    /\ \A w \in Workspaces, u \in Users :
          member[<<w, u>>] # None => workspace[w] # None /\ Known(u)

Owners(w) == {u \in Users : member[<<w, u>>] # None /\ member[<<w, u>>].role = "owner"}

(* However registrations and creations race, an address is one user's and  *)
(* a slug one workspace's.  Every row that was added is what one request   *)
(* asked for: a user has a credential exactly if register made it, never   *)
(* from a registration that found it there, and the first owner of a new   *)
(* workspace is who asked for it.  Users of register_user and workspaces   *)
(* of old have none (AuthenticationService.register,                       *)
(* IdentityMembershipService.register_user,                                *)
(* WorkspaceCreationService.create_for_principal).                         *)
CreationIsWhole ==
    /\ \A u, v \in Users :
          Known(u) /\ Known(v) /\ user[u].email = user[v].email => u = v
    /\ \A w, x \in Workspaces :
          workspace[w] # None /\ workspace[x] # None /\ workspace[w].slug = workspace[x].slug => w = x
    /\ \A u \in Users : Known(u) =>
          IF Seed.emails[u] # None THEN u \in passwords <=> u \in Seed.passwords
          ELSE \E r \in Requests :
                  /\ call[r].phase = "ended" /\ call[r].read = u
                  /\ call[r].op = IF u \in passwords THEN "register" ELSE "register_user"
                  /\ call[r].asked = user[u].email
    /\ \A w \in Workspaces : workspace[w] # None /\ Seed.slugs[w] = None =>
          \E r \in Requests :
              /\ call[r].phase = "ended" /\ call[r].read = w
              /\ call[r].op = "create_workspace"
              /\ call[r].asked = workspace[w].slug
              /\ call[r].who \in Owners(w)

(* The instructions stored for a workspace were written by a user who was  *)
(* active when the request came and who has, in that very workspace, a     *)
(* role that manages its settings: however late the commit is after the    *)
(* checks, no token outlives the deactivation of its user for a request    *)
(* made after it, and no membership counts in another workspace            *)
(* (resolve_active_principal, resolve_active_membership, WorkspaceRBACPolicy). *)
InstructionsByManagers ==
    \A w \in Workspaces :
        workspace[w] # None /\ workspace[w].instructions # None =>
            LET r == workspace[w].instructions
            IN  /\ call[r].stood
                /\ call[r].asked[2] = w
                /\ member[<<w, call[r].who>>] # None
                /\ member[<<w, call[r].who>>].role \in {"owner", "admin"}
=============================================================================
