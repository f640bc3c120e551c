----------------------- MODULE IntegrationAccountsProofs -----------------------
(***************************************************************************)
(* Proofs about WorkspaceAccess and IntegrationAccounts, for any users,    *)
(* workspaces, accounts and requests, any retention and size of batches.   *)
(***************************************************************************)
EXTENDS IntegrationAccounts, FiniteSetTheorems, SequenceTheorems, TLAPS

-----------------------------------------------------------------------------
(* The inductive invariant of the access checks.                           *)

CallPhases == {"idle", "email_free", "verified", "principal", "slug_free", "authorised",
               "no_membership", "account_loaded", "selecting", "deleting", "cleaned", "ended"}

IdentityOK ==
    /\ user \in [Users -> UserRows \cup {None}]
    /\ workspace \in [Workspaces -> WorkspaceRows \cup {None}]
    /\ member \in [Workspaces \X Users -> MemberRows \cup {None}]

RowsHangTogether ==
    /\ passwords \subseteq {u \in Users : Known(u)}
    /\ tokens \subseteq passwords
    /\ \A w \in Workspaces, u \in Users : member[<<w, u>>] # None => workspace[w] # None /\ Known(u)

(* A request that has passed the checks of a route acts in a workspace     *)
(* that exists, for a member of it whose role allows the route.            *)
Passed == {"authorised", "account_loaded", "selecting", "deleting", "cleaned"}

Standing(r) ==
    LET w == call[r].asked[2]
        u == call[r].who
    IN  /\ call[r].asked[1] \in DOMAIN Routes
        /\ w \in Workspaces /\ workspace[w] # None
        /\ u \in Users
        /\ call[r].stood
        /\ member[<<w, u>>] # None
        /\ Allows(member[<<w, u>>].role, Routes[call[r].asked[1]].permission)

CallOK(r) ==
    /\ call[r].phase \in CallPhases
    /\ call[r].phase = "email_free" => /\ call[r].asked \in Emails
                                       /\ call[r].op \in {"register", "register_user"}
    /\ call[r].phase = "verified" => call[r].who \in passwords
    /\ call[r].phase = "principal" =>
          /\ call[r].who \in Users /\ Known(call[r].who) /\ call[r].stood
          /\ call[r].op = "create_workspace" => call[r].asked \in Slugs
          /\ call[r].op = "route" => call[r].asked \in AskedRoutes \X Workspaces
    /\ call[r].phase = "slug_free" => /\ call[r].who \in Users /\ Known(call[r].who)
                                      /\ call[r].asked \in Slugs /\ call[r].op = "create_workspace"
    /\ call[r].phase = "no_membership" => /\ call[r].who \in Users /\ Known(call[r].who)
                                          /\ call[r].asked \in Workspaces \X Roles
                                          /\ workspace[call[r].asked[1]] # None
    /\ call[r].phase \in Passed => Standing(r)

AccessInv ==
    /\ IdentityOK
    /\ RowsHangTogether
    /\ DOMAIN call = Requests
    /\ \A r \in Requests : CallOK(r)

(* What no step takes back: rows are not deleted, and of a member's row    *)
(* only whether it is active changes.                                      *)
RowsStay ==
    /\ \A u \in Users : Known(u) => Known(u)'
    /\ passwords \subseteq passwords'
    /\ \A w \in Workspaces : workspace[w] # None => workspace'[w] # None
    /\ \A w \in Workspaces, u \in Users :
          member[<<w, u>>] # None => member'[<<w, u>>] # None /\ member'[<<w, u>>].role = member[<<w, u>>].role

(* The step of one request, which leaves the others alone.                 *)
Moves(r, phase) ==
    /\ DOMAIN call' = Requests
    /\ call'[r].phase = phase
    /\ \A s \in Requests \ {r} : call'[s] = call[s]

-----------------------------------------------------------------------------
(* What the steps of a request share.                                      *)
LEMMA MoveStep ==
    ASSUME DOMAIN call = Requests, NEW r \in Requests, NEW phase, NEW read, Move(r, phase, read)
    PROVE  /\ Moves(r, phase)
           /\ call'[r].op = call[r].op /\ call'[r].asked = call[r].asked
           /\ call'[r].who = call[r].who /\ call'[r].stood = call[r].stood
           /\ call'[r].read = read
BY DEF Move, Moves

LEMMA StartStep ==
    ASSUME DOMAIN call = Requests, NEW r \in Requests, NEW phase, NEW op, NEW asked, NEW who,
           NEW stood, Start(r, phase, op, asked, who, stood)
    PROVE  /\ Moves(r, phase)
           /\ call'[r].op = op /\ call'[r].asked = asked
           /\ call'[r].who = who /\ call'[r].stood = stood
BY DEF Start, Moves

(* The member a request acts for keeps its role.                           *)
LEMMA StandingStays ==
    ASSUME RowsStay, NEW s \in Requests, Standing(s),
           call'[s].asked = call[s].asked, call'[s].who = call[s].who, call'[s].stood = call[s].stood
    PROVE  Standing(s)'
<1>1. PICK c : c = call[s]
  OBVIOUS
<1>2. /\ workspace'[c.asked[2]] # None
      /\ member'[<<c.asked[2], c.who>>] # None
      /\ member'[<<c.asked[2], c.who>>].role = member[<<c.asked[2], c.who>>].role
  BY <1>1 DEF Standing, RowsStay
<1> QED
  BY <1>1, <1>2 DEF Standing

(* Steps that take no row back keep what every request relies on that they *)
(* do not move.                                                            *)
LEMMA OthersKeep ==
    ASSUME AccessInv, RowsStay, NEW s \in Requests, call'[s] = call[s]
    PROVE  CallOK(s)'
<1>1. PICK c : c = call[s]
  OBVIOUS
<1>2. call'[s] = c /\ CallOK(s)
  BY <1>1 DEF AccessInv
<1>3. c.phase \in Passed => Standing(s)'
  BY <1>1, <1>2, StandingStays DEF CallOK
<1>4. c.phase = "no_membership" => c.asked[1] \in Workspaces /\ workspace'[c.asked[1]] # None
  BY <1>1, <1>2 DEF CallOK, RowsStay
<1>5. c.who \in Users /\ Known(c.who) => Known(c.who)'
  BY DEF RowsStay
<1>6. c.who \in passwords => c.who \in passwords'
  BY DEF RowsStay
<1> QED
  BY <1>1, <1>2, <1>3, <1>4, <1>5, <1>6 DEF CallOK

(* The rows, if nothing of them changes.                                   *)
LEMMA SameIdentity ==
    ASSUME AccessInv, UNCHANGED identity, tokens' \subseteq passwords
    PROVE  IdentityOK' /\ RowsHangTogether' /\ RowsStay
BY DEF AccessInv, identity, IdentityOK, RowsHangTogether, RowsStay, Known

-----------------------------------------------------------------------------
(* The rows change as each operation says.                                 *)
LEMMA RegisterRows ==
    ASSUME AccessInv, NEW u \in Users, ~Known(u), NEW e \in Emails,
           user' = [user EXCEPT ![u] = [email |-> e, active |-> TRUE]],
           passwords \subseteq passwords', passwords' \subseteq passwords \cup {u},
           UNCHANGED <<tokens, workspace, member>>
    PROVE  IdentityOK' /\ RowsHangTogether' /\ RowsStay
<1>1. PICK row : row = [email |-> e, active |-> TRUE]
  OBVIOUS
<1>2. row \in UserRows /\ row # None
  <2>1. row \in UserRows
    BY <1>1 DEF UserRows
  <2> QED
    BY <2>1, NoneIsNoRow
<1>3. IdentityOK'
  BY <1>1, <1>2 DEF AccessInv, IdentityOK
<1>4. \A v \in Users : Known(v)' <=> Known(v) \/ v = u
  BY <1>1, <1>2 DEF AccessInv, IdentityOK, Known
<1> QED
  BY <1>3, <1>4 DEF AccessInv, RowsHangTogether, RowsStay

LEMMA WorkspaceRow ==
    ASSUME AccessInv, NEW w \in Workspaces, workspace[w] = None, NEW u \in Users, Known(u),
           NEW s \in Slugs,
           workspace' = [workspace EXCEPT ![w] =
                            [slug |-> s, active |-> TRUE, instructions |-> None]],
           member' = [member EXCEPT ![<<w, u>>] = [role |-> "owner", active |-> TRUE]],
           UNCHANGED <<user, passwords, tokens>>
    PROVE  /\ IdentityOK' /\ RowsHangTogether' /\ RowsStay
           /\ member'[<<w, u>>] = [role |-> "owner", active |-> TRUE]
<1>1. PICK row : row = [slug |-> s, active |-> TRUE, instructions |-> None]
  OBVIOUS
<1>2. PICK own : own = [role |-> "owner", active |-> TRUE]
  OBVIOUS
<1>3. row \in WorkspaceRows /\ row # None
  <2>1. row \in WorkspaceRows
    BY <1>1 DEF WorkspaceRows
  <2> QED
    BY <2>1, NoneIsNoRow
<1>4. own \in MemberRows /\ own # None
  <2>1. own \in MemberRows
    BY <1>2 DEF MemberRows, Roles
  <2> QED
    BY <2>1, NoneIsNoRow
<1>5. <<w, u>> \in Workspaces \X Users
  OBVIOUS
<1>6. IdentityOK'
  BY <1>1, <1>2, <1>3, <1>4, <1>5 DEF AccessInv, IdentityOK
<1>7. \A v \in Workspaces : workspace'[v] = IF v = w THEN row ELSE workspace[v]
  BY <1>1 DEF AccessInv, IdentityOK
<1>8. \A m \in Workspaces \X Users : member'[m] = IF m = <<w, u>> THEN own ELSE member[m]
  BY <1>2, <1>5 DEF AccessInv, IdentityOK
<1>9. member[<<w, u>>] = None
  BY DEF AccessInv, RowsHangTogether
<1>10. \A v \in Users : Known(v)' <=> Known(v)
  BY DEF Known
<1>11. \A x \in Workspaces, v \in Users : <<x, v>> \in Workspaces \X Users
  OBVIOUS
<1>12. RowsHangTogether'
  BY <1>3, <1>4, <1>7, <1>8, <1>10, <1>11 DEF AccessInv, RowsHangTogether
<1>13. RowsStay
  BY <1>3, <1>4, <1>7, <1>8, <1>9, <1>10, <1>11 DEF RowsStay
<1>14. member'[<<w, u>>] = own
  BY <1>5, <1>8
<1> QED
  BY <1>2, <1>6, <1>12, <1>13, <1>14

LEMMA MemberRow ==
    ASSUME AccessInv, NEW w \in Workspaces, workspace[w] # None, NEW u \in Users, Known(u),
           NEW role \in Roles, member[<<w, u>>] = None,
           member' = [member EXCEPT ![<<w, u>>] = [role |-> role, active |-> TRUE]],
           UNCHANGED <<user, passwords, tokens, workspace>>
    PROVE  IdentityOK' /\ RowsHangTogether' /\ RowsStay
<1>1. PICK own : own = [role |-> role, active |-> TRUE]
  OBVIOUS
<1>2. own \in MemberRows /\ own # None
  <2>1. own \in MemberRows
    BY <1>1 DEF MemberRows
  <2> QED
    BY <2>1, NoneIsNoRow
<1>3. \A x \in Workspaces, v \in Users : <<x, v>> \in Workspaces \X Users
  OBVIOUS
<1>4. \A m \in Workspaces \X Users : member'[m] = IF m = <<w, u>> THEN own ELSE member[m]
  BY <1>1 DEF AccessInv, IdentityOK
<1>5. IdentityOK'
  BY <1>1, <1>2, <1>3 DEF AccessInv, IdentityOK
<1>6. \A v \in Users : Known(v)' <=> Known(v)
  BY DEF Known
<1> QED
  BY <1>2, <1>3, <1>4, <1>5, <1>6 DEF AccessInv, RowsHangTogether, RowsStay

LEMMA InstructionsRow ==
    ASSUME AccessInv, NEW w \in Workspaces, workspace[w] # None,
           NEW text \in Requests \cup {None},
           \/ UNCHANGED workspace
           \/ workspace' = [workspace EXCEPT ![w].instructions = text],
           UNCHANGED <<user, passwords, tokens, member>>
    PROVE  /\ IdentityOK' /\ RowsHangTogether' /\ RowsStay
           /\ \A v \in Workspaces : workspace[v] # None =>
                 /\ workspace'[v].slug = workspace[v].slug
                 /\ workspace'[v].instructions \in {workspace[v].instructions, text}
                 /\ v # w => workspace'[v].instructions = workspace[v].instructions
           /\ \A v \in Workspaces : workspace[v] = None => workspace'[v] = None
<1>1. PICK row : row = [workspace[w] EXCEPT !.instructions = text]
  OBVIOUS
<1>2. workspace[w] \in WorkspaceRows
  BY DEF AccessInv, IdentityOK
<1>3. /\ row \in WorkspaceRows /\ row # None
      /\ row.slug = workspace[w].slug /\ row.instructions = text
  BY <1>1, <1>2, NoneIsNoRow DEF WorkspaceRows
<1>4. workspace' = workspace \/ workspace' = [workspace EXCEPT ![w] = row]
  BY <1>1
<1>5. IdentityOK'
  BY <1>3, <1>4 DEF AccessInv, IdentityOK
<1>6. \A v \in Workspaces : workspace'[v] = workspace[v] \/ (v = w /\ workspace'[v] = row)
  BY <1>4 DEF AccessInv, IdentityOK
<1>7. \A v \in Users : Known(v)' <=> Known(v)
  BY DEF Known
<1>8. RowsHangTogether' /\ RowsStay
  BY <1>3, <1>6, <1>7 DEF AccessInv, RowsHangTogether, RowsStay
<1> QED
  BY <1>3, <1>5, <1>6, <1>8

(* A row that is switched off is the same row otherwise.                   *)
LEMMA SwitchedOff ==
    ASSUME AccessInv,
           \/ \E u \in Users : /\ Known(u) /\ user' = [user EXCEPT ![u].active = FALSE]
                               /\ UNCHANGED <<workspace, member>>
           \/ \E w \in Workspaces : /\ workspace[w] # None
                                    /\ workspace' = [workspace EXCEPT ![w].active = FALSE]
                                    /\ UNCHANGED <<user, member>>
           \/ \E m \in Workspaces \X Users : /\ member[m] # None
                                             /\ member' = [member EXCEPT ![m].active = FALSE]
                                             /\ UNCHANGED <<user, workspace>>,
           UNCHANGED <<passwords, tokens>>
    PROVE  /\ IdentityOK' /\ RowsHangTogether' /\ RowsStay
           /\ \A u \in Users : /\ Known(u)' <=> Known(u)
                               /\ Known(u) => user'[u].email = user[u].email
           /\ \A w \in Workspaces :
                 /\ workspace'[w] # None <=> workspace[w] # None
                 /\ workspace[w] # None =>
                       /\ workspace'[w].slug = workspace[w].slug
                       /\ workspace'[w].instructions = workspace[w].instructions
<1>1. CASE \E u \in Users : /\ Known(u) /\ user' = [user EXCEPT ![u].active = FALSE]
                            /\ UNCHANGED <<workspace, member>>
  <2>1. PICK u \in Users : /\ Known(u) /\ user' = [user EXCEPT ![u].active = FALSE]
                           /\ UNCHANGED <<workspace, member>>
    BY <1>1
  <2>2. PICK row : row = [user[u] EXCEPT !.active = FALSE]
    OBVIOUS
  <2>3. row \in UserRows /\ row # None /\ row.email = user[u].email
    BY <2>1, <2>2, NoneIsNoRow DEF AccessInv, IdentityOK, UserRows, Known
  <2>4. user' = [user EXCEPT ![u] = row]
    BY <2>1, <2>2
  <2>5. IdentityOK'
    BY <2>1, <2>3, <2>4 DEF AccessInv, IdentityOK
  <2>6. \A v \in Users : user'[v] = IF v = u THEN row ELSE user[v]
    BY <2>4 DEF AccessInv, IdentityOK
  <2>7. \A v \in Users : Known(v)' <=> Known(v)
    BY <2>1, <2>3, <2>6 DEF Known
  <2>8. RowsHangTogether' /\ RowsStay
    BY <2>1, <2>7 DEF AccessInv, RowsHangTogether, RowsStay
  <2> QED
    BY <2>1, <2>3, <2>5, <2>6, <2>7, <2>8
<1>2. CASE \E w \in Workspaces : /\ workspace[w] # None
                                 /\ workspace' = [workspace EXCEPT ![w].active = FALSE]
                                 /\ UNCHANGED <<user, member>>
  <2>1. PICK w \in Workspaces : /\ workspace[w] # None
                                /\ workspace' = [workspace EXCEPT ![w].active = FALSE]
                                /\ UNCHANGED <<user, member>>
    BY <1>2
  <2>2. PICK row : row = [workspace[w] EXCEPT !.active = FALSE]
    OBVIOUS
  <2>3. /\ row \in WorkspaceRows /\ row # None
        /\ row.slug = workspace[w].slug /\ row.instructions = workspace[w].instructions
    BY <2>1, <2>2, NoneIsNoRow DEF AccessInv, IdentityOK, WorkspaceRows
  <2>4. workspace' = [workspace EXCEPT ![w] = row]
    BY <2>1, <2>2
  <2>5. IdentityOK'
    BY <2>1, <2>3, <2>4 DEF AccessInv, IdentityOK
  <2>6. \A v \in Workspaces : workspace'[v] = IF v = w THEN row ELSE workspace[v]
    BY <2>4 DEF AccessInv, IdentityOK
  <2>7. \A v \in Users : Known(v)' <=> Known(v)
    BY <2>1 DEF Known
  <2>8. RowsHangTogether' /\ RowsStay
    BY <2>1, <2>3, <2>6, <2>7 DEF AccessInv, RowsHangTogether, RowsStay
  <2> QED
    BY <2>1, <2>3, <2>5, <2>6, <2>7, <2>8
<1>3. CASE \E m \in Workspaces \X Users : /\ member[m] # None
                                          /\ member' = [member EXCEPT ![m].active = FALSE]
                                          /\ UNCHANGED <<user, workspace>>
  <2>1. PICK m \in Workspaces \X Users : /\ member[m] # None
                                         /\ member' = [member EXCEPT ![m].active = FALSE]
                                         /\ UNCHANGED <<user, workspace>>
    BY <1>3
  <2>2. PICK row : row = [member[m] EXCEPT !.active = FALSE]
    OBVIOUS
  <2>3. row \in MemberRows /\ row # None /\ row.role = member[m].role
    BY <2>1, <2>2, NoneIsNoRow DEF AccessInv, IdentityOK, MemberRows
  <2>4. member' = [member EXCEPT ![m] = row]
    BY <2>1, <2>2
  <2> DEFINE Pairs == Workspaces \X Users
  <2>5. IdentityOK'
    <3>1. m \in Pairs /\ member \in [Pairs -> MemberRows \cup {None}]
      BY DEF AccessInv, IdentityOK
    <3> HIDE DEF Pairs
    <3>2. member' \in [Pairs -> MemberRows \cup {None}]
      BY <2>3, <2>4, <3>1
    <3> USE DEF Pairs
    <3> QED
      BY <2>1, <3>2 DEF AccessInv, IdentityOK
  <2>6. \A n \in Workspaces \X Users : member'[n] = IF n = m THEN row ELSE member[n]
    BY <2>4 DEF AccessInv, IdentityOK
  <2>7. \A v \in Users : Known(v)' <=> Known(v)
    BY <2>1 DEF Known
  <2>8. \A x \in Workspaces, v \in Users : <<x, v>> \in Workspaces \X Users
    OBVIOUS
  <2>9. \A n \in Workspaces \X Users : member[n] # None <=> member'[n] # None
    BY <2>1, <2>3, <2>6
  <2>10. \A n \in Workspaces \X Users : member[n] # None => member'[n].role = member[n].role
    BY <2>3, <2>6
  <2>11. RowsHangTogether' /\ RowsStay
    BY <2>1, <2>7, <2>8, <2>9, <2>10 DEF AccessInv, RowsHangTogether, RowsStay
  <2> QED
    BY <2>1, <2>5, <2>7, <2>11
<1> QED
  BY <1>1, <1>2, <1>3

-----------------------------------------------------------------------------
(* Every step of a request keeps AccessInv.                                *)
LEMMA Conclude ==
    ASSUME AccessInv, NEW r \in Requests, NEW phase, Moves(r, phase),
           IdentityOK' /\ RowsHangTogether' /\ RowsStay, CallOK(r)'
    PROVE  AccessInv'
BY OthersKeep DEF AccessInv, Moves

LEMMA ReadingStep ==
    ASSUME AccessInv, NEW r \in Requests, NEW phase, Moves(r, phase),
           UNCHANGED <<identity, tokens>>, CallOK(r)'
    PROVE  AccessInv' /\ RowsStay
BY SameIdentity, Conclude DEF AccessInv, RowsHangTogether

LEMMA EndedIsOK ==
    ASSUME NEW r \in Requests, call'[r].phase = "ended"
    PROVE  CallOK(r)'
BY DEF CallOK, CallPhases, Passed

LEMMA RegisterStep ==
    ASSUME AccessInv, NEW r \in Requests,
           Register(r) \/ \E op \in {"register", "register_user"}, e \in Emails : LookForEmail(r, op, e)
    PROVE  AccessInv' /\ RowsStay
<1>1. DOMAIN call = Requests
  BY DEF AccessInv
<1>2. CASE \E op \in {"register", "register_user"}, e \in Emails : LookForEmail(r, op, e)
  <2>1. PICK op \in {"register", "register_user"}, e \in Emails : LookForEmail(r, op, e)
    BY <1>2
  <2>2. Moves(r, "email_free") /\ call'[r].asked = e /\ call'[r].op = op
    BY <1>1, <2>1, StartStep DEF LookForEmail
  <2>3. CallOK(r)'
    BY <2>2 DEF CallOK, CallPhases, Passed, Moves
  <2> QED
    BY <2>1, <2>2, <2>3, ReadingStep DEF LookForEmail
<1>3. CASE Register(r)
  <2>1. call[r].asked \in Emails
    BY <1>3 DEF Register, AccessInv, CallOK
  <2>2. Moves(r, "ended")
    BY <1>1, <1>3, MoveStep DEF Register, End
  <2>3. IdentityOK' /\ RowsHangTogether' /\ RowsStay
    <3>1. CASE UNCHANGED <<user, passwords>>
      BY <1>3, <3>1, SameIdentity DEF Register, identity, AccessInv, RowsHangTogether
    <3>2. CASE ~UNCHANGED <<user, passwords>>
      BY <1>3, <2>1, <3>2, RegisterRows DEF Register
    <3> QED
      BY <3>1, <3>2
  <2> QED
    BY <2>2, <2>3, Conclude, EndedIsOK DEF Moves
<1> QED
  BY <1>2, <1>3

LEMMA LoginStep ==
    ASSUME AccessInv, NEW r \in Requests,
           IssueToken(r) \/ \E u \in Users : Authenticate(r, u)
    PROVE  AccessInv' /\ RowsStay
<1>1. DOMAIN call = Requests
  BY DEF AccessInv
<1>2. CASE \E u \in Users : Authenticate(r, u)
  <2>1. PICK u \in Users : Authenticate(r, u)
    BY <1>2
  <2>2. Moves(r, "verified") /\ call'[r].who = u
    BY <1>1, <2>1, StartStep DEF Authenticate
  <2>3. CallOK(r)'
    BY <2>1, <2>2 DEF CallOK, CallPhases, Passed, Moves, Authenticate, identity
  <2> QED
    BY <2>1, <2>2, <2>3, ReadingStep DEF Authenticate
<1>3. CASE IssueToken(r)
  <2>1. call[r].who \in passwords
    BY <1>3 DEF IssueToken, AccessInv, CallOK
  <2>2. tokens' \subseteq passwords /\ UNCHANGED identity
    BY <1>3, <2>1 DEF IssueToken, AccessInv, RowsHangTogether
  <2>3. Moves(r, "ended")
    BY <1>1, <1>3, MoveStep DEF IssueToken, End
  <2> QED
    BY <2>2, <2>3, SameIdentity, Conclude, EndedIsOK DEF Moves
<1> QED
  BY <1>2, <1>3

LEMMA PrincipalStep ==
    ASSUME AccessInv, NEW r \in Requests, NEW u \in Users, NEW op, NEW asked,
           op = "create_workspace" => asked \in Slugs,
           op = "route" => asked \in AskedRoutes \X Workspaces,
           ResolvePrincipal(r, u, op, asked)
    PROVE  AccessInv' /\ RowsStay
<1>1. DOMAIN call = Requests
  BY DEF AccessInv
<1>2. /\ Moves(r, "principal")
      /\ call'[r].op = op /\ call'[r].asked = asked /\ call'[r].who = u
      /\ call'[r].stood = user[u].active
  BY <1>1, StartStep DEF ResolvePrincipal
<1>3. Known(u) /\ user[u].active /\ user' = user
  BY DEF ResolvePrincipal, Eligible, identity
<1>4. CallOK(r)'
  BY <1>2, <1>3 DEF CallOK, CallPhases, Passed, Moves, Known
<1> QED
  BY <1>2, <1>4, ReadingStep DEF ResolvePrincipal

LEMMA CreationStep ==
    ASSUME AccessInv, NEW r \in Requests, LookForSlug(r) \/ CreateWorkspace(r)
    PROVE  AccessInv' /\ RowsStay
<1>1. DOMAIN call = Requests
  BY DEF AccessInv
<1>2. CASE LookForSlug(r)
  <2>1. call[r].who \in Users /\ Known(call[r].who) /\ call[r].asked \in Slugs /\ call[r].op = "create_workspace"
    BY <1>2 DEF LookForSlug, AccessInv, CallOK
  <2>2. user' = user
    BY <1>2 DEF LookForSlug, identity
  <2>3. CASE Move(r, "slug_free", None)
    <3>1. /\ Moves(r, "slug_free") /\ call'[r].who = call[r].who /\ call'[r].asked = call[r].asked
          /\ call'[r].op = call[r].op
      BY <1>1, <2>3, MoveStep
    <3>2. CallOK(r)'
      BY <2>1, <2>2, <3>1 DEF CallOK, CallPhases, Passed, Moves, Known
    <3> QED
      BY <1>2, <3>1, <3>2, ReadingStep DEF LookForSlug
  <2>4. CASE ~Move(r, "slug_free", None)
    <3>1. Moves(r, "ended")
      BY <1>1, <1>2, <2>4, MoveStep DEF LookForSlug, End
    <3> QED
      BY <1>2, <3>1, ReadingStep, EndedIsOK DEF LookForSlug, Moves
  <2> QED
    BY <2>3, <2>4
<1>3. CASE CreateWorkspace(r)
  <2>1. call[r].who \in Users /\ Known(call[r].who) /\ call[r].asked \in Slugs
    BY <1>3 DEF CreateWorkspace, AccessInv, CallOK
  <2>2. Moves(r, "ended")
    BY <1>1, <1>3, MoveStep DEF CreateWorkspace, End
  <2>3. IdentityOK' /\ RowsHangTogether' /\ RowsStay
    <3>1. CASE UNCHANGED <<workspace, member>>
      BY <1>3, <3>1, SameIdentity DEF CreateWorkspace, identity, AccessInv, RowsHangTogether
    <3>2. CASE ~UNCHANGED <<workspace, member>>
      BY <1>3, <2>1, <3>2, WorkspaceRow DEF CreateWorkspace
    <3> QED
      BY <3>1, <3>2
  <2> QED
    BY <2>2, <2>3, Conclude, EndedIsOK DEF Moves
<1> QED
  BY <1>2, <1>3

LEMMA ContextIsGiven ==
    ASSUME NEW u, NEW name, NEW w, ContextAnswer(u, name, w) = "ok"
    PROVE  /\ workspace[w] # None /\ member[<<w, u>>] # None
           /\ Allows(member[<<w, u>>].role, Routes[name].permission)
<1>1. PICK role : role = member[<<w, u>>].role
  OBVIOUS
<1>2. PICK permission : permission = Routes[name].permission
  OBVIOUS
<1> QED
  BY <1>1, <1>2 DEF ContextAnswer, Membership

LEMMA ContextStep ==
    ASSUME AccessInv, NEW r \in Requests, ResolveContext(r)
    PROVE  AccessInv' /\ RowsStay
<1>1. DOMAIN call = Requests
  BY DEF AccessInv
<1>2. /\ call[r].who \in Users /\ call[r].stood
      /\ call[r].asked \in AskedRoutes \X Workspaces
  BY DEF ResolveContext, AccessInv, CallOK
<1>3. CASE ContextAnswer(call[r].who, call[r].asked[1], call[r].asked[2]) = "ok"
  <2>1. Move(r, "authorised", workspace[call[r].asked[2]].instructions)
    BY <1>3 DEF ResolveContext
  <2>2. /\ Moves(r, "authorised") /\ call'[r].who = call[r].who
        /\ call'[r].asked = call[r].asked /\ call'[r].stood = call[r].stood
    BY <1>1, <2>1, MoveStep
  <2>3. /\ workspace[call[r].asked[2]] # None /\ member[<<call[r].asked[2], call[r].who>>] # None
        /\ Allows(member[<<call[r].asked[2], call[r].who>>].role, Routes[call[r].asked[1]].permission)
    BY <1>3, ContextIsGiven
  <2>4. workspace' = workspace /\ member' = member
    BY DEF ResolveContext, identity
  <2>5. call[r].asked[1] \in DOMAIN Routes /\ call[r].asked[2] \in Workspaces
    BY <1>2, AccessAssumptions
  <2>6. Standing(r)'
    BY <1>2, <2>2, <2>3, <2>4, <2>5 DEF Standing
  <2>7. CallOK(r)'
    BY <2>2, <2>6 DEF CallOK, CallPhases, Passed, Moves
  <2> QED
    BY <2>2, <2>7, ReadingStep DEF ResolveContext
<1>4. CASE ContextAnswer(call[r].who, call[r].asked[1], call[r].asked[2]) # "ok"
  <2>1. Moves(r, "ended")
    BY <1>1, <1>4, MoveStep DEF ResolveContext, End
  <2> QED
    BY <2>1, ReadingStep, EndedIsOK DEF ResolveContext, Moves
<1> QED
  BY <1>3, <1>4

LEMMA InstructionsStep ==
    ASSUME AccessInv, NEW r \in Requests, WriteInstructions(r)
    PROVE  AccessInv' /\ RowsStay
<1>1. DOMAIN call = Requests
  BY DEF AccessInv
<1>2. call[r].asked[2] \in Workspaces /\ workspace[call[r].asked[2]] # None
  BY DEF WriteInstructions, AccessInv, CallOK, Passed, Standing
<1>3. Moves(r, "ended")
  BY <1>1, MoveStep DEF WriteInstructions, End
<1>4. PICK text \in Requests \cup {None} :
         workspace' = workspace
            \/ workspace' = [workspace EXCEPT ![call[r].asked[2]].instructions = text]
  BY DEF WriteInstructions
<1>5. IdentityOK' /\ RowsHangTogether' /\ RowsStay
  BY <1>2, <1>4, InstructionsRow DEF WriteInstructions
<1> QED
  BY <1>3, <1>5, Conclude, EndedIsOK DEF Moves

LEMMA MembershipStep ==
    ASSUME AccessInv, NEW r \in Requests,
           \/ AddMembership(r)
           \/ \E w \in Workspaces, u \in Users, role \in Roles : LookForMembership(r, w, u, role)
    PROVE  AccessInv' /\ RowsStay
<1>1. DOMAIN call = Requests
  BY DEF AccessInv
<1>2. CASE \E w \in Workspaces, u \in Users, role \in Roles : LookForMembership(r, w, u, role)
  <2>1. PICK w \in Workspaces, u \in Users, role \in Roles : LookForMembership(r, w, u, role)
    BY <1>2
  <2>2. Moves(r, "no_membership") /\ call'[r].asked = <<w, role>> /\ call'[r].who = u
    BY <1>1, <2>1, StartStep DEF LookForMembership
  <2>3. user' = user /\ workspace' = workspace /\ Known(u) /\ workspace[w] # None
    BY <2>1 DEF LookForMembership, identity, Eligible
  <2>4. CallOK(r)'
    BY <2>2, <2>3 DEF CallOK, CallPhases, Passed, Moves, Known
  <2> QED
    BY <2>1, <2>2, <2>4, ReadingStep DEF LookForMembership
<1>3. CASE AddMembership(r)
  <2>1. /\ call[r].who \in Users /\ Known(call[r].who)
        /\ call[r].asked \in Workspaces \X Roles /\ workspace[call[r].asked[1]] # None
    BY <1>3 DEF AddMembership, AccessInv, CallOK
  <2>2. Moves(r, "ended")
    BY <1>1, <1>3, MoveStep DEF AddMembership, End
  <2>3. IdentityOK' /\ RowsHangTogether' /\ RowsStay
    <3>1. CASE member[<<call[r].asked[1], call[r].who>>] = None
      BY <1>3, <2>1, <3>1, MemberRow DEF AddMembership
    <3>2. CASE member[<<call[r].asked[1], call[r].who>>] # None
      BY <1>3, <3>2, SameIdentity DEF AddMembership, identity, AccessInv, RowsHangTogether
    <3> QED
      BY <3>1, <3>2
  <2> QED
    BY <2>2, <2>3, Conclude, EndedIsOK DEF Moves
<1> QED
  BY <1>2, <1>3

LEMMA AdministrationStep ==
    ASSUME AccessInv, Administration
    PROVE  AccessInv' /\ RowsStay
<1>1. IdentityOK' /\ RowsHangTogether' /\ RowsStay
  BY SwitchedOff DEF Administration, DeactivateUser, OperatorDeactivates, Eligible
<1>2. UNCHANGED call
  BY DEF Administration, DeactivateUser, OperatorDeactivates
<1> QED
  BY <1>1, <1>2, OthersKeep DEF AccessInv

LEMMA AccessCore ==
    ASSUME AccessInv, AccessNext
    PROVE  AccessInv' /\ RowsStay
<1>1. CASE \E r \in Requests : AccessStep(r)
  <2>1. PICK r \in Requests : AccessStep(r)
    BY <1>1
  <2>2. CASE \E u \in Users, s \in Slugs : ResolvePrincipal(r, u, "create_workspace", s)
    BY <2>2, PrincipalStep
  <2>3. CASE \E u \in Users, name \in AskedRoutes, w \in Workspaces :
                ResolvePrincipal(r, u, "route", <<name, w>>)
    BY <2>3, PrincipalStep
  <2> QED
    BY <2>1, <2>2, <2>3, RegisterStep, LoginStep, CreationStep, ContextStep, InstructionsStep,
       MembershipStep DEF AccessStep
<1> QED
  BY <1>1, AdministrationStep DEF AccessNext

(* An operator acts and no request moves, or one request moves that has    *)
(* not ended.                                                              *)
EndedStays == \A s \in Requests : call[s].phase = "ended" => call'[s] = call[s]

LEMMA OneMoves ==
    ASSUME DOMAIN call = Requests, NEW r \in Requests, call[r].phase # "ended",
           NEW c, call' = [call EXCEPT ![r] = c]
    PROVE  EndedStays
BY DEF EndedStays

LEMMA AccessMoves ==
    ASSUME AccessInv, AccessNext
    PROVE  EndedStays
<1>1. DOMAIN call = Requests
  BY DEF AccessInv
<1>2. CASE Administration
  BY <1>2 DEF Administration, DeactivateUser, OperatorDeactivates, EndedStays
<1>3. CASE \E r \in Requests : AccessStep(r)
  <2>1. PICK r \in Requests : AccessStep(r)
    BY <1>3
  <2>2. CASE \/ \E op \in {"register", "register_user"}, e \in Emails : LookForEmail(r, op, e)
             \/ \E u \in Users : Authenticate(r, u)
             \/ \E u \in Users, s \in Slugs : ResolvePrincipal(r, u, "create_workspace", s)
             \/ \E u \in Users, name \in AskedRoutes, w \in Workspaces :
                   ResolvePrincipal(r, u, "route", <<name, w>>)
             \/ \E w \in Workspaces, u \in Users, role \in Roles : LookForMembership(r, w, u, role)
    <3>1. call[r] = Idle /\ \E c : call' = [call EXCEPT ![r] = c]
      BY <2>2 DEF LookForEmail, Authenticate, ResolvePrincipal, LookForMembership, Start
    <3>2. call[r].phase # "ended"
      BY <3>1 DEF Idle
    <3> QED
      BY <1>1, <3>1, <3>2, OneMoves
  <2>3. CASE Register(r) \/ IssueToken(r) \/ CreateWorkspace(r) \/ AddMembership(r)
    <3>1. call[r].phase # "ended" /\ \E c : call' = [call EXCEPT ![r] = c]
      BY <2>3 DEF Register, IssueToken, CreateWorkspace, AddMembership, End, Move
    <3> QED
      BY <1>1, <3>1, OneMoves
  <2>4. CASE LookForSlug(r) \/ ResolveContext(r) \/ WriteInstructions(r)
    <3>1. call[r].phase # "ended" /\ \E phase, read : Move(r, phase, read)
      BY <2>4 DEF LookForSlug, ResolveContext, WriteInstructions, End
    <3>2. \E c : call' = [call EXCEPT ![r] = c]
      BY <3>1 DEF Move
    <3> QED
      BY <1>1, <3>1, <3>2, OneMoves
  <2> QED
    BY <2>1, <2>2, <2>3, <2>4 DEF AccessStep
<1> QED
  BY <1>2, <1>3 DEF AccessNext

-----------------------------------------------------------------------------
(* The rows of users and workspaces, but for what is active or written.    *)
KeepsNames ==
    /\ \A u \in Users : /\ Known(u)' <=> Known(u)
                        /\ Known(u) => user'[u].email = user[u].email
    /\ \A w \in Workspaces :
          /\ workspace'[w] # None <=> workspace[w] # None
          /\ workspace[w] # None => workspace'[w].slug = workspace[w].slug

(* A user and a workspace that were not there at the start, and the        *)
(* request that made them.                                                 *)
UserMade(u) ==
    \E r \in Requests :
        /\ call[r].phase = "ended" /\ call[r].read = u
        /\ call[r].op = IF u \in passwords THEN "register" ELSE "register_user"
        /\ call[r].asked = user[u].email

UserOk(u) == IF Seed.emails[u] # None THEN u \in passwords <=> u \in Seed.passwords ELSE UserMade(u)

WorkspaceMade(w) ==
    \E r \in Requests :
        /\ call[r].phase = "ended" /\ call[r].read = w
        /\ call[r].op = "create_workspace"
        /\ call[r].asked = workspace[w].slug
        /\ call[r].who \in Owners(w)

(* Who was there at the start still is.                                    *)
SeededStay == \A u \in Users : Seed.emails[u] # None => Known(u)

OneUserEach ==
    \A u, v \in Users : Known(u) /\ Known(v) /\ user[u].email = user[v].email => u = v

OneWorkspaceEach ==
    \A w, x \in Workspaces :
        workspace[w] # None /\ workspace[x] # None /\ workspace[w].slug = workspace[x].slug => w = x

LEMMA WholeByParts ==
    CreationIsWhole <=>
        /\ OneUserEach /\ OneWorkspaceEach
        /\ \A u \in Users : Known(u) => UserOk(u)
        /\ \A w \in Workspaces : workspace[w] # None /\ Seed.slugs[w] = None => WorkspaceMade(w)
BY DEF CreationIsWhole, OneUserEach, OneWorkspaceEach, UserOk, UserMade, WorkspaceMade

LEMMA WholeByPartsNext ==
    CreationIsWhole' <=>
        /\ OneUserEach' /\ OneWorkspaceEach'
        /\ \A u \in Users : Known(u)' => UserOk(u)'
        /\ \A w \in Workspaces : workspace'[w] # None /\ Seed.slugs[w] = None => WorkspaceMade(w)'
BY DEF CreationIsWhole, OneUserEach, OneWorkspaceEach, UserOk, UserMade, WorkspaceMade

(* A user that no step touches, whose maker has ended.                     *)
LEMMA UserStays ==
    ASSUME EndedStays, NEW u \in Users, UserOk(u), user'[u].email = user[u].email,
           u \in passwords' <=> u \in passwords
    PROVE  UserOk(u)'
<1>1. CASE Seed.emails[u] # None
  BY <1>1 DEF UserOk
<1>2. CASE Seed.emails[u] = None
  <2>1. PICK r \in Requests :
           /\ call[r].phase = "ended" /\ call[r].read = u
           /\ call[r].op = IF u \in passwords THEN "register" ELSE "register_user"
           /\ call[r].asked = user[u].email
    BY <1>2 DEF UserOk, UserMade
  <2>2. call'[r] = call[r]
    BY <2>1 DEF EndedStays
  <2> QED
    BY <1>2, <2>1, <2>2 DEF UserOk, UserMade
<1> QED
  BY <1>1, <1>2

LEMMA WorkspaceStays ==
    ASSUME EndedStays, RowsStay, NEW w \in Workspaces, WorkspaceMade(w),
           workspace'[w].slug = workspace[w].slug
    PROVE  WorkspaceMade(w)'
<1>1. PICK r \in Requests :
         /\ call[r].phase = "ended" /\ call[r].read = w
         /\ call[r].op = "create_workspace"
         /\ call[r].asked = workspace[w].slug
         /\ call[r].who \in Owners(w)
  BY DEF WorkspaceMade
<1>2. call'[r] = call[r]
  BY <1>1 DEF EndedStays
<1>3. Owners(w) \subseteq Owners(w)'
  BY DEF Owners, RowsStay
<1> QED
  BY <1>1, <1>2, <1>3 DEF WorkspaceMade

LEMMA NamesKept ==
    ASSUME CreationIsWhole, RowsStay, EndedStays, KeepsNames, passwords' = passwords
    PROVE  CreationIsWhole'
<1>1. OneUserEach' /\ OneWorkspaceEach'
  BY WholeByParts DEF OneUserEach, OneWorkspaceEach, KeepsNames
<1>2. \A u \in Users : Known(u)' => UserOk(u)'
  BY WholeByParts, UserStays DEF KeepsNames
<1>3. \A w \in Workspaces : workspace'[w] # None /\ Seed.slugs[w] = None => WorkspaceMade(w)'
  BY WholeByParts, WorkspaceStays DEF KeepsNames
<1>4. (CreationIsWhole <=>
        /\ OneUserEach /\ OneWorkspaceEach
        /\ \A u \in Users : Known(u) => UserOk(u)
        /\ \A w \in Workspaces : workspace[w] # None /\ Seed.slugs[w] = None => WorkspaceMade(w))'
  BY WholeByParts, PTL
<1> QED
  BY <1>1, <1>2, <1>3, <1>4

LEMMA IdentityKept ==
    ASSUME UNCHANGED identity
    PROVE  KeepsNames /\ passwords' = passwords
BY DEF identity, KeepsNames, Known

LEMMA RegisteredIsWhole ==
    ASSUME AccessInv, CreationIsWhole, SeededStay, NEW r \in Requests, Register(r), AccessInv', RowsStay,
           EndedStays
    PROVE  CreationIsWhole'
<1>1. CASE UNCHANGED <<user, passwords>>
  BY <1>1, IdentityKept, NamesKept DEF Register, identity
<1>2. CASE ~UNCHANGED <<user, passwords>>
  <2>1. PICK u \in Users :
           /\ ~Known(u)
           /\ EmailIsFree(call[r].asked)
           /\ user' = [user EXCEPT ![u] = [email |-> call[r].asked, active |-> TRUE]]
           /\ passwords' = passwords \cup {v \in {u} : call[r].op = "register"}
           /\ End(r, u)
    BY <1>2 DEF Register
  <2>2. workspace' = workspace /\ member' = member
    BY <1>2 DEF Register
  <2>3. \A v \in Users : Known(v)' => v = u \/ (Known(v) /\ user'[v] = user[v])
    BY <2>1 DEF AccessInv, IdentityOK, Known
  <2>4. user'[u].email = call[r].asked
    BY <2>1 DEF AccessInv, IdentityOK
  <2>5. OneUserEach' /\ OneWorkspaceEach'
    BY <2>1, <2>2, <2>3, <2>4, WholeByParts DEF OneUserEach, OneWorkspaceEach, EmailIsFree
  <2>6. u \notin passwords /\ (u \in passwords' <=> call[r].op = "register")
    BY <2>1 DEF AccessInv, RowsHangTogether
  <2>7. /\ call'[r].phase = "ended" /\ call'[r].read = u
        /\ call'[r].op = call[r].op /\ call'[r].asked = call[r].asked
    BY <2>1, MoveStep DEF End, AccessInv, Moves
  <2>8. call[r].op \in {"register", "register_user"} /\ Seed.emails[u] = None
    BY <1>2, <2>1 DEF Register, AccessInv, CallOK, SeededStay
  <2>9. UserOk(u)'
    BY <2>4, <2>6, <2>7, <2>8 DEF UserOk, UserMade
  <2>10. ASSUME NEW v \in Users, Known(v)', v # u
         PROVE  UserOk(v)'
    <3>1. Known(v) /\ user'[v] = user[v] /\ (v \in passwords' <=> v \in passwords)
      BY <2>1, <2>3, <2>10
    <3> QED
      BY <3>1, WholeByParts, UserStays
  <2>11. \A w \in Workspaces : workspace'[w] # None /\ Seed.slugs[w] = None => WorkspaceMade(w)'
    BY <2>2, WholeByParts, WorkspaceStays
  <2>12. \A v \in Users : Known(v)' => UserOk(v)'
    BY <2>9, <2>10
  <2> QED
    BY <2>5, <2>11, <2>12, WholeByPartsNext
<1> QED
  BY <1>1, <1>2

LEMMA CreatedIsWhole ==
    ASSUME AccessInv, CreationIsWhole, NEW r \in Requests, CreateWorkspace(r), AccessInv', RowsStay,
           EndedStays
    PROVE  CreationIsWhole'
<1>1. CASE UNCHANGED <<workspace, member>>
  BY <1>1, IdentityKept, NamesKept DEF CreateWorkspace, identity
<1>2. CASE ~UNCHANGED <<workspace, member>>
  <2>0. call[r].who \in Users /\ Known(call[r].who) /\ call[r].asked \in Slugs /\ call[r].op = "create_workspace"
    BY <1>2 DEF CreateWorkspace, AccessInv, CallOK
  <2>1. PICK w \in Workspaces :
           /\ workspace[w] = None
           /\ SlugIsFree(call[r].asked)
           /\ workspace' = [workspace EXCEPT ![w] =
                               [slug |-> call[r].asked, active |-> TRUE, instructions |-> None]]
           /\ member' = [member EXCEPT ![<<w, call[r].who>>] = [role |-> "owner", active |-> TRUE]]
           /\ End(r, w)
    BY <1>2 DEF CreateWorkspace
  <2>2. user' = user /\ passwords' = passwords
    BY <1>2 DEF CreateWorkspace
  <2>3. \A x \in Workspaces : workspace'[x] # None =>
           x = w \/ (workspace[x] # None /\ workspace'[x] = workspace[x])
    BY <2>1 DEF AccessInv, IdentityOK
  <2>4. workspace'[w].slug = call[r].asked
    BY <2>1 DEF AccessInv, IdentityOK
  <2>5. OneUserEach' /\ OneWorkspaceEach'
    BY <2>1, <2>2, <2>3, <2>4, WholeByParts DEF OneUserEach, OneWorkspaceEach, SlugIsFree, Known
  <2>6. call[r].who \in Owners(w)'
    <3>0. PICK u \in Users : u = call[r].who /\ Known(u)
      BY <2>0
    <3>1. member'[<<w, u>>] = [role |-> "owner", active |-> TRUE]
      BY <1>2, <2>0, <2>1, <2>2, <3>0, WorkspaceRow, Zenon DEF CreateWorkspace
    <3>2. member'[<<w, u>>].role = "owner"
      BY <3>1
    <3>3. [role |-> "owner", active |-> TRUE] \in MemberRows
      BY DEF MemberRows, Roles
    <3> QED
      BY <3>0, <3>1, <3>2, <3>3, NoneIsNoRow DEF Owners
  <2>7. /\ call'[r].phase = "ended" /\ call'[r].read = w
        /\ call'[r].op = call[r].op /\ call'[r].asked = call[r].asked /\ call'[r].who = call[r].who
    BY <2>1, MoveStep DEF End, AccessInv, Moves
  <2>8. WorkspaceMade(w)'
    BY <2>0, <2>4, <2>6, <2>7 DEF WorkspaceMade
  <2>9. ASSUME NEW x \in Workspaces, workspace'[x] # None, Seed.slugs[x] = None, x # w
        PROVE  WorkspaceMade(x)'
    <3>1. workspace[x] # None /\ workspace'[x] = workspace[x]
      BY <2>3, <2>9
    <3> QED
      BY <2>9, <3>1, WholeByParts, WorkspaceStays
  <2>10. \A v \in Users : Known(v)' => UserOk(v)'
    BY <2>2, WholeByParts, UserStays DEF Known
  <2>11. \A x \in Workspaces : workspace'[x] # None /\ Seed.slugs[x] = None => WorkspaceMade(x)'
    BY <2>8, <2>9
  <2> QED
    BY <2>5, <2>10, <2>11, WholeByPartsNext
<1> QED
  BY <1>1, <1>2

LEMMA WholeStep ==
    ASSUME AccessInv, CreationIsWhole, SeededStay, AccessNext
    PROVE  CreationIsWhole'
<1>1. AccessInv' /\ RowsStay /\ EndedStays
  BY AccessCore, AccessMoves
<1>2. CASE Administration
  BY <1>1, <1>2, SwitchedOff, NamesKept
     DEF Administration, DeactivateUser, OperatorDeactivates, Eligible, KeepsNames
<1>3. CASE \E r \in Requests : AccessStep(r)
  <2>1. PICK r \in Requests : AccessStep(r)
    BY <1>3
  <2>2. CASE WriteInstructions(r)
    <3>1. call[r].asked[2] \in Workspaces /\ workspace[call[r].asked[2]] # None
      BY <2>2 DEF WriteInstructions, AccessInv, CallOK, Passed, Standing
    <3>2. PICK text \in Requests \cup {None} :
             workspace' = workspace
                \/ workspace' = [workspace EXCEPT ![call[r].asked[2]].instructions = text]
      BY <2>2 DEF WriteInstructions
    <3>3. \A w \in Workspaces :
             /\ workspace'[w] # None <=> workspace[w] # None
             /\ workspace[w] # None => workspace'[w].slug = workspace[w].slug
      BY <1>1, <2>2, <3>1, <3>2, InstructionsRow DEF WriteInstructions, RowsStay
    <3>4. user' = user /\ passwords' = passwords
      BY <2>2 DEF WriteInstructions
    <3> QED
      BY <1>1, <3>3, <3>4, NamesKept DEF KeepsNames, Known
  <2>3. CASE AddMembership(r)
    BY <1>1, <2>3, NamesKept DEF AddMembership, KeepsNames, Known
  <2>4. CASE UNCHANGED identity
    BY <1>1, <2>4, NamesKept, IdentityKept
  <2> QED
    BY <1>1, <2>1, <2>2, <2>3, <2>4, RegisteredIsWhole, CreatedIsWhole
       DEF AccessStep, LookForEmail, Authenticate, IssueToken, ResolvePrincipal, LookForSlug,
           ResolveContext, LookForMembership
<1> QED
  BY <1>2, <1>3 DEF AccessNext

-----------------------------------------------------------------------------
(* Instructions are named after the request that stored them, which has    *)
(* ended, and was given its context.                                       *)
StoredBy(r, w) ==
    /\ call[r].phase = "ended"
    /\ call[r].asked[1] = "replace_workspace_sales_instructions"
    /\ call[r].asked[2] = w
    /\ Standing(r)

ManagerInv ==
    \A w \in Workspaces, s \in Requests :
        workspace[w] # None /\ workspace[w].instructions = s => StoredBy(s, w)

InstructionsStay ==
    \A w \in Workspaces :
        workspace'[w] # None =>
            \/ workspace'[w].instructions \notin Requests
            \/ workspace[w] # None /\ workspace'[w].instructions = workspace[w].instructions

LEMMA ManagersKept ==
    ASSUME AccessInv, ManagerInv, RowsStay, EndedStays, InstructionsStay
    PROVE  ManagerInv'
<1> SUFFICES ASSUME NEW w \in Workspaces, NEW s \in Requests,
                    workspace'[w] # None, workspace'[w].instructions = s
             PROVE  StoredBy(s, w)'
  BY DEF ManagerInv
<1>1. StoredBy(s, w)
  BY DEF ManagerInv, InstructionsStay
<1>2. call'[s] = call[s]
  BY <1>1 DEF StoredBy, EndedStays
<1>3. Standing(s)'
  BY <1>1, <1>2, StandingStays DEF StoredBy
<1> QED
  BY <1>1, <1>2, <1>3 DEF StoredBy

LEMMA ManagerStep ==
    ASSUME AccessInv, ManagerInv, AccessNext
    PROVE  ManagerInv'
<1>1. AccessInv' /\ RowsStay /\ EndedStays
  BY AccessCore, AccessMoves
<1>2. CASE Administration
  BY <1>1, <1>2, SwitchedOff, ManagersKept
     DEF Administration, DeactivateUser, OperatorDeactivates, Eligible, InstructionsStay
<1>3. CASE \E r \in Requests : AccessStep(r)
  <2>1. PICK r \in Requests : AccessStep(r)
    BY <1>3
  <2>2. CASE WriteInstructions(r)
    <3>1. PICK w : w = call[r].asked[2]
      OBVIOUS
    <3>2. w \in Workspaces /\ workspace[w] # None /\ Standing(r)
      BY <2>2, <3>1 DEF WriteInstructions, AccessInv, CallOK, Passed, Standing
    <3>3. PICK text \in Requests \cup {None} :
             /\ \/ workspace' = workspace
                \/ workspace' = [workspace EXCEPT ![w].instructions = text]
             /\ text # None =>
                   text = r /\ call[r].asked[1] = "replace_workspace_sales_instructions"
      BY <2>2, <3>1 DEF WriteInstructions
    <3>4. UNCHANGED <<user, passwords, tokens, member>>
      BY <2>2 DEF WriteInstructions
    <3>5. /\ \A v \in Workspaces : workspace[v] # None =>
                /\ workspace'[v].instructions \in {workspace[v].instructions, text}
                /\ v # w => workspace'[v].instructions = workspace[v].instructions
          /\ \A v \in Workspaces : workspace[v] = None => workspace'[v] = None
      <4>1. \/ UNCHANGED workspace
            \/ workspace' = [workspace EXCEPT ![w].instructions = text]
        BY <3>3
      <4> QED
        BY <3>2, <3>4, <4>1, InstructionsRow, Zenon
    <3>6. Move(r, "ended", "ok")
      BY <2>2 DEF WriteInstructions, End
    <3>7. /\ call'[r].phase = "ended" /\ call'[r].asked = call[r].asked
          /\ call'[r].who = call[r].who /\ call'[r].stood = call[r].stood
      BY <3>6, MoveStep DEF AccessInv, Moves
    <3>8. Standing(r)'
      BY <1>1, <3>2, <3>7, StandingStays
    <3>9. text # None => text = r /\ StoredBy(r, w)'
      BY <3>1, <3>3, <3>7, <3>8 DEF StoredBy
    <3>10. ASSUME NEW v \in Workspaces, NEW s \in Requests,
                  workspace'[v] # None, workspace'[v].instructions = s
           PROVE  StoredBy(s, v)'
      <4>1. workspace[v] # None
        BY <3>5, <3>10
      <4>2. CASE workspace[v].instructions = s
        <5>1. StoredBy(s, v)
          BY <4>1, <4>2 DEF ManagerInv
        <5>2. call'[s] = call[s]
          BY <1>1, <5>1 DEF StoredBy, EndedStays
        <5>3. Standing(s)'
          BY <1>1, <5>1, <5>2, StandingStays DEF StoredBy
        <5> QED
          BY <5>1, <5>2, <5>3 DEF StoredBy
      <4>3. CASE workspace[v].instructions # s
        <5>1. v = w /\ s = text
          BY <3>5, <3>10, <4>1, <4>3
        <5>2. text # None
          BY <5>1, AccessAssumptions
        <5> QED
          BY <3>9, <5>1, <5>2
      <4> QED
        BY <4>2, <4>3
    <3> QED
      BY <3>10 DEF ManagerInv
  <2>3. CASE CreateWorkspace(r)
    <3>1. \/ workspace' = workspace
          \/ \E w \in Workspaces, s \in Slugs : workspace' = [workspace EXCEPT ![w] =
                                          [slug |-> s, active |-> TRUE, instructions |-> None]]
      BY <2>3 DEF CreateWorkspace, AccessInv, CallOK
    <3>2. \A v \in Workspaces : \/ workspace'[v] = workspace[v]
                                \/ workspace'[v].instructions = None
      BY <3>1 DEF AccessInv, IdentityOK
    <3>3. InstructionsStay
      BY <1>1, <3>2, AccessAssumptions DEF InstructionsStay, RowsStay
    <3> QED
      BY <1>1, <3>3, ManagersKept
  <2>4. CASE UNCHANGED workspace
    <3>1. InstructionsStay
      BY <2>4 DEF InstructionsStay
    <3> QED
      BY <1>1, <3>1, ManagersKept
  <2> QED
    BY <2>1, <2>2, <2>3, <2>4
       DEF AccessStep, LookForEmail, Register, Authenticate, IssueToken, ResolvePrincipal,
           LookForSlug, ResolveContext, LookForMembership, AddMembership, identity
<1> QED
  BY <1>2, <1>3 DEF AccessNext

(* Who was given the context of a manager's route is a manager.            *)
LEMMA ManagersByRole ==
    ASSUME AccessInv, ManagerInv
    PROVE  InstructionsByManagers
<1> SUFFICES ASSUME NEW w \in Workspaces, workspace[w] # None, workspace[w].instructions # None
             PROVE  LET r == workspace[w].instructions
                    IN  /\ call[r].stood
                        /\ call[r].asked[2] = w
                        /\ member[<<w, call[r].who>>] # None
                        /\ member[<<w, call[r].who>>].role \in {"owner", "admin"}
  BY DEF InstructionsByManagers
<1>1. PICK s : s = workspace[w].instructions
  OBVIOUS
<1>2. s \in Requests
  BY <1>1 DEF AccessInv, IdentityOK, WorkspaceRows
<1>3. StoredBy(s, w)
  BY <1>1, <1>2 DEF ManagerInv
<1>4. PICK role : role = member[<<w, call[s].who>>].role
  OBVIOUS
<1>5. Allows(role, "workspace_settings_manage")
  BY <1>3, <1>4, InstructionsAreManaged DEF StoredBy, Standing
<1>6. role \in {"owner", "admin"}
  BY <1>5 DEF Allows, RolePermissions, Roles
<1> QED
  BY <1>1, <1>3, <1>4, <1>6 DEF StoredBy, Standing

-----------------------------------------------------------------------------
(* The accounts.  What an event records is never changed, only that it is  *)
(* gone, and a request remembers of the events what is true for good.      *)
EventRows ==
    [account : Accounts, workspace : Workspaces,
     action : FlagActions \cup {"credential_rotated", "secret_reference_changed"},
     at : Nat, gone : Requests \cup {None}]

EventsOK ==
    \A n \in DOMAIN events :
        /\ account[events[n].account] # None
        /\ events[n].workspace = account[events[n].account].workspace
        /\ events[n].at <= clock

LoadOK(read) ==
    /\ read.account \in Accounts /\ account[read.account] # None
    /\ read.row \in AccountRows
    /\ read.row.workspace = account[read.account].workspace
    /\ read.at \in Nat /\ read.at <= clock
    /\ read.told \in Nat /\ read.told <= Len(events)
    /\ \A n \in 1 .. read.told : events[n].at <= read.at

SweepOK(read) == read.cutoff \in Int /\ read.cutoff <= clock - Retention

BatchOK(read) ==
    /\ read.batch \subseteq DOMAIN events
    /\ \A n \in read.batch : events[n].at < read.cutoff

ReadOK(r) ==
    /\ call[r].phase = "account_loaded" =>
          LoadOK(call[r].read) /\ call[r].asked[1] \in DOMAIN LifecycleAction
    /\ call[r].phase \in {"selecting", "deleting"} => SweepOK(call[r].read)
    /\ call[r].phase = "deleting" => BatchOK(call[r].read)
    /\ call[r].phase \in {"selecting", "deleting", "cleaned"} => call[r].read.count \in Nat

AccountInv ==
    /\ account \in [Accounts -> AccountRows \cup {None}]
    /\ clock \in Nat /\ Retention <= clock
    /\ events \in Seq(EventRows)
    /\ EventsOK
    /\ \A r \in Requests : ReadOK(r)

RecordsStay ==
    /\ \A a \in Accounts : account[a] # None =>
          account'[a] # None /\ account'[a].workspace = account[a].workspace
    /\ clock <= clock'
    /\ Len(events) <= Len(events')
    /\ \A n \in DOMAIN events :
          /\ events'[n].account = events[n].account /\ events'[n].workspace = events[n].workspace
          /\ events'[n].action = events[n].action /\ events'[n].at = events[n].at
          /\ events'[n].gone = events[n].gone \/ Kept(n)

RecordsTyped ==
    /\ account' \in [Accounts -> AccountRows \cup {None}]
    /\ clock' \in Nat
    /\ events' \in Seq(EventRows)

LEMMA ReadsKept ==
    ASSUME AccountInv, RecordsStay, RecordsTyped, NEW s \in Requests, call'[s] = call[s]
    PROVE  ReadOK(s)'
<1>1. PICK read : read = call[s].read
  OBVIOUS
<1>2. ReadOK(s)
  BY DEF AccountInv
<1>3. DOMAIN events = 1 .. Len(events) /\ DOMAIN events' = 1 .. Len(events')
  BY DEF AccountInv, RecordsTyped
<1>4. Len(events) \in Nat /\ Len(events') \in Nat
  BY DEF AccountInv, RecordsTyped
<1>5. LoadOK(read) => LoadOK(read)'
  BY <1>3, <1>4 DEF LoadOK, RecordsStay, RecordsTyped, AccountInv
<1>6. SweepOK(read) => SweepOK(read)'
  BY AccountAssumptions DEF SweepOK, RecordsStay, RecordsTyped, AccountInv
<1>7. BatchOK(read) => BatchOK(read)'
  <2> SUFFICES ASSUME BatchOK(read) PROVE BatchOK(read)'
    OBVIOUS
  <2>1. DOMAIN events \subseteq DOMAIN events'
    BY <1>3, <1>4 DEF RecordsStay
  <2>2. \A n \in read.batch : events'[n].at = events[n].at
    BY DEF BatchOK, RecordsStay
  <2> QED
    BY <2>1, <2>2 DEF BatchOK
<1> QED
  BY <1>1, <1>2, <1>5, <1>6, <1>7 DEF ReadOK

LEMMA EventsKept ==
    ASSUME AccountInv, RecordsStay, RecordsTyped
    PROVE  \A n \in DOMAIN events :
              /\ account'[events'[n].account] # None
              /\ events'[n].workspace = account'[events'[n].account].workspace
              /\ events'[n].at <= clock'
<1> SUFFICES ASSUME NEW n \in DOMAIN events
             PROVE  /\ account'[events'[n].account] # None
                    /\ events'[n].workspace = account'[events'[n].account].workspace
                    /\ events'[n].at <= clock'
  OBVIOUS
<1>1. events[n] \in EventRows
  BY DEF AccountInv
<1>2. events[n].account \in Accounts /\ events[n].at \in Nat
  BY <1>1 DEF EventRows
<1> QED
  BY <1>2 DEF AccountInv, EventsOK, RecordsStay, RecordsTyped

LEMMA EventAdded ==
    ASSUME AccountInv, NEW e \in EventRows, events' = Append(events, e)
    PROVE  /\ events' \in Seq(EventRows)
           /\ Len(events) \in Nat /\ Len(events') = Len(events) + 1
           /\ DOMAIN events = 1 .. Len(events) /\ DOMAIN events' = 1 .. Len(events) + 1
           /\ \A n \in DOMAIN events : events'[n] = events[n]
           /\ events'[Len(events) + 1] = e
BY DEF AccountInv

(* A request that has passed the checks goes on, or ends.                  *)
LEMMA PassedOn ==
    ASSUME AccessInv, NEW r \in Requests, NEW phase \in Passed \cup {"ended"}, NEW read,
           call[r].phase \in Passed, Move(r, phase, read), UNCHANGED <<identity, tokens>>
    PROVE  AccessInv' /\ RowsStay
<1>1. DOMAIN call = Requests
  BY DEF AccessInv
<1>2. /\ Moves(r, phase)
      /\ call'[r].asked = call[r].asked /\ call'[r].who = call[r].who
      /\ call'[r].stood = call[r].stood
  BY <1>1, MoveStep
<1>3. Standing(r)
  BY DEF AccessInv, CallOK
<1>4. RowsStay
  BY SameIdentity DEF AccessInv, RowsHangTogether
<1>5. Standing(r)'
  BY <1>2, <1>3, <1>4, StandingStays
<1>6. CallOK(r)'
  BY <1>2, <1>5 DEF CallOK, CallPhases, Passed, Moves
<1> QED
  BY <1>2, <1>6, ReadingStep

(* The records of a step that one request makes.                           *)
LEMMA RecordsConclude ==
    ASSUME AccountInv, NEW r \in Requests, NEW phase, Moves(r, phase),
           RecordsStay, RecordsTyped, EventsOK', ReadOK(r)'
    PROVE  AccountInv'
<1>1. \A s \in Requests : ReadOK(s)'
  BY ReadsKept DEF Moves
<1>2. clock' \in Nat /\ Retention <= clock'
  BY AccountAssumptions DEF AccountInv, RecordsStay, RecordsTyped
<1> QED
  BY <1>1, <1>2 DEF AccountInv, RecordsTyped

LEMMA RecordsUnchanged ==
    ASSUME AccountInv, UNCHANGED <<account, events, clock>>
    PROVE  RecordsStay /\ RecordsTyped /\ EventsOK'
BY DEF AccountInv, RecordsStay, RecordsTyped, EventsOK, Kept

LEMMA NewRow ==
    ASSUME NEW w \in Workspaces, NEW name \in Requests \cup {FirstAccount}
    PROVE  Row(w, name) \in AccountRows /\ Row(w, name) # None /\ Row(w, name).workspace = w
<1>1. <<"credential", name>> \in Credentials /\ <<"secret", name>> \in Secrets
  BY DEF Credentials, Secrets
<1>2. PICK c, s : c = <<"credential", name>> /\ s = <<"secret", name>>
  OBVIOUS
<1>3. Row(w, name) = [workspace |-> w, active |-> TRUE, credential |-> c, secret |-> s]
  BY <1>2 DEF Row
<1>4. Row(w, name) \in AccountRows
  BY <1>1, <1>2, <1>3 DEF AccountRows
<1>5. Row(w, name).workspace = w
  BY <1>3
<1> QED
  BY <1>4, <1>5, NoneIsNoAccount

LEMMA NewEvent ==
    ASSUME NEW a \in Accounts, NEW w \in Workspaces, NEW at \in Nat,
           NEW action \in FlagActions \cup {"credential_rotated", "secret_reference_changed"}
    PROVE  Event(a, w, action, at) \in EventRows
BY DEF Event, EventRows

LEMMA ProvisionRecords ==
    ASSUME AccountInv, NEW a \in Accounts, account[a] = None, NEW w \in Workspaces,
           NEW r \in Requests, account' = [account EXCEPT ![a] = Row(w, r)],
           events' = Append(events, Event(a, w, "provisioned", clock)), UNCHANGED clock
    PROVE  RecordsStay /\ RecordsTyped /\ EventsOK'
<1>1. PICK row : row = Row(w, r)
  OBVIOUS
<1>2. row \in AccountRows /\ row # None /\ row.workspace = w
  BY <1>1, NewRow
<1>3. PICK e : e = Event(a, w, "provisioned", clock)
  OBVIOUS
<1>4. e \in EventRows
  BY <1>3, NewEvent DEF AccountInv, FlagActions
<1>5. e.account = a /\ e.workspace = w /\ e.at = clock
  BY <1>3 DEF Event
<1>6. /\ events' \in Seq(EventRows)
      /\ Len(events) \in Nat /\ Len(events') = Len(events) + 1
      /\ DOMAIN events = 1 .. Len(events) /\ DOMAIN events' = 1 .. Len(events) + 1
      /\ \A n \in DOMAIN events : events'[n] = events[n]
      /\ events'[Len(events) + 1] = e
  BY <1>3, <1>4, EventAdded
<1>7. \A b \in Accounts : account'[b] = IF b = a THEN row ELSE account[b]
  BY <1>1 DEF AccountInv
<1>8. account' \in [Accounts -> AccountRows \cup {None}]
  BY <1>1, <1>2 DEF AccountInv
<1>9. clock' = clock /\ clock \in Nat
  BY DEF AccountInv
<1>10. RecordsTyped
  BY <1>6, <1>8, <1>9 DEF RecordsTyped
<1>11. RecordsStay
  BY <1>2, <1>6, <1>7, <1>9 DEF RecordsStay
<1>12. EventsOK'
  BY <1>2, <1>5, <1>6, <1>7, <1>9, <1>10, <1>11, EventsKept DEF EventsOK
<1> QED
  BY <1>10, <1>11, <1>12

(* What a request makes of the row it loaded, and what is then written.    *)
LEMMA ChangedRow ==
    ASSUME NEW loaded \in AccountRows, NEW name \in DOMAIN LifecycleAction, NEW r \in Requests
    PROVE  /\ Changed(loaded, name, r) \in AccountRows
           /\ LifecycleAction[name] = "deactivated" => Changed(loaded, name, r).active = FALSE
           /\ LifecycleAction[name] = "reactivated" => Changed(loaded, name, r).active = TRUE
           /\ LifecycleAction[name] \notin FlagActions =>
                 Changed(loaded, name, r).active = loaded.active
           /\ LifecycleAction[name] # "provisioned"
           /\ LifecycleAction[name] = "credential_rotated" =>
                 Changed(loaded, name, r).credential = <<"credential", r>>
           /\ LifecycleAction[name] # "credential_rotated" =>
                 Changed(loaded, name, r).credential = loaded.credential
           /\ LifecycleAction[name] = "secret_reference_changed" =>
                 Changed(loaded, name, r).secret = <<"secret", r>>
           /\ LifecycleAction[name] # "secret_reference_changed" =>
                 Changed(loaded, name, r).secret = loaded.secret
           /\ LifecycleAction[name] \in
                 FlagActions \cup {"credential_rotated", "secret_reference_changed"}
<1>1. PICK c, s : c = <<"credential", r>> /\ s = <<"secret", r>>
  OBVIOUS
<1>2. c \in Credentials /\ s \in Secrets
  BY <1>1 DEF Credentials, Secrets
<1>3. CASE name = "deactivate_integration_account"
  BY <1>3 DEF Changed, LifecycleAction, AccountRows, FlagActions
<1>4. CASE name = "reactivate_integration_account"
  BY <1>4 DEF Changed, LifecycleAction, AccountRows, FlagActions
<1>5. CASE name = "rotate_integration_account_credential"
  <2>1. Changed(loaded, name, r) = [loaded EXCEPT !.credential = c]
    BY <1>1, <1>5 DEF Changed
  <2> QED
    BY <1>1, <1>2, <1>5, <2>1 DEF LifecycleAction, AccountRows, FlagActions
<1>6. CASE name = "update_integration_account_secret_reference"
  <2>1. Changed(loaded, name, r) = [loaded EXCEPT !.secret = s]
    BY <1>1, <1>6 DEF Changed
  <2> QED
    BY <1>1, <1>2, <1>6, <2>1 DEF LifecycleAction, AccountRows, FlagActions
<1> QED
  BY <1>3, <1>4, <1>5, <1>6 DEF LifecycleAction

LEMMA WrittenRow ==
    ASSUME NEW now \in AccountRows, NEW loaded \in AccountRows, NEW changed \in AccountRows
    PROVE  /\ Written(now, loaded, changed) \in AccountRows
           /\ Written(now, loaded, changed).workspace = now.workspace
           /\ Written(now, loaded, changed).active =
                 IF changed.active = loaded.active THEN now.active ELSE changed.active
           /\ Written(now, loaded, changed).credential =
                 IF changed.credential = loaded.credential THEN now.credential ELSE changed.credential
           /\ Written(now, loaded, changed).secret =
                 IF changed.secret = loaded.secret THEN now.secret ELSE changed.secret
<1>1. PICK b, c, s : /\ b = IF changed.active = loaded.active THEN now.active ELSE changed.active
                     /\ c = IF changed.credential = loaded.credential THEN now.credential
                            ELSE changed.credential
                     /\ s = IF changed.secret = loaded.secret THEN now.secret ELSE changed.secret
  OBVIOUS
<1>2. b \in BOOLEAN /\ c \in Credentials /\ s \in Secrets
  BY <1>1 DEF AccountRows
<1>3. Written(now, loaded, changed) = [now EXCEPT !.active = b, !.credential = c, !.secret = s]
  BY <1>1 DEF Written
<1>4. /\ Written(now, loaded, changed) \in AccountRows
      /\ Written(now, loaded, changed).workspace = now.workspace
      /\ Written(now, loaded, changed).active = b
      /\ Written(now, loaded, changed).credential = c
      /\ Written(now, loaded, changed).secret = s
  BY <1>2, <1>3 DEF AccountRows
<1> QED
  BY <1>1, <1>4

(* What a save does, with its values named.                                *)
Saves(a, loaded, changed, action, at) ==
    /\ account[a] # None /\ loaded.workspace = account[a].workspace
    /\ at <= clock
    /\ account' = [account EXCEPT ![a] = Written(account[a], loaded, changed)]
    /\ events' = Append(events, Event(a, loaded.workspace, action, at))
    /\ clock' = clock

LEMMA SaveGives ==
    ASSUME AccountInv, NEW r \in Requests, Save(r)
    PROVE  \E a \in Accounts, loaded \in AccountRows, name \in DOMAIN LifecycleAction, at \in Nat :
              /\ call[r].read.account = a /\ call[r].read.row = loaded /\ call[r].asked[1] = name
              /\ call[r].read.at <= at
              /\ Saves(a, loaded, Changed(loaded, name, r), LifecycleAction[name], at)
<1>1. PICK read : read = call[r].read
  OBVIOUS
<1>2. PICK name : name = call[r].asked[1]
  OBVIOUS
<1>3. LoadOK(read) /\ name \in DOMAIN LifecycleAction
  BY <1>1, <1>2 DEF AccountInv, ReadOK, Save
<1>4. PICK a, loaded : a = read.account /\ loaded = read.row
  OBVIOUS
<1>5. /\ a \in Accounts /\ account[a] # None
      /\ loaded \in AccountRows /\ loaded.workspace = account[a].workspace
      /\ read.at \in Nat
  BY <1>3, <1>4 DEF LoadOK
<1>6. account' = [account EXCEPT ![a] = Written(account[a], loaded, Changed(loaded, name, r))]
  BY <1>1, <1>2, <1>4 DEF Save
<1>7. PICK at \in read.at .. clock :
         events' = Append(events, Event(a, loaded.workspace, LifecycleAction[name], at))
  BY <1>1, <1>2, <1>4 DEF Save
<1>8. at \in Nat /\ read.at <= at /\ at <= clock
  BY <1>5, <1>7 DEF AccountInv
<1>9. clock' = clock
  BY DEF Save
<1>10. Saves(a, loaded, Changed(loaded, name, r), LifecycleAction[name], at)
  BY <1>5, <1>6, <1>7, <1>8, <1>9 DEF Saves
<1> QED
  BY <1>1, <1>2, <1>3, <1>4, <1>5, <1>8, <1>10

LEMMA SaveRecords ==
    ASSUME AccountInv, NEW r \in Requests, NEW a \in Accounts, NEW loaded \in AccountRows,
           NEW name \in DOMAIN LifecycleAction, NEW at \in Nat,
           Saves(a, loaded, Changed(loaded, name, r), LifecycleAction[name], at)
    PROVE  RecordsStay /\ RecordsTyped /\ EventsOK'
<1>1. PICK row : row = Written(account[a], loaded, Changed(loaded, name, r))
  OBVIOUS
<1>2. account[a] \in AccountRows /\ account[a] # None
  BY DEF AccountInv, Saves
<1>3. row \in AccountRows /\ row # None /\ row.workspace = account[a].workspace
  <2>1. row \in AccountRows /\ row.workspace = account[a].workspace
    <3>1. PICK changed : changed = Changed(loaded, name, r)
      OBVIOUS
    <3>2. changed \in AccountRows
      BY <3>1, ChangedRow
    <3> QED
      BY <1>1, <1>2, <3>1, <3>2, WrittenRow
  <2> QED
    BY <2>1, NoneIsNoAccount
<1>4. PICK e : e = Event(a, loaded.workspace, LifecycleAction[name], at)
  OBVIOUS
<1>5. loaded.workspace = account[a].workspace /\ loaded.workspace \in Workspaces
  BY DEF Saves, AccountRows
<1>6. e \in EventRows
  BY <1>4, <1>5, NewEvent, ChangedRow
<1>7. e.account = a /\ e.workspace = account[a].workspace /\ e.at = at
  BY <1>4, <1>5 DEF Event
<1>8. /\ events' \in Seq(EventRows)
      /\ Len(events) \in Nat /\ Len(events') = Len(events) + 1
      /\ DOMAIN events = 1 .. Len(events) /\ DOMAIN events' = 1 .. Len(events) + 1
      /\ \A n \in DOMAIN events : events'[n] = events[n]
      /\ events'[Len(events) + 1] = e
  BY <1>4, <1>6, EventAdded DEF Saves
<1>9. account' = [account EXCEPT ![a] = row]
  BY <1>1 DEF Saves
<1>10. /\ account' \in [Accounts -> AccountRows \cup {None}]
       /\ \A b \in Accounts : account'[b] = IF b = a THEN row ELSE account[b]
  BY <1>3, <1>9 DEF AccountInv
<1>11. clock' = clock /\ clock \in Nat /\ at <= clock
  BY DEF AccountInv, Saves
<1>12. RecordsTyped
  BY <1>8, <1>10, <1>11 DEF RecordsTyped
<1>13. RecordsStay
  BY <1>2, <1>3, <1>8, <1>10, <1>11 DEF RecordsStay
<1>14. EventsOK'
  BY <1>2, <1>3, <1>7, <1>8, <1>10, <1>11, <1>12, <1>13, EventsKept DEF EventsOK
<1> QED
  BY <1>12, <1>13, <1>14

LEMMA DeleteRecords ==
    ASSUME AccountInv, NEW r \in Requests, NEW batch,
           events' = [n \in DOMAIN events |->
                        IF n \in batch /\ Kept(n) THEN [events[n] EXCEPT !.gone = r] ELSE events[n]],
           UNCHANGED <<account, clock>>
    PROVE  /\ RecordsStay /\ RecordsTyped /\ EventsOK'
           /\ Len(events') = Len(events) /\ DOMAIN events' = DOMAIN events
           /\ \A n \in DOMAIN events :
                 events'[n].gone = IF n \in batch /\ Kept(n) THEN r ELSE events[n].gone
<1>1. DOMAIN events = 1 .. Len(events) /\ Len(events) \in Nat /\ DOMAIN events' = DOMAIN events
  BY DEF AccountInv
<1>2. \A n \in DOMAIN events : events[n] \in EventRows
  BY DEF AccountInv
<1>3. \A n \in DOMAIN events :
         /\ events'[n] \in EventRows
         /\ events'[n].account = events[n].account /\ events'[n].workspace = events[n].workspace
         /\ events'[n].action = events[n].action /\ events'[n].at = events[n].at
         /\ events'[n].gone = IF n \in batch /\ Kept(n) THEN r ELSE events[n].gone
  <2> SUFFICES ASSUME NEW n \in DOMAIN events
               PROVE  /\ events'[n] \in EventRows
                      /\ events'[n].account = events[n].account
                      /\ events'[n].workspace = events[n].workspace
                      /\ events'[n].action = events[n].action /\ events'[n].at = events[n].at
                      /\ events'[n].gone = IF n \in batch /\ Kept(n) THEN r ELSE events[n].gone
    OBVIOUS
  <2>1. CASE n \in batch /\ Kept(n)
    <3>1. events'[n] = [events[n] EXCEPT !.gone = r]
      BY <2>1
    <3> QED
      BY <1>2, <2>1, <3>1 DEF EventRows
  <2>2. CASE ~(n \in batch /\ Kept(n))
    <3>1. events'[n] = events[n]
      BY <2>2
    <3> QED
      BY <1>2, <2>2, <3>1
  <2> QED
    BY <2>1, <2>2
<1>4. events' \in Seq(EventRows) /\ Len(events') = Len(events)
  <2>1. PICK f : f = events'
    OBVIOUS
  <2>2. f = [n \in 1 .. Len(events) |-> f[n]]
    BY <1>1, <2>1
  <2>3. \A n \in 1 .. Len(events) : f[n] \in EventRows
    BY <1>1, <1>3, <2>1
  <2>4. f \in Seq(EventRows)
    BY <1>1, <2>2, <2>3
  <2> QED
    BY <1>1, <2>1, <2>4, LenProperties
<1>5. RecordsTyped
  BY <1>4 DEF RecordsTyped, AccountInv
<1>6. RecordsStay
  BY <1>3, <1>4 DEF RecordsStay, AccountInv
<1>7. EventsOK'
  BY <1>1, <1>5, <1>6, EventsKept DEF EventsOK
<1> QED
  BY <1>1, <1>3, <1>4, <1>5, <1>6, <1>7

-----------------------------------------------------------------------------
(* Every step keeps the invariant of the records.                          *)
AccountPhases == {"account_loaded", "selecting", "deleting", "cleaned"}

OnlyAccess ==
    \A s \in Requests : \/ call'[s] = call[s]
                        \/ {call[s].phase, call'[s].phase} \cap AccountPhases = {}

LEMMA AccessOnly ==
    ASSUME AccessInv, AccessNext
    PROVE  OnlyAccess
<1>1. DOMAIN call = Requests
  BY DEF AccessInv
<1>2. CASE Administration
  BY <1>2 DEF Administration, DeactivateUser, OperatorDeactivates, OnlyAccess
<1>3. CASE \E r \in Requests : AccessStep(r)
  <2>1. PICK r \in Requests : AccessStep(r)
    BY <1>3
  <2>2. SUFFICES \E phase : Moves(r, phase) /\ phase \notin AccountPhases
    <3>1. call[r].phase \notin AccountPhases
      <4>1. call[r] = Idle \/ call[r].phase \in {"email_free", "verified", "principal", "slug_free",
                                               "authorised", "no_membership"}
        BY <2>1 DEF AccessStep, LookForEmail, Register, Authenticate, IssueToken, ResolvePrincipal,
                    LookForSlug, CreateWorkspace, ResolveContext, WriteInstructions,
                    LookForMembership, AddMembership
      <4> QED
        BY <4>1 DEF Idle, AccountPhases
    <3> QED
      BY <3>1 DEF OnlyAccess, Moves
  <2>3. CASE \E op \in {"register", "register_user"}, e \in Emails : LookForEmail(r, op, e)
    <3>1. \E op, asked, who, stood : Start(r, "email_free", op, asked, who, stood)
      BY <2>3 DEF LookForEmail
    <3> QED
      BY <1>1, <3>1, StartStep DEF AccountPhases
  <2>4. CASE \E u \in Users : Authenticate(r, u)
    BY <1>1, <2>4, StartStep DEF Authenticate, AccountPhases
  <2>5. CASE \/ \E u \in Users, s \in Slugs : ResolvePrincipal(r, u, "create_workspace", s)
             \/ \E u \in Users, name \in AskedRoutes, w \in Workspaces :
                   ResolvePrincipal(r, u, "route", <<name, w>>)
    <3>1. \E op, asked, who, stood : Start(r, "principal", op, asked, who, stood)
      BY <2>5 DEF ResolvePrincipal
    <3> QED
      BY <1>1, <3>1, StartStep DEF AccountPhases
  <2>6. CASE \E w \in Workspaces, u \in Users, role \in Roles : LookForMembership(r, w, u, role)
    <3>1. \E op, asked, who, stood : Start(r, "no_membership", op, asked, who, stood)
      BY <2>6 DEF LookForMembership
    <3> QED
      BY <1>1, <3>1, StartStep DEF AccountPhases
  <2>7. CASE Register(r) \/ IssueToken(r) \/ CreateWorkspace(r) \/ WriteInstructions(r)
                \/ AddMembership(r)
    <3>1. \E answer : Move(r, "ended", answer)
      BY <2>7 DEF Register, IssueToken, CreateWorkspace, WriteInstructions, AddMembership, End
    <3> QED
      BY <1>1, <3>1, MoveStep DEF AccountPhases
  <2>8. CASE LookForSlug(r)
    BY <1>1, <2>8, MoveStep DEF LookForSlug, End, AccountPhases
  <2>9. CASE ResolveContext(r)
    <3>1. \E phase \in {"authorised", "ended"} : \E read : Move(r, phase, read)
      BY <2>9 DEF ResolveContext, End
    <3> QED
      BY <1>1, <3>1, MoveStep DEF AccountPhases
  <2> QED
    BY <2>1, <2>3, <2>4, <2>5, <2>6, <2>7, <2>8, <2>9 DEF AccessStep
<1> QED
  BY <1>2, <1>3 DEF AccessNext

LEMMA AccessKeepsRecords ==
    ASSUME AccessInv, AccountInv, AccessNext, UNCHANGED <<account, events, clock>>
    PROVE  AccountInv'
<1>1. RecordsStay /\ RecordsTyped /\ EventsOK'
  BY RecordsUnchanged
<1>2. OnlyAccess
  BY AccessOnly
<1>3. ASSUME NEW s \in Requests PROVE ReadOK(s)'
  <2>1. CASE call'[s] = call[s]
    BY <1>1, <2>1, ReadsKept
  <2>2. CASE call'[s].phase \notin AccountPhases
    BY <2>2 DEF AccountPhases, ReadOK
  <2> QED
    BY <1>2, <2>1, <2>2 DEF OnlyAccess
<1> QED
  BY <1>1, <1>3 DEF AccountInv, RecordsTyped

LEMMA ProvisionCore ==
    ASSUME AccessInv, AccountInv, NEW r \in Requests, Provision(r)
    PROVE  AccessInv' /\ RowsStay /\ AccountInv' /\ RecordsStay /\ RecordsTyped
<1>1. call[r].phase = "authorised" /\ UNCHANGED <<identity, tokens>> /\ Move(r, "ended", "ok")
  BY DEF Provision, Authorised, End
<1>2. AccessInv' /\ RowsStay
  BY <1>1, PassedOn DEF Passed
<1>3. Moves(r, "ended")
  BY <1>1, MoveStep DEF AccessInv
<1>4. call[r].asked[2] \in Workspaces
  BY <1>1 DEF AccessInv, CallOK, Passed, Standing
<1>5. RecordsStay /\ RecordsTyped /\ EventsOK'
  BY <1>4, ProvisionRecords DEF Provision
<1>6. ReadOK(r)'
  BY <1>3 DEF Moves, ReadOK
<1> QED
  BY <1>2, <1>3, <1>5, <1>6, RecordsConclude

LEMMA LoadCore ==
    ASSUME AccessInv, AccountInv, NEW r \in Requests, NEW a \in Accounts, LoadAccount(r, a)
    PROVE  AccessInv' /\ RowsStay /\ AccountInv' /\ RecordsStay /\ RecordsTyped
<1>1. PICK read : read = [account |-> a, row |-> account[a], at |-> clock, told |-> Len(events)]
  OBVIOUS
<1>2. /\ call[r].phase = "authorised" /\ UNCHANGED <<identity, tokens>>
      /\ Move(r, "account_loaded", read)
  BY <1>1 DEF LoadAccount
<1>3. AccessInv' /\ RowsStay
  BY <1>2, PassedOn DEF Passed
<1>4. Moves(r, "account_loaded") /\ call'[r].read = read /\ call'[r].asked = call[r].asked
  BY <1>2, MoveStep DEF AccessInv
<1>5. RecordsStay /\ RecordsTyped /\ EventsOK'
  BY RecordsUnchanged DEF LoadAccount
<1>6. account[a] # None /\ account[a] \in AccountRows
  BY DEF LoadAccount, AccountInv
<1>7. LoadOK(read)
  <2>1. DOMAIN events = 1 .. Len(events) /\ Len(events) \in Nat
    BY DEF AccountInv
  <2>2. read.account = a /\ read.row = account[a] /\ read.at = clock /\ read.told = Len(events)
    BY <1>1
  <2>3. \A n \in 1 .. Len(events) : events[n].at <= clock
    BY <2>1 DEF AccountInv, EventsOK
  <2> QED
    BY <1>6, <2>1, <2>2, <2>3 DEF LoadOK, AccountInv
<1>8. LoadOK(read)'
  BY <1>7 DEF LoadOK, LoadAccount
<1>9. ReadOK(r)'
  BY <1>4, <1>8 DEF Moves, ReadOK, LoadAccount
<1> QED
  BY <1>3, <1>4, <1>5, <1>9, RecordsConclude

LEMMA SaveCore ==
    ASSUME AccessInv, AccountInv, NEW r \in Requests, Save(r)
    PROVE  AccessInv' /\ RowsStay /\ AccountInv' /\ RecordsStay /\ RecordsTyped
<1>1. call[r].phase = "account_loaded" /\ UNCHANGED <<identity, tokens>> /\ Move(r, "ended", "ok")
  BY DEF Save, End
<1>2. AccessInv' /\ RowsStay
  BY <1>1, PassedOn DEF Passed
<1>3. Moves(r, "ended")
  BY <1>1, MoveStep DEF AccessInv
<1>4. RecordsStay /\ RecordsTyped /\ EventsOK'
  BY SaveGives, SaveRecords
<1>5. ReadOK(r)'
  BY <1>3 DEF Moves, ReadOK
<1> QED
  BY <1>2, <1>3, <1>4, <1>5, RecordsConclude

LEMMA BeginCore ==
    ASSUME AccessInv, AccountInv, NEW r \in Requests, BeginCleanup(r)
    PROVE  AccessInv' /\ RowsStay /\ AccountInv' /\ RecordsStay /\ RecordsTyped
<1>1. PICK read : read = [cutoff |-> clock - Retention, count |-> 0]
  OBVIOUS
<1>2. /\ call[r].phase = "authorised" /\ UNCHANGED <<identity, tokens>>
      /\ Move(r, "selecting", read)
  BY <1>1 DEF BeginCleanup, Authorised
<1>3. AccessInv' /\ RowsStay
  BY <1>2, PassedOn DEF Passed
<1>4. Moves(r, "selecting") /\ call'[r].read = read
  BY <1>2, MoveStep DEF AccessInv
<1>5. RecordsStay /\ RecordsTyped /\ EventsOK'
  BY RecordsUnchanged DEF BeginCleanup
<1>6. SweepOK(read)' /\ read.count = 0
  BY <1>1, AccountAssumptions DEF SweepOK, BeginCleanup, AccountInv
<1>7. ReadOK(r)'
  BY <1>4, <1>6 DEF Moves, ReadOK
<1> QED
  BY <1>3, <1>4, <1>5, <1>7, RecordsConclude

LEMMA SelectCore ==
    ASSUME AccessInv, AccountInv, NEW r \in Requests, SelectBatch(r)
    PROVE  AccessInv' /\ RowsStay /\ AccountInv' /\ RecordsStay /\ RecordsTyped
<1>1. PICK read : read = call[r].read
  OBVIOUS
<1>2. SweepOK(read) /\ read.count \in Nat
  BY <1>1 DEF SelectBatch, AccountInv, ReadOK
<1>3. PICK batch : batch = Batch(Expired(call[r].asked[2], read.cutoff))
  OBVIOUS
<1>4. /\ call[r].phase = "selecting" /\ UNCHANGED <<identity, tokens>>
      /\ UNCHANGED <<account, events, clock>>
  BY DEF SelectBatch
<1>5. RecordsStay /\ RecordsTyped /\ EventsOK'
  BY <1>4, RecordsUnchanged
<1>6. CASE batch = {}
  <2>1. PICK done : done = [count |-> read.count]
    OBVIOUS
  <2>2. Move(r, "cleaned", done)
    BY <1>1, <1>3, <1>6, <2>1 DEF SelectBatch
  <2>3. AccessInv' /\ RowsStay
    BY <1>4, <2>2, PassedOn DEF Passed
  <2>4. Moves(r, "cleaned") /\ call'[r].read = done
    BY <2>2, MoveStep DEF AccessInv
  <2>5. ReadOK(r)'
    BY <1>2, <2>1, <2>4 DEF Moves, ReadOK
  <2> QED
    BY <1>5, <2>3, <2>4, <2>5, RecordsConclude
<1>7. CASE batch # {}
  <2>1. PICK next : next = [cutoff |-> read.cutoff, count |-> read.count, batch |-> batch]
    OBVIOUS
  <2>2. Move(r, "deleting", next)
    BY <1>1, <1>3, <1>7, <2>1 DEF SelectBatch
  <2>3. AccessInv' /\ RowsStay
    BY <1>4, <2>2, PassedOn DEF Passed
  <2>4. Moves(r, "deleting") /\ call'[r].read = next
    BY <2>2, MoveStep DEF AccessInv
  <2>5. next.cutoff = read.cutoff /\ next.count = read.count /\ next.batch = batch
    BY <2>1
  <2>6. batch \subseteq DOMAIN events /\ \A n \in batch : events[n].at < read.cutoff
    BY <1>3 DEF Batch, Expired
  <2>7. BatchOK(next)' /\ SweepOK(next)'
    BY <1>2, <1>4, <2>5, <2>6 DEF BatchOK, SweepOK
  <2>8. ReadOK(r)'
    BY <1>2, <2>4, <2>5, <2>7 DEF Moves, ReadOK
  <2> QED
    BY <1>5, <2>3, <2>4, <2>8, RecordsConclude
<1> QED
  BY <1>6, <1>7

LEMMA BatchIsFinite ==
    ASSUME AccountInv, NEW batch \in SUBSET DOMAIN events
    PROVE  IsFiniteSet(batch) /\ Cardinality(batch) \in Nat /\ CountDeleted(batch) \in Nat
<1>1. IsFiniteSet(DOMAIN events)
  BY FS_Interval DEF AccountInv
<1>2. IsFiniteSet(batch) /\ IsFiniteSet({n \in batch : Kept(n)})
  BY <1>1, FS_Subset
<1> QED
  BY <1>2, FS_CardinalityType DEF CountDeleted

LEMMA DeleteCore ==
    ASSUME AccessInv, AccountInv, NEW r \in Requests, DeleteBatch(r)
    PROVE  AccessInv' /\ RowsStay /\ AccountInv' /\ RecordsStay /\ RecordsTyped
<1>1. PICK read : read = call[r].read
  OBVIOUS
<1>2. SweepOK(read) /\ BatchOK(read) /\ read.count \in Nat
  BY <1>1 DEF DeleteBatch, AccountInv, ReadOK
<1>3. PICK deleted : deleted = CountDeleted(read.batch)
  OBVIOUS
<1>4. deleted \in Nat
  BY <1>2, <1>3, BatchIsFinite DEF BatchOK
<1>5. PICK next : next = [cutoff |-> read.cutoff, count |-> read.count + deleted]
  OBVIOUS
<1>6. next.cutoff = read.cutoff /\ next.count \in Nat
  BY <1>2, <1>4, <1>5
<1>7. call[r].phase = "deleting" /\ UNCHANGED <<identity, tokens>> /\ Move(r, "selecting", next)
  BY <1>1, <1>3, <1>5 DEF DeleteBatch
<1>8. AccessInv' /\ RowsStay
  BY <1>7, PassedOn DEF Passed
<1>9. Moves(r, "selecting") /\ call'[r].read = next
  BY <1>7, MoveStep DEF AccessInv
<1>10. RecordsStay /\ RecordsTyped /\ EventsOK'
  BY DeleteRecords DEF DeleteBatch
<1>11. SweepOK(next)'
  BY <1>2, <1>6 DEF SweepOK, DeleteBatch
<1>12. ReadOK(r)'
  BY <1>6, <1>9, <1>11 DEF Moves, ReadOK
<1> QED
  BY <1>8, <1>9, <1>10, <1>12, RecordsConclude

LEMMA AccountCore ==
    ASSUME AccessInv, AccountInv, NEW r \in Requests, AccountStep(r)
    PROVE  AccessInv' /\ RowsStay /\ AccountInv' /\ RecordsStay /\ RecordsTyped
BY ProvisionCore, LoadCore, SaveCore, BeginCore, SelectCore, DeleteCore DEF AccountStep

LEMMA AccountMoves ==
    ASSUME AccessInv, NEW r \in Requests, AccountStep(r)
    PROVE  EndedStays
<1>1. call[r].phase # "ended" /\ \E phase, read : Move(r, phase, read)
  BY DEF AccountStep, Provision, LoadAccount, Save, BeginCleanup, SelectBatch, DeleteBatch,
         Authorised, End
<1>2. \E c : call' = [call EXCEPT ![r] = c]
  BY <1>1 DEF Move
<1> QED
  BY <1>1, <1>2, OneMoves DEF AccessInv

(* What happens outside of the requests, or not at all.                    *)
LEMMA ElsewhereCore ==
    ASSUME AccessInv, AccountInv,
           Tick \/ (\E i \in InboundCalls : InboundStep(i)) \/ UNCHANGED vars
    PROVE  AccessInv' /\ RowsStay /\ AccountInv' /\ RecordsStay /\ RecordsTyped /\ EndedStays
<1>1. /\ UNCHANGED <<identity, tokens, call>> /\ UNCHANGED <<account, events>>
      /\ clock' \in {clock, clock + 1}
  BY DEF Tick, InboundStep, ReceiveEvent, AuthenticateEvent, vars, accessVars
<1>2. IdentityOK' /\ RowsHangTogether' /\ RowsStay
  BY <1>1, SameIdentity DEF AccessInv, RowsHangTogether
<1>3. AccessInv'
  BY <1>1, <1>2, OthersKeep DEF AccessInv
<1>4. RecordsStay /\ RecordsTyped
  BY <1>1 DEF AccountInv, RecordsStay, RecordsTyped
<1>5. EventsOK'
  BY <1>1, <1>4, EventsKept DEF EventsOK
<1>6. \A s \in Requests : ReadOK(s)'
  BY <1>1, <1>4, ReadsKept
<1>7. AccountInv'
  BY <1>4, <1>5, <1>6, AccountAssumptions DEF AccountInv, RecordsStay, RecordsTyped
<1> QED
  BY <1>1, <1>2, <1>3, <1>4, <1>7 DEF EndedStays

CoreInv == AccessInv /\ AccountInv

LEMMA CoreStep ==
    ASSUME CoreInv, [Next]_vars
    PROVE  CoreInv' /\ RowsStay /\ RecordsStay /\ RecordsTyped /\ EndedStays
<1>1. CASE AccessNext /\ UNCHANGED <<account, events, clock, inbound, retired, crossed>>
  <2>1. AccessInv' /\ RowsStay /\ EndedStays
    BY <1>1, AccessCore, AccessMoves DEF CoreInv
  <2>2. AccountInv' /\ RecordsStay /\ RecordsTyped
    BY <1>1, AccessKeepsRecords, RecordsUnchanged DEF CoreInv
  <2> QED
    BY <2>1, <2>2 DEF CoreInv
<1>2. CASE \E r \in Requests : AccountStep(r)
  BY <1>2, AccountCore, AccountMoves DEF CoreInv
<1> QED
  BY <1>1, <1>2, ElsewhereCore DEF CoreInv, Next

LEMMA InitAccess ==
    ASSUME AccessInit
    PROVE  AccessInv
<1>1. /\ user \in [Users -> UserRows \cup {None}]
      /\ \A u \in Users : Known(u) <=> Seed.emails[u] # None
  <2>1. \A u \in Users : Seed.emails[u] # None =>
           [email |-> Seed.emails[u], active |-> TRUE] \in UserRows
    BY AccessAssumptions DEF UserRows
  <2>2. \A u \in Users : user[u] = IF Seed.emails[u] = None THEN None
                                   ELSE [email |-> Seed.emails[u], active |-> TRUE]
    BY DEF AccessInit
  <2> QED
    BY <2>1, <2>2, NoneIsNoRow DEF AccessInit, Known
<1>2. /\ workspace \in [Workspaces -> WorkspaceRows \cup {None}]
      /\ \A w \in Workspaces : workspace[w] # None <=> Seed.slugs[w] # None
  <2>1. \A w \in Workspaces : Seed.slugs[w] # None =>
           [slug |-> Seed.slugs[w], active |-> TRUE, instructions |-> None] \in WorkspaceRows
    BY AccessAssumptions DEF WorkspaceRows
  <2>2. \A w \in Workspaces : workspace[w] =
           IF Seed.slugs[w] = None THEN None
           ELSE [slug |-> Seed.slugs[w], active |-> TRUE, instructions |-> None]
    BY DEF AccessInit
  <2> QED
    BY <2>1, <2>2, NoneIsNoRow DEF AccessInit
<1>3. /\ member \in [Workspaces \X Users -> MemberRows \cup {None}]
      /\ \A m \in Workspaces \X Users : member[m] # None <=> Seed.roles[m] # None
  <2>1. \A m \in Workspaces \X Users : Seed.roles[m] # None =>
           [role |-> Seed.roles[m], active |-> TRUE] \in MemberRows
    BY AccessAssumptions DEF MemberRows
  <2>2. \A m \in Workspaces \X Users : member[m] =
           IF Seed.roles[m] = None THEN None ELSE [role |-> Seed.roles[m], active |-> TRUE]
    BY DEF AccessInit
  <2> QED
    BY <2>1, <2>2, NoneIsNoRow DEF AccessInit
<1>4. RowsHangTogether
  <2>1. \A w \in Workspaces, u \in Users : <<w, u>> \in Workspaces \X Users
    OBVIOUS
  <2>2. passwords = Seed.passwords /\ tokens = Seed.tokens
    BY DEF AccessInit
  <2> QED
    BY <1>1, <1>2, <1>3, <2>1, <2>2, AccessAssumptions, SeedIsWhole DEF RowsHangTogether
<1>5. \A r \in Requests : CallOK(r)
  BY DEF AccessInit, Idle, CallOK, CallPhases, Passed
<1> QED
  BY <1>1, <1>2, <1>3, <1>4, <1>5 DEF AccessInv, IdentityOK, AccessInit

LEMMA InitCore ==
    ASSUME Init
    PROVE  CoreInv
<1>1. AccessInv /\ call = [r \in Requests |-> Idle]
  BY InitAccess DEF Init, AccessInit
<1>2. PICK row : row = Row(FirstWorkspace, FirstAccount)
  OBVIOUS
<1>3. row \in AccountRows /\ row # None /\ row.workspace = FirstWorkspace
  BY <1>2, NewRow, AccountAssumptions
<1>4. /\ account \in [Accounts -> AccountRows \cup {None}]
      /\ account[FirstAccount] = row
  BY <1>2, <1>3, AccountAssumptions DEF Init
<1>5. clock \in Nat /\ Retention <= clock
  BY AccountAssumptions DEF Init
<1>6. History \in Seq(FlagActions) /\ DOMAIN History = 1 .. Len(History) /\ Len(History) \in Nat
  BY AccountAssumptions
<1>7. \A n \in DOMAIN History : Event(FirstAccount, FirstWorkspace, History[n], 0) \in EventRows
  <2>1. \A n \in DOMAIN History : History[n] \in FlagActions
    BY <1>6
  <2> QED
    BY <2>1, NewEvent, AccountAssumptions
<1>8. events \in Seq(EventRows)
  <2>1. PICK f : f = events
    OBVIOUS
  <2>2. f = [n \in 1 .. Len(History) |-> f[n]] /\ \A n \in 1 .. Len(History) : f[n] \in EventRows
    BY <1>6, <1>7, <2>1 DEF Init
  <2>3. f \in Seq(EventRows)
    BY <1>6, <2>2
  <2> QED
    BY <2>1, <2>3
<1>9. EventsOK
  <2>1. \A n \in DOMAIN events : /\ events[n].account = FirstAccount
                                 /\ events[n].workspace = FirstWorkspace /\ events[n].at = 0
    BY DEF Init, Event
  <2> QED
    BY <1>3, <1>4, <1>5, <2>1 DEF EventsOK
<1>10. \A r \in Requests : ReadOK(r)
  BY <1>1 DEF Idle, ReadOK
<1> QED
  BY <1>1, <1>4, <1>5, <1>8, <1>9, <1>10 DEF CoreInv, AccountInv

-----------------------------------------------------------------------------
(* The theorems about users, workspaces and members.                       *)
LEMMA InitWhole ==
    ASSUME Init
    PROVE  CreationIsWhole /\ SeededStay /\ ManagerInv
<1>1. AccessInit
  BY DEF Init
<1>2. \A u \in Users : user[u] = IF Seed.emails[u] = None THEN None
                                 ELSE [email |-> Seed.emails[u], active |-> TRUE]
  BY <1>1 DEF AccessInit
<1>3. \A u \in Users : Known(u) => Seed.emails[u] # None /\ user[u].email = Seed.emails[u]
  <2> SUFFICES ASSUME NEW u \in Users, Known(u)
               PROVE  Seed.emails[u] # None /\ user[u].email = Seed.emails[u]
    OBVIOUS
  <2>1. Seed.emails[u] # None
    BY <1>2 DEF Known
  <2>2. user[u] = [email |-> Seed.emails[u], active |-> TRUE]
    BY <1>2, <2>1
  <2> QED
    BY <2>1, <2>2
<1>4. \A w \in Workspaces : workspace[w] =
         IF Seed.slugs[w] = None THEN None
         ELSE [slug |-> Seed.slugs[w], active |-> TRUE, instructions |-> None]
  BY <1>1 DEF AccessInit
<1>5. \A w \in Workspaces : workspace[w] # None =>
         /\ Seed.slugs[w] # None /\ workspace[w].slug = Seed.slugs[w]
         /\ workspace[w].instructions = None
  <2> SUFFICES ASSUME NEW w \in Workspaces, workspace[w] # None
               PROVE  /\ Seed.slugs[w] # None /\ workspace[w].slug = Seed.slugs[w]
                      /\ workspace[w].instructions = None
    OBVIOUS
  <2>1. Seed.slugs[w] # None
    BY <1>4
  <2>2. workspace[w] = [slug |-> Seed.slugs[w], active |-> TRUE, instructions |-> None]
    BY <1>4, <2>1
  <2> QED
    BY <2>1, <2>2
<1>6. OneUserEach /\ OneWorkspaceEach
  BY <1>3, <1>5, SeedIsWhole DEF OneUserEach, OneWorkspaceEach
<1>7. \A u \in Users : Known(u) => UserOk(u)
  BY <1>1, <1>3 DEF AccessInit, UserOk
<1>8. SeededStay
  <2>1. \A u \in Users : Seed.emails[u] # None => [email |-> Seed.emails[u], active |-> TRUE] \in UserRows
    BY AccessAssumptions DEF UserRows
  <2> QED
    BY <1>2, <2>1, NoneIsNoRow DEF SeededStay, Known
<1>9. CreationIsWhole
  BY <1>5, <1>6, <1>7, WholeByParts
<1>10. ManagerInv
  BY <1>5, AccessAssumptions DEF ManagerInv
<1> QED
  BY <1>8, <1>9, <1>10

LEMMA WholeAlways ==
    ASSUME CoreInv, CreationIsWhole, SeededStay, ManagerInv, [Next]_vars
    PROVE  CreationIsWhole' /\ SeededStay' /\ ManagerInv'
<1>0. RowsStay /\ EndedStays
  BY CoreStep
<1>1. RowsStay /\ EndedStays /\ SeededStay'
  BY <1>0 DEF RowsStay, SeededStay
<1>2. CASE AccessNext
  BY <1>1, <1>2, WholeStep, ManagerStep DEF CoreInv
<1>3. CASE ~AccessNext
  <2>1. UNCHANGED identity
    BY <1>3 DEF Next, AccountStep, Provision, LoadAccount, Save, BeginCleanup, SelectBatch,
                DeleteBatch, InboundStep, ReceiveEvent, AuthenticateEvent, Tick, vars, accessVars
  <2>2. CreationIsWhole'
    BY <1>1, <2>1, IdentityKept, NamesKept
  <2>3. InstructionsStay
    BY <2>1 DEF identity, InstructionsStay
  <2> QED
    BY <1>1, <2>2, <2>3, ManagersKept DEF CoreInv
<1> QED
  BY <1>2, <1>3

-----------------------------------------------------------------------------
(* Retention.  Only the deletion of a batch takes an event.                *)
LEMMA EventsOnlyAdded ==
    ASSUME CoreInv, [Next]_vars, \A r \in Requests : ~DeleteBatch(r)
    PROVE  /\ DOMAIN events \subseteq DOMAIN events'
           /\ \A n \in DOMAIN events : events'[n] = events[n]
           /\ \A n \in DOMAIN events' \ DOMAIN events : events'[n].gone = None
<1>1. CASE events' = events
  BY <1>1
<1>2. CASE \E r \in Requests : Provision(r)
  <2>1. PICK r \in Requests, a \in Accounts :
           events' = Append(events, Event(a, call[r].asked[2], "provisioned", clock))
    BY <1>2 DEF Provision
  <2>2. PICK e : e = Event(a, call[r].asked[2], "provisioned", clock)
    OBVIOUS
  <2>3. e.gone = None
    BY <2>2 DEF Event
  <2> QED
    BY <2>1, <2>2, <2>3 DEF CoreInv, AccountInv
<1>3. CASE \E r \in Requests : Save(r)
  <2>1. PICK e : events' = Append(events, e) /\ e.gone = None
    BY <1>3 DEF Save, Event
  <2> QED
    BY <2>1 DEF CoreInv, AccountInv
<1> QED
  BY <1>1, <1>2, <1>3
     DEF Next, AccountStep, LoadAccount, BeginCleanup, SelectBatch, InboundStep, ReceiveEvent,
         AuthenticateEvent, Tick, vars

LEMMA RecentStep ==
    ASSUME CoreInv, [Next]_vars
    PROVE  \A n \in DOMAIN events : Kept(n) /\ ~Kept(n)' => events[n].at < clock - Retention
<1>1. CASE \A r \in Requests : ~DeleteBatch(r)
  BY <1>1, EventsOnlyAdded DEF Kept
<1>2. CASE \E r \in Requests : DeleteBatch(r)
  <2>1. PICK r \in Requests : DeleteBatch(r)
    BY <1>2
  <2>2. PICK read : read = call[r].read
    OBVIOUS
  <2>3. SweepOK(read) /\ BatchOK(read)
    BY <2>1, <2>2 DEF DeleteBatch, CoreInv, AccountInv, ReadOK
  <2>4. \A n \in DOMAIN events :
           events'[n].gone = IF n \in read.batch /\ Kept(n) THEN r ELSE events[n].gone
    BY <2>1, <2>2, DeleteRecords DEF DeleteBatch, CoreInv
  <2> SUFFICES ASSUME NEW n \in DOMAIN events, Kept(n), ~Kept(n)'
               PROVE  events[n].at < clock - Retention
    OBVIOUS
  <2>5. n \in read.batch
    BY <2>4 DEF Kept
  <2>6. events[n].at \in Nat
    <3>1. events[n] \in EventRows
      BY DEF CoreInv, AccountInv
    <3> QED
      BY <3>1 DEF EventRows
  <2>7. events[n].at < read.cutoff
    BY <2>3, <2>5 DEF BatchOK
  <2> QED
    BY <2>3, <2>6, <2>7, AccountAssumptions DEF SweepOK, CoreInv, AccountInv
<1> QED
  BY <1>1, <1>2

(* What a cleanup reports changes only with what it deletes.               *)
LEMMA ReportsKept ==
    ASSUME CoreInv, [Next]_vars, \A r \in Requests : ~DeleteBatch(r)
    PROVE  \A s \in Requests : Reported(s)' = Reported(s)
<1>1. CASE AccessNext
  <2>1. OnlyAccess
    BY <1>1, AccessOnly DEF CoreInv
  <2> QED
    BY <2>1 DEF OnlyAccess, AccountPhases, Reported
<1>2. CASE UNCHANGED call
  BY <1>2 DEF Reported
<1>3. CASE \E r \in Requests : AccountStep(r)
  <2>1. PICK r \in Requests : AccountStep(r)
    BY <1>3
  <2>2. SUFFICES \E phase, read :
                    /\ Move(r, phase, read)
                    /\ Reported(r) = IF phase \in {"selecting", "deleting", "cleaned"}
                                     THEN read.count ELSE 0
    <3>1. PICK phase, read :
             /\ Move(r, phase, read)
             /\ Reported(r) = IF phase \in {"selecting", "deleting", "cleaned"}
                              THEN read.count ELSE 0
      BY <2>2
    <3>2. Moves(r, phase) /\ call'[r].read = read
      BY <3>1, MoveStep DEF CoreInv, AccessInv
    <3> QED
      BY <3>1, <3>2 DEF Moves, Reported
  <2>3. CASE Provision(r) \/ Save(r)
    BY <2>3 DEF Provision, Save, Authorised, End, Reported
  <2>4. CASE \E a \in Accounts : LoadAccount(r, a)
    BY <2>4 DEF LoadAccount, Reported
  <2>5. CASE BeginCleanup(r)
    <3>1. PICK read : read = [cutoff |-> clock - Retention, count |-> 0]
      OBVIOUS
    <3>2. Move(r, "selecting", read) /\ read.count = 0
      BY <2>5, <3>1 DEF BeginCleanup
    <3> QED
      BY <2>5, <3>2 DEF BeginCleanup, Authorised, Reported
  <2>6. CASE SelectBatch(r)
    <3>1. PICK read : read = call[r].read
      OBVIOUS
    <3>2. PICK batch : batch = Batch(Expired(call[r].asked[2], read.cutoff))
      OBVIOUS
    <3>3. PICK done, next : /\ done = [count |-> read.count]
                            /\ next = [cutoff |-> read.cutoff, count |-> read.count, batch |-> batch]
      OBVIOUS
    <3>4. done.count = read.count /\ next.count = read.count
      BY <3>3
    <3>5. Move(r, "cleaned", done) \/ Move(r, "deleting", next)
      BY <2>6, <3>1, <3>2, <3>3 DEF SelectBatch
    <3>6. Reported(r) = read.count
      BY <2>6, <3>1 DEF SelectBatch, Reported
    <3> QED
      BY <3>4, <3>5, <3>6
  <2> QED
    BY <2>1, <2>3, <2>4, <2>5, <2>6 DEF AccountStep
<1> QED
  BY <1>1, <1>2, <1>3
     DEF Next, InboundStep, ReceiveEvent, AuthenticateEvent, Tick, vars, accessVars

TakenBy(r) == {n \in DOMAIN events : events[n].gone = r}

LEMMA CountStep ==
    ASSUME CoreInv, CleanupCountsExact, [Next]_vars
    PROVE  CleanupCountsExact'
<1> SUFFICES ASSUME NEW s \in Requests
             PROVE  Cardinality(TakenBy(s)') = Reported(s)'
  BY DEF CleanupCountsExact, TakenBy
<1>1. Cardinality(TakenBy(s)) = Reported(s)
  BY DEF CleanupCountsExact, TakenBy
<1>2. CASE \A r \in Requests : ~DeleteBatch(r)
  <2>1. TakenBy(s)' = TakenBy(s)
    BY <1>2, EventsOnlyAdded, AccessAssumptions DEF TakenBy
  <2> QED
    BY <1>1, <1>2, <2>1, ReportsKept
<1>3. CASE \E r \in Requests : DeleteBatch(r)
  <2>1. PICK r \in Requests : DeleteBatch(r)
    BY <1>3
  <2>2. PICK read : read = call[r].read
    OBVIOUS
  <2>3. BatchOK(read) /\ read.count \in Nat
    BY <2>1, <2>2 DEF DeleteBatch, CoreInv, AccountInv, ReadOK
  <2>4. /\ DOMAIN events' = DOMAIN events
        /\ \A n \in DOMAIN events :
              events'[n].gone = IF n \in read.batch /\ Kept(n) THEN r ELSE events[n].gone
    BY <2>1, <2>2, DeleteRecords DEF DeleteBatch, CoreInv
  <2>5. PICK deleted : deleted = CountDeleted(read.batch)
    OBVIOUS
  <2>6. PICK next : next = [cutoff |-> read.cutoff, count |-> read.count + deleted]
    OBVIOUS
  <2>7. Move(r, "selecting", next)
    BY <2>1, <2>2, <2>5, <2>6 DEF DeleteBatch
  <2>8. Moves(r, "selecting") /\ call'[r].read = next
    BY <2>7, MoveStep DEF CoreInv, AccessInv
  <2>9. CASE s # r
    <3>1. TakenBy(s)' = TakenBy(s)
      BY <2>4, <2>9, AccessAssumptions DEF TakenBy, Kept
    <3>2. Reported(s)' = Reported(s)
      BY <2>8, <2>9 DEF Moves, Reported
    <3> QED
      BY <1>1, <3>1, <3>2
  <2>10. CASE s = r
    <3> DEFINE Fresh == {n \in read.batch : Kept(n)}
    <3>1. Fresh \subseteq DOMAIN events
      BY <2>3 DEF BatchOK
    <3>2. TakenBy(r)' = TakenBy(r) \cup Fresh
      BY <2>3, <2>4, AccessAssumptions DEF TakenBy, Kept, BatchOK
    <3>3. TakenBy(r) \cap Fresh = {}
      BY AccessAssumptions DEF TakenBy, Kept
    <3>4. IsFiniteSet(DOMAIN events)
      BY FS_Interval DEF CoreInv, AccountInv
    <3>5. TakenBy(r) \subseteq DOMAIN events
      BY DEF TakenBy
    <3>6. deleted = Cardinality(Fresh)
      BY <2>5 DEF CountDeleted
    <3> HIDE DEF Fresh
    <3>7. IsFiniteSet(Fresh) /\ IsFiniteSet(TakenBy(r))
      BY <3>1, <3>4, <3>5, FS_Subset
    <3>8. Cardinality(TakenBy(r) \cup Fresh) =
             Cardinality(TakenBy(r)) + Cardinality(Fresh) - Cardinality(TakenBy(r) \cap Fresh)
      BY <3>7, FS_Union
    <3>9. Cardinality(TakenBy(r) \cap Fresh) = 0
      BY <3>3, FS_EmptySet
    <3>10. Reported(r) = read.count
      BY <2>1, <2>2 DEF DeleteBatch, Reported
    <3>11. next.count = read.count + deleted
      BY <2>6
    <3>12. Reported(r)' = read.count + deleted
      BY <2>8, <3>11 DEF Moves, Reported
    <3>13. Cardinality(TakenBy(r)) = read.count
      BY <1>1, <2>10, <3>10
    <3>14. Cardinality(Fresh) \in Nat
      BY <3>7, FS_CardinalityType
    <3> QED
      BY <2>3, <2>10, <3>2, <3>6, <3>8, <3>9, <3>12, <3>13, <3>14
  <2> QED
    BY <2>9, <2>10
<1> QED
  BY <1>2, <1>3

-----------------------------------------------------------------------------
(* Credentials and secret references.  The name of a request is used once  *)
(* it has ended, so what a request makes is new.                           *)
UsedNames == {FirstAccount} \cup {s \in Requests : call[s].phase = "ended"}
UsedCredentials == {"credential"} \X UsedNames
UsedSecrets     == {"secret"} \X UsedNames

Current(a) ==
    /\ account[a].credential \in UsedCredentials \ retired
    /\ account[a].secret \in UsedSecrets \ retired

LoadedNames(r) ==
    call[r].phase = "account_loaded" =>
        /\ call[r].read.row.credential \in UsedCredentials
        /\ call[r].read.row.secret \in UsedSecrets

NamesInv ==
    /\ \A a \in Accounts : account[a] # None => Current(a)
    /\ \A a, b \in Accounts :
          account[a] # None /\ account[b] # None /\ a # b =>
             /\ account[a].credential # account[b].credential
             /\ account[a].secret # account[b].secret
    /\ retired \subseteq UsedCredentials \cup UsedSecrets
    /\ \A r \in Requests : LoadedNames(r)

LEMMA UsedGrow ==
    ASSUME EndedStays
    PROVE  /\ UsedNames \subseteq UsedNames'
           /\ UsedCredentials \subseteq UsedCredentials' /\ UsedSecrets \subseteq UsedSecrets'
BY DEF EndedStays, UsedNames, UsedCredentials, UsedSecrets

LEMMA FreshName ==
    ASSUME NEW r \in Requests, call[r].phase # "ended"
    PROVE  <<"credential", r>> \notin UsedCredentials /\ <<"secret", r>> \notin UsedSecrets
BY AccountAssumptions DEF UsedNames, UsedCredentials, UsedSecrets

LEMMA NowUsed ==
    ASSUME NEW r \in Requests, call'[r].phase = "ended"
    PROVE  <<"credential", r>> \in UsedCredentials' /\ <<"secret", r>> \in UsedSecrets'
BY DEF UsedNames, UsedCredentials, UsedSecrets

LEMMA KindsDiffer ==
    /\ UsedCredentials \cap UsedSecrets = {}
    /\ \A r : <<"credential", r>> \notin UsedSecrets /\ <<"secret", r>> \notin UsedCredentials
    /\ \A r, s : <<"credential", r>> # <<"secret", s>>
BY DEF UsedCredentials, UsedSecrets

(* Nothing is renewed.                                                     *)
LEMMA NoneRenewed ==
    ASSUME NamesInv, EndedStays, UNCHANGED <<account, retired>>,
           \A r \in Requests : call'[r] = call[r] \/ LoadedNames(r)'
    PROVE  NamesInv'
<1>1. \A r \in Requests : LoadedNames(r)'
  BY UsedGrow DEF NamesInv, LoadedNames
<1>2. \A a \in Accounts : account'[a] # None => Current(a)'
  BY UsedGrow DEF NamesInv, Current
<1> QED
  BY <1>1, <1>2, UsedGrow DEF NamesInv

(* A request that ends makes a row out of what was there and what is new.  *)
Renewed(a, c, s, old) ==
    /\ account'[a].credential = c /\ account'[a].secret = s
    /\ \A b \in Accounts \ {a} : account'[b] = account[b]
    /\ retired' = retired \cup old

LEMMA NamesRenewed ==
    ASSUME CoreInv, NamesInv, EndedStays, NEW r \in Requests, call[r].phase # "ended",
           Moves(r, "ended"), NEW a \in Accounts, NEW c, NEW s, NEW old,
           Renewed(a, c, s, old),
           \/ account[a] = None /\ c = <<"credential", r>> /\ s = <<"secret", r>> /\ old = {}
           \/ /\ account[a] # None /\ c = <<"credential", r>> /\ s = account[a].secret
              /\ old = {account[a].credential}
           \/ /\ account[a] # None /\ c = account[a].credential /\ s = <<"secret", r>>
              /\ old = {account[a].secret}
           \/ /\ account[a] # None /\ c = account[a].credential /\ s = account[a].secret
              /\ old = {}
    PROVE  NamesInv'
<1>1. PICK nc, ns : nc = <<"credential", r>> /\ ns = <<"secret", r>>
  OBVIOUS
<1>2. nc \notin UsedCredentials /\ ns \notin UsedSecrets
  BY <1>1, FreshName
<1>3. nc \in UsedCredentials' /\ ns \in UsedSecrets'
  BY <1>1, NowUsed DEF Moves
<1>4. /\ UsedCredentials \subseteq UsedCredentials' /\ UsedSecrets \subseteq UsedSecrets'
  BY UsedGrow
<1>5. UsedCredentials \cap UsedSecrets = {} /\ nc \notin UsedSecrets /\ ns \notin UsedCredentials
  BY <1>1, KindsDiffer
<1>6. \A b \in Accounts : account[b] # None =>
         /\ account[b].credential \in UsedCredentials \ retired
         /\ account[b].secret \in UsedSecrets \ retired
  BY DEF NamesInv, Current
<1>7. retired \subseteq UsedCredentials \cup UsedSecrets
  BY DEF NamesInv
<1>8. \A b, d \in Accounts : account[b] # None /\ account[d] # None /\ b # d =>
         /\ account[b].credential # account[d].credential
         /\ account[b].secret # account[d].secret
  BY DEF NamesInv
<1>9. \A q \in Requests : LoadedNames(q)'
  <2>1. LoadedNames(r)'
    BY DEF Moves, LoadedNames
  <2>2. \A q \in Requests \ {r} : LoadedNames(q)'
    BY <1>4 DEF Moves, LoadedNames, NamesInv
  <2> QED
    BY <2>1, <2>2
<1>10. /\ c = nc \/ (account[a] # None /\ c = account[a].credential)
       /\ s = ns \/ (account[a] # None /\ s = account[a].secret)
  BY <1>1
<1>11. /\ account[a] = None => old = {}
       /\ account[a] # None => old \subseteq {account[a].credential, account[a].secret} \ {c, s}
       /\ old \subseteq UsedCredentials \cup UsedSecrets
  <2>1. CASE account[a] = None
    BY <2>1
  <2>2. CASE account[a] # None
    <3>1. account[a].credential \in UsedCredentials /\ account[a].secret \in UsedSecrets
      BY <1>6, <2>2
    <3> QED
      BY <1>1, <1>2, <1>5, <2>2, <3>1
  <2> QED
    BY <2>1, <2>2
<1>12. /\ c \in UsedCredentials' /\ s \in UsedSecrets'
       /\ c \notin retired' /\ s \notin retired'
  BY <1>2, <1>3, <1>4, <1>5, <1>6, <1>7, <1>10, <1>11 DEF Renewed
<1>13. ASSUME NEW b \in Accounts \ {a}, account'[b] # None
       PROVE  Current(b)' /\ account'[b].credential # c /\ account'[b].secret # s
  <2>1. account'[b] = account[b] /\ account[b] # None
    BY <1>13 DEF Renewed
  <2>2. /\ account[b].credential \in UsedCredentials \ retired
        /\ account[b].secret \in UsedSecrets \ retired
    BY <1>6, <2>1
  <2>3. account[a] # None => /\ account[b].credential # account[a].credential
                             /\ account[b].secret # account[a].secret
    BY <1>8, <2>1
  <2>4. account[b].credential \notin old /\ account[b].secret \notin old
    <3>1. CASE account[a] = None
      BY <1>11, <3>1
    <3>2. CASE account[a] # None
      <4>1. account[a].credential \in UsedCredentials /\ account[a].secret \in UsedSecrets
        BY <1>6, <3>2
      <4> QED
        BY <1>5, <1>11, <2>2, <2>3, <3>2, <4>1
    <3> QED
      BY <3>1, <3>2
  <2>5. Current(b)'
    BY <1>4, <2>1, <2>2, <2>4 DEF Current, Renewed
  <2>6. account'[b].credential # c /\ account'[b].secret # s
    BY <1>2, <1>10, <2>1, <2>2, <2>3
  <2> QED
    BY <2>5, <2>6
<1>14. Current(a)'
  BY <1>12 DEF Current, Renewed
<1>15. \A b \in Accounts : account'[b] # None => Current(b)'
  BY <1>13, <1>14
<1>16. \A b, d \in Accounts : account'[b] # None /\ account'[d] # None /\ b # d =>
          /\ account'[b].credential # account'[d].credential
          /\ account'[b].secret # account'[d].secret
  BY <1>8, <1>13 DEF Renewed
<1>17. retired' \subseteq UsedCredentials' \cup UsedSecrets'
  BY <1>4, <1>7, <1>11 DEF Renewed
<1> QED
  BY <1>9, <1>15, <1>16, <1>17 DEF NamesInv

LEMMA NamesProvisioned ==
    ASSUME CoreInv, NamesInv, EndedStays, NEW r \in Requests, Provision(r)
    PROVE  NamesInv'
<1>1. call[r].phase # "ended" /\ Move(r, "ended", "ok")
  BY DEF Provision, Authorised, End
<1>2. Moves(r, "ended")
  BY <1>1, MoveStep DEF CoreInv, AccessInv
<1>3. PICK a \in Accounts : /\ account[a] = None
                            /\ account' = [account EXCEPT ![a] = Row(call[r].asked[2], r)]
  BY DEF Provision
<1>4. PICK row : row = Row(call[r].asked[2], r)
  OBVIOUS
<1>5. row.credential = <<"credential", r>> /\ row.secret = <<"secret", r>>
  BY <1>4 DEF Row
<1>6. account'[a] = row /\ \A b \in Accounts \ {a} : account'[b] = account[b]
  BY <1>3, <1>4 DEF CoreInv, AccountInv
<1>7. Renewed(a, <<"credential", r>>, <<"secret", r>>, {})
  BY <1>5, <1>6 DEF Renewed, Provision
<1> QED
  BY <1>1, <1>2, <1>3, <1>7, NamesRenewed

LEMMA NamesSaved ==
    ASSUME CoreInv, NamesInv, EndedStays, NEW r \in Requests, Save(r)
    PROVE  NamesInv'
<1>1. call[r].phase # "ended" /\ Move(r, "ended", "ok")
  BY DEF Save, End
<1>2. Moves(r, "ended")
  BY <1>1, MoveStep DEF CoreInv, AccessInv
<1>3. PICK a \in Accounts, loaded \in AccountRows, name \in DOMAIN LifecycleAction, at \in Nat :
         /\ call[r].read.account = a /\ call[r].read.row = loaded /\ call[r].asked[1] = name
         /\ Saves(a, loaded, Changed(loaded, name, r), LifecycleAction[name], at)
  BY SaveGives DEF CoreInv
<1>4. PICK changed : changed = Changed(loaded, name, r)
  OBVIOUS
<1>5. PICK action : action = LifecycleAction[name]
  OBVIOUS
<1>6. /\ changed \in AccountRows
      /\ action = "credential_rotated" => changed.credential = <<"credential", r>>
      /\ action # "credential_rotated" => changed.credential = loaded.credential
      /\ action = "secret_reference_changed" => changed.secret = <<"secret", r>>
      /\ action # "secret_reference_changed" => changed.secret = loaded.secret
  BY <1>4, <1>5, ChangedRow
<1>7. account[a] # None /\ account[a] \in AccountRows
  BY <1>3 DEF Saves, CoreInv, AccountInv
<1>8. PICK row : row = Written(account[a], loaded, changed)
  OBVIOUS
<1>9. account' = [account EXCEPT ![a] = row]
  BY <1>3, <1>4, <1>8 DEF Saves
<1>10. account'[a] = row /\ \A b \in Accounts \ {a} : account'[b] = account[b]
  BY <1>9 DEF CoreInv, AccountInv
<1>11. /\ row.credential = IF changed.credential = loaded.credential THEN account[a].credential
                           ELSE changed.credential
       /\ row.secret = IF changed.secret = loaded.secret THEN account[a].secret ELSE changed.secret
  BY <1>6, <1>7, <1>8, WrittenRow
<1>12. loaded.credential # <<"credential", r>> /\ loaded.secret # <<"secret", r>>
  <2>1. call[r].phase = "account_loaded"
    BY DEF Save
  <2>2. loaded.credential \in UsedCredentials /\ loaded.secret \in UsedSecrets
    BY <1>3, <2>1 DEF NamesInv, LoadedNames
  <2> QED
    BY <1>1, <2>2, FreshName
<1>13. retired' = retired
          \cup (IF action = "credential_rotated" THEN {account[a].credential} ELSE {})
          \cup (IF action = "secret_reference_changed" THEN {account[a].secret} ELSE {})
  BY <1>3, <1>5 DEF Save
<1>14. CASE action = "credential_rotated"
  <2>1. row.credential = <<"credential", r>> /\ row.secret = account[a].secret
    BY <1>6, <1>11, <1>12, <1>14
  <2>2. retired' = retired \cup {account[a].credential}
    BY <1>13, <1>14
  <2>3. Renewed(a, <<"credential", r>>, account[a].secret, {account[a].credential})
    BY <1>10, <2>1, <2>2 DEF Renewed
  <2> QED
    BY <1>1, <1>2, <1>7, <2>3, NamesRenewed
<1>15. CASE action = "secret_reference_changed"
  <2>1. row.credential = account[a].credential /\ row.secret = <<"secret", r>>
    BY <1>6, <1>11, <1>12, <1>15
  <2>2. retired' = retired \cup {account[a].secret}
    BY <1>13, <1>15
  <2>3. Renewed(a, account[a].credential, <<"secret", r>>, {account[a].secret})
    BY <1>10, <2>1, <2>2 DEF Renewed
  <2> QED
    BY <1>1, <1>2, <1>7, <2>3, NamesRenewed
<1>16. CASE action # "credential_rotated" /\ action # "secret_reference_changed"
  <2>1. row.credential = account[a].credential /\ row.secret = account[a].secret
    BY <1>6, <1>11, <1>16
  <2>2. retired' = retired
    BY <1>13, <1>16
  <2>3. Renewed(a, account[a].credential, account[a].secret, {})
    BY <1>10, <2>1, <2>2 DEF Renewed
  <2> QED
    BY <1>1, <1>2, <1>7, <2>3, NamesRenewed
<1> QED
  BY <1>14, <1>15, <1>16

LEMMA NamesStep ==
    ASSUME CoreInv, NamesInv, [Next]_vars
    PROVE  NamesInv'
<1>1. EndedStays
  BY CoreStep
<1>2. CASE \E r \in Requests : Provision(r) \/ Save(r)
  BY <1>1, <1>2, NamesProvisioned, NamesSaved
<1>3. CASE \E r \in Requests, a \in Accounts : LoadAccount(r, a)
  <2>1. PICK r \in Requests, a \in Accounts : LoadAccount(r, a)
    BY <1>3
  <2>2. PICK read : read = [account |-> a, row |-> account[a], at |-> clock, told |-> Len(events)]
    OBVIOUS
  <2>3. Move(r, "account_loaded", read) /\ read.row = account[a]
    BY <2>1, <2>2 DEF LoadAccount
  <2>4. Moves(r, "account_loaded") /\ call'[r].read = read
    BY <2>3, MoveStep DEF CoreInv, AccessInv
  <2>5. Current(a)
    BY <2>1 DEF LoadAccount, NamesInv
  <2>6. LoadedNames(r)'
    BY <1>1, <2>3, <2>4, <2>5, UsedGrow DEF LoadedNames, Current
  <2> QED
    BY <1>1, <2>1, <2>4, <2>6, NoneRenewed DEF LoadAccount, Moves
<1>4. CASE AccessNext /\ UNCHANGED <<account, events, clock, inbound, retired, crossed>>
  <2>1. OnlyAccess
    BY <1>4, AccessOnly DEF CoreInv
  <2>2. \A s \in Requests : call'[s] = call[s] \/ LoadedNames(s)'
    BY <2>1 DEF OnlyAccess, AccountPhases, LoadedNames
  <2> QED
    BY <1>1, <1>4, <2>2, NoneRenewed
<1>5. CASE \E r \in Requests : BeginCleanup(r) \/ SelectBatch(r) \/ DeleteBatch(r)
  <2>1. PICK r \in Requests : BeginCleanup(r) \/ SelectBatch(r) \/ DeleteBatch(r)
    BY <1>5
  <2>2. \E phase \in {"selecting", "deleting", "cleaned"} : \E read : Move(r, phase, read)
    BY <2>1 DEF BeginCleanup, SelectBatch, DeleteBatch
  <2>3. \E phase \in {"selecting", "deleting", "cleaned"} : Moves(r, phase)
    BY <2>2, MoveStep DEF CoreInv, AccessInv
  <2>4. \A s \in Requests : call'[s] = call[s] \/ LoadedNames(s)'
    BY <2>3 DEF Moves, LoadedNames
  <2> QED
    BY <1>1, <2>1, <2>4, NoneRenewed DEF BeginCleanup, SelectBatch, DeleteBatch
<1>6. CASE Tick \/ (\E i \in InboundCalls : InboundStep(i)) \/ UNCHANGED vars
  BY <1>1, <1>6, NoneRenewed
     DEF Tick, InboundStep, ReceiveEvent, AuthenticateEvent, vars, accessVars
<1> QED
  BY <1>2, <1>3, <1>4, <1>5, <1>6 DEF Next, AccountStep

-----------------------------------------------------------------------------
(* Inbound events.                                                         *)
InboundRows == [phase : {"reading", "accepted", "refused"}, account : Accounts,
                loaded : AccountRows, secret : Secrets, valid : BOOLEAN]

InboundInv ==
    /\ inbound \in [InboundCalls -> InboundRows \cup {Idle}]
    /\ \A i \in InboundCalls :
          /\ inbound[i].phase = "reading" /\ inbound[i].secret = inbound[i].loaded.secret =>
                inbound[i].valid
          /\ inbound[i].phase = "accepted" => inbound[i].valid

LEMMA InboundStepOK ==
    ASSUME CoreInv, NamesInv, InboundInv, [Next]_vars
    PROVE  InboundInv'
<1>1. CASE UNCHANGED inbound
  BY <1>1 DEF InboundInv
<1>2. CASE \E i \in InboundCalls, credential \in Credentials, secret \in Secrets :
              ReceiveEvent(i, credential, secret)
  <2>1. PICK i \in InboundCalls, credential \in Credentials, secret \in Secrets :
           ReceiveEvent(i, credential, secret)
    BY <1>2
  <2>2. PICK a \in Accounts :
           /\ Resolves(a, credential)
           /\ inbound' = [inbound EXCEPT ![i] =
                 [phase |-> "reading", account |-> a, loaded |-> account[a], secret |-> secret,
                  valid |-> account[a].active /\ {credential, secret} \cap retired = {}]]
    BY <2>1 DEF ReceiveEvent
  <2>3. PICK row, valid : /\ row = account[a]
                          /\ valid = (account[a].active /\ {credential, secret} \cap retired = {})
    OBVIOUS
  <2>4. row \in AccountRows /\ valid \in BOOLEAN
    BY <2>2, <2>3 DEF Resolves, CoreInv, AccountInv, AccountRows
  <2>5. secret = row.secret => valid
    BY <2>2, <2>3 DEF Resolves, NamesInv, Current
  <2>6. PICK c : c = [phase |-> "reading", account |-> a, loaded |-> row, secret |-> secret,
                      valid |-> valid]
    OBVIOUS
  <2>7. /\ c \in InboundRows
        /\ c.phase = "reading" /\ c.secret = secret /\ c.loaded = row /\ c.valid = valid
    BY <2>4, <2>6 DEF InboundRows
  <2>8. inbound' = [inbound EXCEPT ![i] = c]
    BY <2>2, <2>3, <2>6
  <2> QED
    BY <2>5, <2>7, <2>8 DEF InboundInv
<1>3. CASE \E i \in InboundCalls : AuthenticateEvent(i)
  <2>1. PICK i \in InboundCalls : AuthenticateEvent(i)
    BY <1>3
  <2>2. PICK old : old = inbound[i]
    OBVIOUS
  <2>3. /\ old \in InboundRows /\ old.phase = "reading"
        /\ old.secret = old.loaded.secret => old.valid
    BY <2>1, <2>2 DEF AuthenticateEvent, InboundInv, Idle
  <2>4. PICK phase \in {"accepted", "refused"} :
           /\ inbound' = [inbound EXCEPT ![i].phase = phase]
           /\ phase = "accepted" => old.secret = old.loaded.secret
    BY <2>1, <2>2 DEF AuthenticateEvent, SignatureMatches
  <2>5. PICK c : c = [old EXCEPT !.phase = phase]
    OBVIOUS
  <2>6. inbound' = [inbound EXCEPT ![i] = c]
    BY <2>2, <2>4, <2>5
  <2>7. c \in InboundRows /\ c.phase = phase /\ c.valid = old.valid
    BY <2>3, <2>5 DEF InboundRows
  <2> QED
    BY <2>3, <2>4, <2>6, <2>7 DEF InboundInv
<1> QED
  BY <1>1, <1>2, <1>3
     DEF Next, AccountStep, Provision, LoadAccount, Save, BeginCleanup, SelectBatch, DeleteBatch,
         InboundStep, Tick, vars

LEMMA InitNames ==
    ASSUME Init
    PROVE  NamesInv /\ InboundInv /\ CleanupCountsExact
<1>1. PICK row : row = Row(FirstWorkspace, FirstAccount)
  OBVIOUS
<1>2. row.credential \in UsedCredentials /\ row.secret \in UsedSecrets
  BY <1>1 DEF Row, UsedCredentials, UsedSecrets, UsedNames
<1>3. \A a \in Accounts : account[a] # None => a = FirstAccount /\ account[a] = row
  BY <1>1 DEF Init
<1>4. call = [r \in Requests |-> Idle] /\ retired = {}
  BY DEF Init, AccessInit
<1>5. \A r \in Requests : LoadedNames(r) /\ Reported(r) = 0
  BY <1>4 DEF Idle, LoadedNames, Reported
<1>6. NamesInv
  BY <1>2, <1>3, <1>4, <1>5 DEF NamesInv, Current
<1>7. InboundInv
  BY DEF Init, InboundInv, Idle
<1>8. \A r \in Requests : TakenBy(r) = {}
  BY AccessAssumptions DEF Init, Event, TakenBy
<1>9. CleanupCountsExact
  BY <1>5, <1>8, FS_EmptySet DEF CleanupCountsExact, TakenBy
<1> QED
  BY <1>6, <1>7, <1>9

-----------------------------------------------------------------------------
(* Deactivations and reactivations, for the accounts on which each saw all *)
(* the earlier ones.                                                       *)
FlagOf(a, n) == n \in DOMAIN events /\ events[n].account = a /\ events[n].action \in FlagActions

(* The events stand in the order of their time stamps ...                  *)
OrderInv ==
    \A a \in Accounts \ crossed : \A m, n \in Nat :
        FlagOf(a, m) /\ FlagOf(a, n) /\ m < n => events[m].at <= events[n].at

(* ... the older are gone first ...                                        *)
DownInv ==
    \A a \in Accounts \ crossed : \A m, n \in Nat :
        FlagOf(a, m) /\ FlagOf(a, n) /\ m < n /\ Kept(m) => Kept(n)

ClosedBatch(batch) ==
    \A a \in Accounts \ crossed : \A m, n \in Nat :
        FlagOf(a, m) /\ FlagOf(a, n) /\ m < n /\ Kept(m) /\ n \in batch => m \in batch

BatchOf(r) == call[r].phase = "deleting" => ClosedBatch(call[r].read.batch)

(* ... the newest tells whether the account is active ...                  *)
Newest(a, n) == FlagOf(a, n) /\ \A m \in Nat : FlagOf(a, m) => m <= n

FlagInv ==
    \A a \in Accounts \ crossed : \A n \in Nat :
        Newest(a, n) => (account[a].active <=> events[n].action # "deactivated")

(* ... and a request knows whether it is, as long as no other has said     *)
(* anything about it.                                                      *)
Told(a, told) == \A n \in Nat : FlagOf(a, n) => n <= told

SeenAs(read) == Told(read.account, read.told) => account[read.account].active = read.row.active

SeenBy(r) == call[r].phase = "account_loaded" => SeenAs(call[r].read)

LifecycleInv ==
    /\ OrderInv /\ DownInv /\ FlagInv
    /\ \A r \in Requests : BatchOf(r) /\ SeenBy(r)

LEMMA NothingAdded ==
    ASSUME LifecycleInv, UNCHANGED <<account, events, crossed>>,
           \A r \in Requests : call'[r] = call[r] \/ (BatchOf(r)' /\ SeenBy(r)')
    PROVE  LifecycleInv'
<1>1. OrderInv'
  BY DEF LifecycleInv, OrderInv, FlagOf
<1>2. DownInv'
  BY DEF LifecycleInv, DownInv, FlagOf, Kept
<1>3. FlagInv'
  BY DEF LifecycleInv, FlagInv, Newest, FlagOf
<1>4. \A r \in Requests : BatchOf(r)'
  BY DEF LifecycleInv, BatchOf, ClosedBatch, FlagOf, Kept
<1>5. \A r \in Requests : SeenBy(r)'
  BY DEF LifecycleInv, SeenBy, SeenAs, Told, FlagOf
<1> QED
  BY <1>1, <1>2, <1>3, <1>4, <1>5 DEF LifecycleInv

(* An event is added to what is known of its account.                      *)
LEMMA OneAdded ==
    ASSUME CoreInv, LifecycleInv, NEW e \in EventRows, events' = Append(events, e), e.gone = None,
           NEW r \in Requests, Moves(r, "ended"), crossed \subseteq crossed',
           NEW a \in Accounts, a = e.account,
           \A b \in Accounts \ {a} : account'[b] = account[b],
           e.action \in FlagActions /\ a \notin crossed' =>
              /\ account'[a].active <=> e.action # "deactivated"
              /\ \A n \in Nat : FlagOf(a, n) => events[n].at <= e.at,
           e.action \notin FlagActions => account'[a].active = account[a].active
    PROVE  LifecycleInv'
<1>1. PICK last : last = Len(events) + 1
  OBVIOUS
<1>2. /\ last \in Nat
      /\ DOMAIN events' = 1 .. last /\ DOMAIN events = 1 .. last - 1
      /\ \A n \in DOMAIN events : events'[n] = events[n]
      /\ events'[last] = e /\ last \notin DOMAIN events
      /\ \A n \in DOMAIN events : n < last
  BY <1>1, EventAdded DEF CoreInv
<1>3. \A b : \A n \in Nat :
         FlagOf(b, n)' <=> FlagOf(b, n) \/ (n = last /\ b = a /\ e.action \in FlagActions)
  <2> TAKE b
  <2> TAKE n \in Nat
  <2>1. DOMAIN events' = DOMAIN events \cup {last}
    BY <1>2
  <2>2. CASE n = last
    BY <1>2, <2>1, <2>2 DEF FlagOf
  <2>3. CASE n # last
    BY <1>2, <2>1, <2>3 DEF FlagOf
  <2> QED
    BY <2>2, <2>3
<1>4. \A n \in DOMAIN events : Kept(n)' <=> Kept(n)
  BY <1>2 DEF Kept
<1>5. \A b, n : FlagOf(b, n) => n \in DOMAIN events /\ n < last
  BY <1>2 DEF FlagOf
<1>6. OrderInv'
  <2> SUFFICES ASSUME NEW b \in Accounts \ crossed', NEW m \in Nat, NEW n \in Nat,
                      FlagOf(b, m)', FlagOf(b, n)', m < n
               PROVE  events'[m].at <= events'[n].at
    BY DEF OrderInv
  <2>1. m # last
    BY <1>2, <1>3, <1>5
  <2>2. FlagOf(b, m)
    BY <1>3, <2>1
  <2>3. CASE n = last
    <3>1. b = a /\ e.action \in FlagActions
      BY <1>3, <1>5, <2>3
    <3> QED
      BY <1>2, <1>5, <2>2, <2>3, <3>1
  <2>4. CASE n # last
    BY <1>2, <1>3, <1>5, <2>2, <2>4 DEF LifecycleInv, OrderInv
  <2> QED
    BY <2>3, <2>4
<1>7. DownInv'
  <2> SUFFICES ASSUME NEW b \in Accounts \ crossed', NEW m \in Nat, NEW n \in Nat,
                      FlagOf(b, m)', FlagOf(b, n)', m < n, Kept(m)'
               PROVE  Kept(n)'
    BY DEF DownInv
  <2>1. CASE n = last
    BY <1>2, <2>1 DEF Kept
  <2>2. CASE n # last
    <3>1. m # last
      BY <1>2, <1>3, <1>5
    <3> QED
      BY <1>3, <1>4, <1>5, <2>2, <3>1 DEF LifecycleInv, DownInv
  <2> QED
    BY <2>1, <2>2
<1>8. FlagInv'
  <2> SUFFICES ASSUME NEW b \in Accounts \ crossed', NEW n \in Nat, Newest(b, n)'
               PROVE  account'[b].active <=> events'[n].action # "deactivated"
    BY DEF FlagInv
  <2>1. FlagOf(b, n)' /\ \A m \in Nat : FlagOf(b, m)' => m <= n
    BY DEF Newest
  <2>2. CASE b = a /\ e.action \in FlagActions
    <3>1. last <= n
      BY <1>2, <1>3, <2>1, <2>2
    <3>2. n = last
      BY <1>2, <1>3, <1>5, <2>1, <3>1
    <3> QED
      BY <1>2, <2>2, <3>2
  <2>3. CASE ~(b = a /\ e.action \in FlagActions)
    <3>1. Newest(b, n)
      BY <1>3, <2>1, <2>3 DEF Newest
    <3>2. events'[n] = events[n]
      BY <1>2, <3>1 DEF Newest, FlagOf
    <3>3. account'[b].active = account[b].active
      BY <2>3
    <3> QED
      BY <3>1, <3>2, <3>3 DEF LifecycleInv, FlagInv
  <2> QED
    BY <2>2, <2>3
<1>9. ASSUME NEW s \in Requests PROVE BatchOf(s)'
  <2> SUFFICES ASSUME call'[s].phase = "deleting"
               PROVE  ClosedBatch(call[s].read.batch)'
    BY DEF BatchOf
  <2>1. call'[s] = call[s]
    BY DEF Moves
  <2>2. PICK batch : batch = call[s].read.batch
    OBVIOUS
  <2>3. ClosedBatch(batch) /\ batch \subseteq DOMAIN events
    BY <2>1, <2>2 DEF LifecycleInv, BatchOf, CoreInv, AccountInv, ReadOK, BatchOK
  <2>4. ClosedBatch(batch)'
    <3> SUFFICES ASSUME NEW b \in Accounts \ crossed', NEW m \in Nat, NEW n \in Nat,
                        FlagOf(b, m)', FlagOf(b, n)', m < n, Kept(m)', n \in batch
                 PROVE  m \in batch
      BY DEF ClosedBatch
    <3>1. n # last /\ m # last
      BY <1>2, <1>3, <1>5, <2>3
    <3> QED
      BY <1>3, <1>4, <1>5, <2>3, <3>1 DEF ClosedBatch
  <2> QED
    BY <2>1, <2>2, <2>4 DEF ClosedBatch
<1>10. ASSUME NEW s \in Requests PROVE SeenBy(s)'
  <2>1. CASE call'[s].phase # "account_loaded"
    BY <2>1 DEF SeenBy
  <2>2. CASE call'[s].phase = "account_loaded"
    <3>1. PICK read : read = call[s].read
      OBVIOUS
    <3>2. call'[s] = call[s]
      BY <2>2 DEF Moves
    <3>3. SeenAs(read) /\ LoadOK(read)
      BY <2>2, <3>1, <3>2 DEF LifecycleInv, SeenBy, CoreInv, AccountInv, ReadOK
    <3>4. read.told \in Nat /\ read.told < last
      BY <1>1, <3>3 DEF LoadOK, CoreInv, AccountInv
    <3>5. SeenAs(read)'
      <4> SUFFICES ASSUME Told(read.account, read.told)'
                   PROVE  account'[read.account].active = read.row.active
        BY DEF SeenAs
      <4>1. ~(read.account = a /\ e.action \in FlagActions)
        BY <1>2, <1>3, <3>4 DEF Told
      <4>2. Told(read.account, read.told)
        <5>1. PICK b : b = read.account
          OBVIOUS
        <5>2. \A n \in Nat : FlagOf(b, n) => FlagOf(b, n)'
          BY <1>3
        <5> QED
          BY <5>1, <5>2 DEF Told
      <4>3. account'[read.account].active = account[read.account].active
        BY <3>3, <4>1 DEF LoadOK
      <4> QED
        BY <3>3, <4>2, <4>3 DEF SeenAs
    <3> QED
      BY <3>1, <3>2, <3>5 DEF SeenBy
  <2> QED
    BY <2>1, <2>2
<1> QED
  BY <1>6, <1>7, <1>8, <1>9, <1>10 DEF LifecycleInv

LEMMA ProvisionedFlags ==
    ASSUME CoreInv, LifecycleInv, NEW r \in Requests, Provision(r)
    PROVE  LifecycleInv'
<1>1. Move(r, "ended", "ok") /\ call[r].phase = "authorised"
  BY DEF Provision, Authorised, End
<1>2. Moves(r, "ended")
  BY <1>1, MoveStep DEF CoreInv, AccessInv
<1>3. PICK w : w = call[r].asked[2]
  OBVIOUS
<1>4. w \in Workspaces
  BY <1>1, <1>3 DEF CoreInv, AccessInv, CallOK, Passed, Standing
<1>5. PICK a \in Accounts : /\ account[a] = None
                            /\ account' = [account EXCEPT ![a] = Row(w, r)]
                            /\ events' = Append(events, Event(a, w, "provisioned", clock))
  BY <1>3 DEF Provision
<1>6. PICK e : e = Event(a, w, "provisioned", clock)
  OBVIOUS
<1>7. e \in EventRows
  BY <1>4, <1>6, NewEvent DEF CoreInv, AccountInv, FlagActions
<1>8. e.account = a /\ e.action = "provisioned" /\ e.gone = None
  BY <1>6 DEF Event
<1>9. \A n : ~FlagOf(a, n)
  BY <1>5 DEF FlagOf, CoreInv, AccountInv, EventsOK
<1>10. account'[a].active = TRUE /\ \A b \in Accounts \ {a} : account'[b] = account[b]
  BY <1>5 DEF CoreInv, AccountInv, Row
<1>11. crossed' = crossed
  BY DEF Provision
<1>12. events' = Append(events, e)
  BY <1>5, <1>6
<1>13. e.action \in FlagActions /\ (account'[a].active <=> e.action # "deactivated")
  BY <1>8, <1>10 DEF FlagActions
<1>14. crossed \subseteq crossed'
  BY <1>11
<1> QED
  BY <1>2, <1>7, <1>8, <1>9, <1>10, <1>12, <1>13, <1>14, OneAdded

LEMMA SavedFlags ==
    ASSUME CoreInv, LifecycleInv, NEW r \in Requests, Save(r)
    PROVE  LifecycleInv'
<1>1. Move(r, "ended", "ok") /\ call[r].phase = "account_loaded"
  BY DEF Save, End
<1>2. Moves(r, "ended")
  BY <1>1, MoveStep DEF CoreInv, AccessInv
<1>3. PICK a \in Accounts, loaded \in AccountRows, name \in DOMAIN LifecycleAction, at \in Nat :
         /\ call[r].read.account = a /\ call[r].read.row = loaded /\ call[r].asked[1] = name
         /\ call[r].read.at <= at
         /\ Saves(a, loaded, Changed(loaded, name, r), LifecycleAction[name], at)
  BY SaveGives DEF CoreInv
<1>4. PICK changed : changed = Changed(loaded, name, r)
  OBVIOUS
<1>5. PICK action : action = LifecycleAction[name]
  OBVIOUS
<1>6. /\ changed \in AccountRows
      /\ action = "deactivated" => changed.active = FALSE
      /\ action = "reactivated" => changed.active = TRUE
      /\ action \notin FlagActions => changed.active = loaded.active
      /\ action # "provisioned"
      /\ action \in FlagActions \cup {"credential_rotated", "secret_reference_changed"}
  BY <1>4, <1>5, ChangedRow
<1>7. account[a] # None /\ account[a] \in AccountRows
  BY <1>3 DEF Saves, CoreInv, AccountInv
<1>8. PICK row : row = Written(account[a], loaded, changed)
  OBVIOUS
<1>9. account' = [account EXCEPT ![a] = row]
  BY <1>3, <1>4, <1>8 DEF Saves
<1>10. account'[a] = row /\ \A b \in Accounts \ {a} : account'[b] = account[b]
  BY <1>9 DEF CoreInv, AccountInv
<1>11. row.active = IF changed.active = loaded.active THEN account[a].active ELSE changed.active
  BY <1>6, <1>7, <1>8, WrittenRow
<1>12. PICK e : e = Event(a, loaded.workspace, action, at)
  OBVIOUS
<1>13. e \in EventRows
  BY <1>6, <1>12, NewEvent DEF AccountRows
<1>14. e.account = a /\ e.action = action /\ e.at = at /\ e.gone = None
  BY <1>12 DEF Event
<1>15. events' = Append(events, e)
  BY <1>3, <1>5, <1>12 DEF Saves
<1>16. crossed' = IF action \in FlagActions /\ Overtaken(r) THEN crossed \cup {a} ELSE crossed
  BY <1>3, <1>5 DEF Save
<1>17. PICK read : read = call[r].read
  OBVIOUS
<1>18. LoadOK(read) /\ SeenAs(read)
  BY <1>1, <1>17 DEF CoreInv, AccountInv, ReadOK, LifecycleInv, SeenBy
<1>19. ASSUME action \in FlagActions, a \notin crossed'
       PROVE  /\ account'[a].active <=> action # "deactivated"
              /\ \A n \in Nat : FlagOf(a, n) => events[n].at <= at
  <2>1. ~Overtaken(r)
    BY <1>16, <1>19
  <2>2. \A n \in Nat : FlagOf(a, n) => n <= read.told
    <3> SUFFICES ASSUME NEW n \in Nat, FlagOf(a, n), ~(n <= read.told)
                 PROVE  FALSE
      OBVIOUS
    <3>1. n \in read.told + 1 .. Len(events)
      BY <1>18 DEF FlagOf, LoadOK, CoreInv, AccountInv
    <3>2. events[n].account = call[r].read.account /\ events[n].action \in FlagActions
      BY <1>3 DEF FlagOf
    <3> QED
      BY <1>17, <2>1, <3>1, <3>2 DEF Overtaken
  <2>3. account[a].active = loaded.active
    BY <1>3, <1>17, <1>18, <2>2 DEF SeenAs, Told
  <2>4. account'[a].active = changed.active
    BY <1>10, <1>11, <2>3
  <2>5. action = "deactivated" \/ action = "reactivated"
    BY <1>6, <1>19 DEF FlagActions
  <2>6. ASSUME NEW n \in Nat, FlagOf(a, n)
        PROVE  events[n].at <= at
    <3>1. n \in 1 .. read.told
      BY <2>2, <2>6, <1>18 DEF FlagOf, LoadOK, CoreInv, AccountInv
    <3>2. events[n].at <= read.at
      BY <1>18, <3>1 DEF LoadOK
    <3>3. events[n] \in EventRows
      BY <2>6 DEF FlagOf, CoreInv, AccountInv
    <3>4. events[n].at \in Nat
      BY <3>3 DEF EventRows
    <3> QED
      BY <1>3, <1>17, <1>18, <3>2, <3>4 DEF LoadOK
  <2> QED
    BY <1>6, <2>4, <2>5, <2>6
<1>20. action \notin FlagActions => account'[a].active = account[a].active
  BY <1>6, <1>10, <1>11
<1>21. crossed \subseteq crossed'
  BY <1>16
<1> QED
  BY <1>2, <1>10, <1>13, <1>14, <1>15, <1>19, <1>20, <1>21, OneAdded

(* The batch that is selected takes the oldest first.                      *)
LEMMA BatchIsClosed ==
    ASSUME CoreInv, LifecycleInv, NEW w, NEW cutoff \in Int
    PROVE  ClosedBatch(Batch(Expired(w, cutoff)))
<1> SUFFICES ASSUME NEW a \in Accounts \ crossed, NEW m \in Nat, NEW n \in Nat,
                    FlagOf(a, m), FlagOf(a, n), m < n, Kept(m), n \in Batch(Expired(w, cutoff))
             PROVE  m \in Batch(Expired(w, cutoff))
  BY DEF ClosedBatch
<1>1. PICK old : old = Expired(w, cutoff)
  OBVIOUS
<1>2. n \in old /\ Cardinality({k \in old : Before(k, n)}) < BatchSize
  BY <1>1 DEF Batch
<1>3. \A k \in DOMAIN events : events[k].at \in Nat /\ k \in Nat
  <2>1. \A k \in DOMAIN events : events[k] \in EventRows /\ k \in Nat
    BY DEF CoreInv, AccountInv
  <2> QED
    BY <2>1 DEF EventRows
<1>4. events[m].at <= events[n].at
  BY DEF LifecycleInv, OrderInv
<1>5. events[m].workspace = events[n].workspace
  BY DEF FlagOf, CoreInv, AccountInv, EventsOK
<1>6. old \subseteq DOMAIN events
  BY <1>1 DEF Expired
<1>7. m \in old
  <2>1. events[n].workspace = w /\ events[n].at < cutoff
    BY <1>1, <1>2 DEF Expired
  <2>2. m \in DOMAIN events /\ n \in DOMAIN events
    BY DEF FlagOf
  <2>3. events[m].at < cutoff
    BY <1>3, <1>4, <2>1, <2>2
  <2> QED
    BY <1>1, <1>5, <2>1, <2>2, <2>3 DEF Expired
<1>8. {k \in old : Before(k, m)} \subseteq {k \in old : Before(k, n)}
  <2> SUFFICES ASSUME NEW k \in old, Before(k, m)
               PROVE  Before(k, n)
    OBVIOUS
  <2>1. /\ events[k].at \in Nat /\ events[m].at \in Nat /\ events[n].at \in Nat
        /\ k \in Nat
    BY <1>2, <1>3, <1>6, <1>7
  <2> QED
    BY <1>4, <2>1 DEF Before
<1>9. IsFiniteSet({k \in old : Before(k, n)})
  <2>1. IsFiniteSet(DOMAIN events)
    BY FS_Interval DEF CoreInv, AccountInv
  <2> QED
    BY <1>6, <2>1, FS_Subset
<1>10. PICK early, late : early = {k \in old : Before(k, m)} /\ late = {k \in old : Before(k, n)}
  OBVIOUS
<1>11. /\ IsFiniteSet(early) /\ IsFiniteSet(late)
       /\ Cardinality(early) \in Nat /\ Cardinality(late) \in Nat
       /\ Cardinality(early) <= Cardinality(late)
  BY <1>8, <1>9, <1>10, FS_Subset, FS_CardinalityType
<1>12. Cardinality(early) < BatchSize
  BY <1>2, <1>10, <1>11, AccountAssumptions
<1> QED
  BY <1>1, <1>7, <1>10, <1>12 DEF Batch

LEMMA DeletedFlags ==
    ASSUME CoreInv, LifecycleInv, NEW r \in Requests, DeleteBatch(r)
    PROVE  LifecycleInv'
<1>1. PICK batch : batch = call[r].read.batch
  OBVIOUS
<1>2. ClosedBatch(batch)
  BY <1>1 DEF DeleteBatch, LifecycleInv, BatchOf
<1>3. /\ DOMAIN events' = DOMAIN events
      /\ \A n \in DOMAIN events :
            /\ events'[n].gone = IF n \in batch /\ Kept(n) THEN r ELSE events[n].gone
            /\ events'[n].account = events[n].account /\ events'[n].action = events[n].action
            /\ events'[n].at = events[n].at
  BY <1>1, DeleteRecords DEF DeleteBatch, CoreInv, RecordsStay
<1>4. account' = account /\ crossed' = crossed
  BY DEF DeleteBatch
<1>5. \A b, n : FlagOf(b, n)' <=> FlagOf(b, n)
  BY <1>3 DEF FlagOf
<1>6. \A n \in DOMAIN events : Kept(n)' <=> Kept(n) /\ n \notin batch
  BY <1>3, AccessAssumptions DEF Kept
<1>7. \A b, n : FlagOf(b, n) => n \in DOMAIN events
  BY DEF FlagOf
<1>8. OrderInv'
  BY <1>3, <1>4, <1>5, <1>7 DEF LifecycleInv, OrderInv
<1>9. DownInv'
  BY <1>2, <1>4, <1>5, <1>6, <1>7 DEF LifecycleInv, DownInv, ClosedBatch
<1>10. FlagInv'
  BY <1>3, <1>4, <1>5, <1>7 DEF LifecycleInv, FlagInv, Newest
<1>11. \E phase, read : Move(r, "selecting", read)
  BY DEF DeleteBatch
<1>12. Moves(r, "selecting")
  BY <1>11, MoveStep DEF CoreInv, AccessInv
<1>13. ASSUME NEW s \in Requests PROVE BatchOf(s)' /\ SeenBy(s)'
  <2>1. CASE s = r
    BY <1>12, <2>1 DEF Moves, BatchOf, SeenBy
  <2>2. CASE s # r
    <3>1. call'[s] = call[s] /\ BatchOf(s) /\ SeenBy(s)
      BY <1>12, <2>2 DEF Moves, LifecycleInv
    <3>2. PICK read : read = call[s].read
      OBVIOUS
    <3>3. PICK other, a, told : other = read.batch /\ a = read.account /\ told = read.told
      OBVIOUS
    <3>4. ClosedBatch(other) => ClosedBatch(other)'
      BY <1>4, <1>5, <1>6, <1>7 DEF ClosedBatch
    <3>5. Told(a, told)' => Told(a, told)
      BY <1>5 DEF Told
    <3>6. SeenAs(read) => SeenAs(read)'
      BY <1>4, <3>3, <3>5 DEF SeenAs, Told
    <3> QED
      BY <3>1, <3>2, <3>3, <3>4, <3>6 DEF BatchOf, SeenBy, ClosedBatch
  <2> QED
    BY <2>1, <2>2
<1> QED
  BY <1>8, <1>9, <1>10, <1>13 DEF LifecycleInv

LEMMA LifecycleStep ==
    ASSUME CoreInv, LifecycleInv, [Next]_vars
    PROVE  LifecycleInv'
<1>1. CASE \E r \in Requests : Provision(r) \/ Save(r) \/ DeleteBatch(r)
  BY <1>1, ProvisionedFlags, SavedFlags, DeletedFlags
<1>2. CASE \E r \in Requests, a \in Accounts : LoadAccount(r, a)
  <2>1. PICK r \in Requests, a \in Accounts : LoadAccount(r, a)
    BY <1>2
  <2>2. PICK read : read = [account |-> a, row |-> account[a], at |-> clock, told |-> Len(events)]
    OBVIOUS
  <2>3. Move(r, "account_loaded", read) /\ read.account = a /\ read.row = account[a]
    BY <2>1, <2>2 DEF LoadAccount
  <2>4. Moves(r, "account_loaded") /\ call'[r].read = read
    BY <2>3, MoveStep DEF CoreInv, AccessInv
  <2>5. SeenAs(read)'
    BY <2>1, <2>3 DEF SeenAs, LoadAccount
  <2>6. BatchOf(r)' /\ SeenBy(r)'
    BY <2>4, <2>5 DEF Moves, BatchOf, SeenBy
  <2> QED
    BY <2>1, <2>4, <2>6, NothingAdded DEF LoadAccount, Moves
<1>3. CASE \E r \in Requests : SelectBatch(r)
  <2>1. PICK r \in Requests : SelectBatch(r)
    BY <1>3
  <2>2. PICK read : read = call[r].read
    OBVIOUS
  <2>3. read.cutoff \in Int
    BY <2>1, <2>2 DEF SelectBatch, CoreInv, AccountInv, ReadOK, SweepOK
  <2>4. PICK batch : batch = Batch(Expired(call[r].asked[2], read.cutoff))
    OBVIOUS
  <2>5. ClosedBatch(batch)
    BY <2>3, <2>4, BatchIsClosed
  <2>6. UNCHANGED <<account, events, crossed>>
    BY <2>1 DEF SelectBatch
  <2>7. ClosedBatch(batch)'
    BY <2>5, <2>6 DEF ClosedBatch, FlagOf, Kept
  <2>8. PICK next : next = [cutoff |-> read.cutoff, count |-> read.count, batch |-> batch]
    OBVIOUS
  <2>9. next.batch = batch
    BY <2>8
  <2>10. (\E done : Move(r, "cleaned", done)) \/ Move(r, "deleting", next)
    BY <2>1, <2>2, <2>4, <2>8 DEF SelectBatch
  <2>11. Moves(r, "cleaned") \/ (Moves(r, "deleting") /\ call'[r].read = next)
    BY <2>10, MoveStep DEF CoreInv, AccessInv
  <2>12. BatchOf(r)' /\ SeenBy(r)'
    <3>1. CASE Moves(r, "cleaned")
      BY <3>1 DEF Moves, BatchOf, SeenBy
    <3>2. CASE Moves(r, "deleting") /\ call'[r].read = next
      BY <2>7, <2>9, <3>2 DEF Moves, BatchOf, SeenBy, ClosedBatch
    <3> QED
      BY <2>11, <3>1, <3>2
  <2> QED
    BY <2>6, <2>11, <2>12, NothingAdded DEF Moves
<1>4. CASE \E r \in Requests : BeginCleanup(r)
  <2>1. PICK r \in Requests : BeginCleanup(r)
    BY <1>4
  <2>2. \E read : Move(r, "selecting", read)
    BY <2>1 DEF BeginCleanup
  <2>3. Moves(r, "selecting")
    BY <2>2, MoveStep DEF CoreInv, AccessInv
  <2>4. BatchOf(r)' /\ SeenBy(r)'
    BY <2>3 DEF Moves, BatchOf, SeenBy
  <2> QED
    BY <2>1, <2>3, <2>4, NothingAdded DEF BeginCleanup, Moves
<1>5. CASE AccessNext /\ UNCHANGED <<account, events, clock, inbound, retired, crossed>>
  <2>1. OnlyAccess
    BY <1>5, AccessOnly DEF CoreInv
  <2>2. \A s \in Requests : call'[s] = call[s] \/ (BatchOf(s)' /\ SeenBy(s)')
    BY <2>1 DEF OnlyAccess, AccountPhases, BatchOf, SeenBy
  <2> QED
    BY <1>5, <2>2, NothingAdded
<1>6. CASE Tick \/ (\E i \in InboundCalls : InboundStep(i)) \/ UNCHANGED vars
  BY <1>6, NothingAdded DEF Tick, InboundStep, ReceiveEvent, AuthenticateEvent, vars, accessVars
<1> QED
  BY <1>1, <1>2, <1>3, <1>4, <1>5, <1>6 DEF Next, AccountStep

LEMMA InitLifecycle ==
    ASSUME Init
    PROVE  LifecycleInv
<1>1. History \in Seq(FlagActions) /\ Len(History) \in Nat /\ DOMAIN History = 1 .. Len(History)
  BY AccountAssumptions
<1>2. DOMAIN events = 1 .. Len(History)
  BY <1>1 DEF Init
<1>3. \A n \in DOMAIN events : /\ events[n].account = FirstAccount /\ events[n].at = 0
                               /\ events[n].action = History[n] /\ events[n].gone = None
  BY <1>1 DEF Init, Event
<1>4. \A n \in DOMAIN events : FlagOf(FirstAccount, n)
  BY <1>1, <1>2, <1>3 DEF FlagOf
<1>5. \A a, n : FlagOf(a, n) => n \in DOMAIN events /\ a = FirstAccount
  BY <1>3 DEF FlagOf
<1>6. OrderInv
  BY <1>3, <1>5 DEF OrderInv
<1>7. DownInv
  BY <1>3, <1>5 DEF DownInv, Kept
<1>8. FlagInv
  <2> SUFFICES ASSUME NEW a \in Accounts, NEW n \in Nat, Newest(a, n)
               PROVE  account[a].active <=> events[n].action # "deactivated"
    BY DEF FlagInv
  <2>1. a = FirstAccount /\ n \in 1 .. Len(History)
    BY <1>2, <1>5 DEF Newest
  <2>2. Len(History) \in DOMAIN events
    BY <1>1, <1>2, <2>1
  <2>3. FlagOf(FirstAccount, Len(History))
    BY <1>4, <2>2
  <2>4. n = Len(History)
    <3>1. PICK len \in Nat : len = Len(History)
      BY <1>1
    <3>2. \A m \in Nat : FlagOf(FirstAccount, m) => m <= n
      BY <2>1 DEF Newest
    <3>3. len <= n
      BY <2>3, <3>1, <3>2
    <3>4. n <= len
      BY <2>1, <3>1
    <3>5. n = len
      BY <3>3, <3>4
    <3> QED
      BY <3>1, <3>5
  <2>5. account[a].active = TRUE
    BY <2>1, AccountAssumptions DEF Init, Row
  <2>6. events[n].action = History[Len(History)]
    BY <1>3, <2>2, <2>4
  <2> QED
    BY <2>5, <2>6, AccountAssumptions
<1>9. \A r \in Requests : BatchOf(r) /\ SeenBy(r)
  BY DEF Init, AccessInit, Idle, BatchOf, SeenBy
<1> QED
  BY <1>6, <1>7, <1>8, <1>9 DEF LifecycleInv

LEMMA AuditTellsLifecycle ==
    ASSUME CoreInv, LifecycleInv
    PROVE  LifecycleFollowsAudit
<1> SUFFICES ASSUME NEW a \in Accounts \ crossed, NEW n \in FlagEvents(a),
                    \A m \in FlagEvents(a) : m # n => Before(m, n)
             PROVE  account[a].active <=> events[n].action # "deactivated"
  BY DEF LifecycleFollowsAudit
<1>1. \A m \in DOMAIN events : m \in Nat /\ events[m] \in EventRows
  BY DEF CoreInv, AccountInv
<1>2. \A m \in DOMAIN events : m \in Nat /\ events[m].at \in Nat
  BY <1>1 DEF EventRows
<1>3. n \in Nat /\ FlagOf(a, n) /\ Kept(n)
  BY <1>2 DEF FlagEvents, FlagOf
<1>4. ASSUME NEW m \in Nat, FlagOf(a, m), ~(m <= n)
      PROVE  FALSE
  <2>1. n < m
    BY <1>3, <1>4
  <2>2. Kept(m)
    BY <1>3, <1>4, <2>1 DEF LifecycleInv, DownInv
  <2>3. events[n].at <= events[m].at
    BY <1>3, <1>4, <2>1 DEF LifecycleInv, OrderInv
  <2>4. m \in FlagEvents(a)
    BY <1>4, <2>2 DEF FlagEvents, FlagOf
  <2>5. Before(m, n)
    BY <1>3, <2>1, <2>4
  <2>6. events[n].at \in Nat /\ events[m].at \in Nat
    BY <1>2, <1>3, <1>4 DEF FlagOf
  <2> QED
    BY <1>3, <2>1, <2>3, <2>5, <2>6 DEF Before
<1>5. Newest(a, n)
  BY <1>3, <1>4 DEF Newest
<1> QED
  BY <1>3, <1>5 DEF LifecycleInv, FlagInv

-----------------------------------------------------------------------------
(* The rows of users, workspaces and members have their types and hang on  *)
(* each other, and so do the accounts, their events and the inbound calls, *)
(* whatever overlaps (models.py).                                          *)
THEOREM AccountsAreTyped == Spec => [](AccessTypeOK /\ TypeOK)
<1>1. CoreInv /\ InboundInv => AccessTypeOK /\ TypeOK
  <2> SUFFICES ASSUME CoreInv, InboundInv PROVE AccessTypeOK /\ TypeOK
    OBVIOUS
  <2>1. AccessTypeOK
    BY DEF CoreInv, AccessInv, IdentityOK, RowsHangTogether, AccessTypeOK
  <2>2. \A n \in DOMAIN events : events[n].at \in 0 .. clock
    <3>1. \A n \in DOMAIN events : events[n] \in EventRows
      BY DEF CoreInv, AccountInv
    <3> QED
      BY <3>1 DEF EventRows, CoreInv, AccountInv, EventsOK
  <2>3. \A i \in InboundCalls : inbound[i].phase \in {"idle", "reading", "accepted", "refused"}
    BY DEF InboundInv, InboundRows, Idle
  <2> QED
    BY <2>1, <2>2, <2>3 DEF CoreInv, AccountInv, EventsOK, TypeOK
<1>2. Init => CoreInv /\ NamesInv /\ InboundInv
  BY InitCore, InitNames
<1>3. CoreInv /\ NamesInv /\ InboundInv /\ [Next]_vars => CoreInv' /\ NamesInv' /\ InboundInv'
  BY CoreStep, NamesStep, InboundStepOK
<1> QED
  BY <1>1, <1>2, <1>3, PTL DEF Spec

(* However registrations, register_user and creations race, addresses and  *)
(* slugs are one user's and one workspace's, and every row that was added  *)
(* is what one request asked for: with a credential exactly if register    *)
(* made it, with that request's user as owner (AuthenticationService,      *)
(* IdentityMembershipService.register_user, WorkspaceCreationService).     *)
THEOREM CreationsAreWhole == Spec => []CreationIsWhole
<1>1. Init => CoreInv /\ CreationIsWhole /\ SeededStay /\ ManagerInv
  BY InitCore, InitWhole
<1>2. /\ CoreInv /\ CreationIsWhole /\ SeededStay /\ ManagerInv /\ [Next]_vars
      => CoreInv' /\ CreationIsWhole' /\ SeededStay' /\ ManagerInv'
  BY CoreStep, WholeAlways
<1> QED
  BY <1>1, <1>2, PTL DEF Spec

(* The instructions of a workspace are a manager's of that very workspace, *)
(* who was active when the request came, however late the commit is after  *)
(* the checks (resolve_active_principal, WorkspaceRBACPolicy).             *)
THEOREM ManagersInstruct == Spec => []InstructionsByManagers
<1>1. Init => CoreInv /\ CreationIsWhole /\ SeededStay /\ ManagerInv
  BY InitCore, InitWhole
<1>2. /\ CoreInv /\ CreationIsWhole /\ SeededStay /\ ManagerInv /\ [Next]_vars
      => CoreInv' /\ CreationIsWhole' /\ SeededStay' /\ ManagerInv'
  BY CoreStep, WholeAlways
<1>3. CoreInv /\ ManagerInv => InstructionsByManagers
  BY ManagersByRole DEF CoreInv
<1> QED
  BY <1>1, <1>2, <1>3, PTL DEF Spec

(* No cleanup takes an event that is younger than the retention            *)
(* (cleanup_for_workspace).                                                *)
THEOREM RecentEventsStay == Spec => RecentEventsKept
<1>1. Init => CoreInv
  BY InitCore
<1>2. CoreInv /\ [Next]_vars => CoreInv'
  BY CoreStep
<1>3. CoreInv /\ [Next]_vars =>
         [\A n \in DOMAIN events : Kept(n) /\ ~Kept(n)' => events[n].at < clock - Retention]_vars
  BY RecentStep
<1> QED
  BY <1>1, <1>2, <1>3, PTL DEF Spec, RecentEventsKept

(* What a cleanup reports is what it deleted itself, whatever another one  *)
(* took meanwhile (cleanup_for_workspace).                                 *)
THEOREM CleanupsCountTheirOwn == Spec => []CleanupCountsExact
<1>1. Init => CoreInv /\ CleanupCountsExact
  BY InitCore, InitNames
<1>2. CoreInv /\ CleanupCountsExact /\ [Next]_vars => CoreInv' /\ CleanupCountsExact'
  BY CoreStep, CountStep
<1> QED
  BY <1>1, <1>2, PTL DEF Spec

(* An accepted inbound event came for an active account, with a credential *)
(* and under a secret that nothing had replaced when it came               *)
(* (resolve_integration_account, get_verified_integration_context).        *)
THEOREM RetiredLetsNothingIn == Spec => []NothingRetiredLetsIn
<1>1. Init => CoreInv /\ NamesInv /\ InboundInv
  BY InitCore, InitNames
<1>2. CoreInv /\ NamesInv /\ InboundInv /\ [Next]_vars => CoreInv' /\ NamesInv' /\ InboundInv'
  BY CoreStep, NamesStep, InboundStepOK
<1>3. InboundInv => NothingRetiredLetsIn
  BY DEF InboundInv, NothingRetiredLetsIn
<1> QED
  BY <1>1, <1>2, <1>3, PTL DEF Spec

(* The newest of the events that are left tells whether an account is      *)
(* active, unless its lifecycle changes crossed, whatever rotations and    *)
(* cleanups overlap (IntegrationAccountService._save,                      *)
(* cleanup_for_workspace).                                                 *)
THEOREM AuditTells == Spec => []LifecycleFollowsAudit
<1>1. Init => CoreInv /\ LifecycleInv
  BY InitCore, InitLifecycle
<1>2. CoreInv /\ LifecycleInv /\ [Next]_vars => CoreInv' /\ LifecycleInv'
  BY CoreStep, LifecycleStep
<1>3. CoreInv /\ LifecycleInv => LifecycleFollowsAudit
  BY AuditTellsLifecycle
<1> QED
  BY <1>1, <1>2, <1>3, PTL DEF Spec
=============================================================================
