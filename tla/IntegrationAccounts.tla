------------------------- MODULE IntegrationAccounts -------------------------
(***************************************************************************)
(* The inbound integration accounts of the workspaces, behind the checks   *)
(* of WorkspaceAccess: provisioning, deactivation, reactivation, rotation  *)
(* of the credential, change of the secret reference, the audit events of  *)
(* all these, their retention cleanup in batches, and the authentication   *)
(* of an inbound event while the account it came for may change.           *)
(***************************************************************************)
EXTENDS WorkspaceAccess, Integers, Sequences

CONSTANTS
    Accounts,       \* bound: accounts that ever exist
    FirstAccount,   \* the one there is at the start
    FirstWorkspace, \* whose it is
    History,        \* what was done to it, all at the same time
    InboundCalls,   \* bound: inbound events that are ever sent
    Retention,      \* integration_account_audit_retention_days
    BatchSize,      \* DEFAULT_AUDIT_RETENTION_CLEANUP_BATCH_SIZE
    MaxClock        \* bound: how long time passes

(* The events that tell whether an account is active.                      *)
FlagActions == {"provisioned", "deactivated", "reactivated"}

ASSUME AccountAssumptions ==
    /\ FirstAccount \in Accounts
    /\ History \in Seq(FlagActions) /\ History # << >> /\ History[Len(History)] # "deactivated"
    /\ Retention \in Nat \ {0} /\ BatchSize \in Nat \ {0} /\ MaxClock \in Nat
    /\ InboundCalls \cap Requests = {} /\ FirstAccount \notin Requests
    /\ FirstWorkspace \in Workspaces /\ Seed.slugs[FirstWorkspace] # None

Credentials == {"credential"} \X (Requests \cup {FirstAccount})
Secrets     == {"secret"} \X (Requests \cup {FirstAccount})

AccountRows == [workspace : Workspaces, active : BOOLEAN, credential : Credentials, secret : Secrets]

ASSUME NoneIsNoAccount == None \notin AccountRows

VARIABLES
    account,     \* IntegrationAccount rows
    events,      \* every IntegrationAccountAuditEvent ever stored, in the order
                 \* of their commits; "gone" names the cleanup that deleted it
    clock,
    inbound,     \* the inbound events that are being authenticated
    retired,     \* ghost: credentials and secret references that were replaced
    crossed      \* ghost: accounts that a request deactivated or reactivated
                 \* without having seen that another one did so

vars == <<accessVars, account, events, clock, inbound, retired, crossed>>

-----------------------------------------------------------------------------
(* A credential is named after the request that made it: two never agree.  *)
(* Bound: so is a secret reference, which never comes back.                *)
Row(w, name) == [workspace |-> w, active |-> TRUE,
                 credential |-> <<"credential", name>>, secret |-> <<"secret", name>>]

Event(a, w, action, at) ==
    [account |-> a, workspace |-> w, action |-> action, at |-> at, gone |-> None]

Kept(n) == events[n].gone = None

LifecycleAction ==
    [deactivate_integration_account              |-> "deactivated",
     reactivate_integration_account              |-> "reactivated",
     rotate_integration_account_credential       |-> "credential_rotated",
     update_integration_account_secret_reference |-> "secret_reference_changed"]

(* What a request makes of the row it loaded.                              *)
Changed(loaded, name, r) ==
    CASE name = "deactivate_integration_account" -> [loaded EXCEPT !.active = FALSE]
      [] name = "reactivate_integration_account" -> [loaded EXCEPT !.active = TRUE]
      [] name = "rotate_integration_account_credential" -> [loaded EXCEPT !.credential = <<"credential", r>>]
      [] OTHER -> [loaded EXCEPT !.secret = <<"secret", r>>]

Init ==
    /\ AccessInit
    /\ account = [a \in Accounts |-> IF a = FirstAccount
                                     THEN Row(FirstWorkspace, FirstAccount) ELSE None]
    /\ events = [n \in DOMAIN History |-> Event(FirstAccount, FirstWorkspace, History[n], 0)]
    /\ clock = Retention        \* before, no event is old enough to go
    /\ inbound = [i \in InboundCalls |-> Idle]
    /\ retired = {} /\ crossed = {}

Authorised(r, name) == call[r].phase = "authorised" /\ call[r].asked[1] = name

-----------------------------------------------------------------------------
(* An account and its first event are one transaction.                     *)
Provision(r) ==
    /\ Authorised(r, "provision_integration_account")
    /\ \E a \in Accounts :
          /\ account[a] = None
          /\ account' = [account EXCEPT ![a] = Row(call[r].asked[2], r)]
          /\ events' = Append(events, Event(a, call[r].asked[2], "provisioned", clock))
    /\ End(r, "ok")
    /\ UNCHANGED <<identity, tokens, clock, inbound, retired, crossed>>

(* get_for_workspace: the account of another workspace is not found.       *)
LoadAccount(r, a) ==
    /\ call[r].phase = "authorised" /\ call[r].asked[1] \in DOMAIN LifecycleAction
    /\ account[a] # None /\ account[a].workspace = call[r].asked[2]
    /\ Move(r, "account_loaded", [account |-> a, row |-> account[a], at |-> clock,
                                  told |-> Len(events)])
    /\ UNCHANGED <<identity, tokens, account, events, clock, inbound, retired, crossed>>

(* faulty: the whole row is written, as it was loaded                      *)
WrittenWholeRow(now, loaded, changed) == changed

(* The UPDATE names the columns that the request changed, and no other.    *)
Written(now, loaded, changed) ==
    [now EXCEPT !.active     = IF changed.active = loaded.active THEN @ ELSE changed.active,
                !.credential = IF changed.credential = loaded.credential THEN @ ELSE changed.credential,
                !.secret     = IF changed.secret = loaded.secret THEN @ ELSE changed.secret]

(* Was the account deactivated or reactivated since the request loaded it? *)
Overtaken(r) ==
    \E n \in call[r].read.told + 1 .. Len(events) :
        events[n].account = call[r].read.account /\ events[n].action \in FlagActions

(* record() stamps the event some time between the load and the commit     *)
(* that stores it together with the change.                                *)
Save(r) ==
    /\ call[r].phase = "account_loaded"
    /\ LET a       == call[r].read.account
           loaded  == call[r].read.row
           action  == LifecycleAction[call[r].asked[1]]
           changed == Changed(loaded, call[r].asked[1], r)
       IN  /\ account' = [account EXCEPT ![a] = Written(@, loaded, changed)]
           /\ \E at \in call[r].read.at .. clock :
                 events' = Append(events, Event(a, loaded.workspace, action, at))
           /\ retired' = retired
                 \cup (IF action = "credential_rotated" THEN {account[a].credential} ELSE {})
                 \cup (IF action = "secret_reference_changed" THEN {account[a].secret} ELSE {})
           /\ crossed' = IF action \in FlagActions /\ Overtaken(r) THEN crossed \cup {a} ELSE crossed
    /\ End(r, "ok")
    /\ UNCHANGED <<identity, tokens, clock, inbound>>

-----------------------------------------------------------------------------
(* Retention.  The cutoff is taken once; then a batch is selected, deleted *)
(* and committed until there is none to select.                            *)
BeginCleanup(r) ==
    /\ Authorised(r, "cleanup_workspace_integration_account_audit_events")
    /\ Move(r, "selecting", [cutoff |-> clock - Retention, count |-> 0])
    /\ UNCHANGED <<identity, tokens, account, events, clock, inbound, retired, crossed>>

ExpiredInclusive(w, cutoff) ==          \* faulty: the event at the cutoff goes too
    {n \in DOMAIN events : Kept(n) /\ events[n].workspace = w /\ events[n].at <= cutoff}

Expired(w, cutoff) ==
    {n \in DOMAIN events : Kept(n) /\ events[n].workspace = w /\ events[n].at < cutoff}

(* ORDER BY created_at; of one instant, in the order of the commits.       *)
Before(m, n) == events[m].at < events[n].at \/ (events[m].at = events[n].at /\ m < n)

Batch(expired) == {n \in expired : Cardinality({m \in expired : Before(m, n)}) < BatchSize}

SelectBatch(r) ==
    /\ call[r].phase = "selecting"
    /\ LET cutoff == call[r].read.cutoff
           batch  == Batch(Expired(call[r].asked[2], cutoff))
       IN  IF batch = {} THEN Move(r, "cleaned", [count |-> call[r].read.count])
           ELSE Move(r, "deleting", [cutoff |-> cutoff, count |-> call[r].read.count, batch |-> batch])
    /\ UNCHANGED <<identity, tokens, account, events, clock, inbound, retired, crossed>>

CountSelected(batch) == Cardinality(batch)     \* faulty: not what was deleted

(* Of a batch that another cleanup shares, only what is left is deleted    *)
(* and counted.                                                            *)
CountDeleted(batch) == Cardinality({n \in batch : Kept(n)})

DeleteBatch(r) ==
    /\ call[r].phase = "deleting"
    /\ LET batch == call[r].read.batch
       IN  /\ events' = [n \in DOMAIN events |->
                            IF n \in batch /\ Kept(n) THEN [events[n] EXCEPT !.gone = r] ELSE events[n]]
           /\ Move(r, "selecting", [cutoff |-> call[r].read.cutoff,
                                    count |-> call[r].read.count + CountDeleted(batch)])
    /\ UNCHANGED <<identity, tokens, account, clock, inbound, retired, crossed>>

-----------------------------------------------------------------------------
(* An inbound event names an account by its credential and is signed with  *)
(* a secret; the account is resolved when it arrives ...                   *)
(* faulty: an inactive account is resolved as well                         *)
ResolvesInactiveToo(a, credential) == account[a] # None /\ account[a].credential = credential

Resolves(a, credential) ==
    account[a] # None /\ account[a].credential = credential /\ account[a].active

ReceiveEvent(i, credential, secret) ==
    /\ inbound[i] = Idle
    /\ \E a \in Accounts :
          /\ Resolves(a, credential)
          /\ inbound' = [inbound EXCEPT ![i] =
                [phase |-> "reading", account |-> a, loaded |-> account[a], secret |-> secret,
                 valid |-> account[a].active /\ {credential, secret} \cap retired = {}]]
    /\ UNCHANGED <<accessVars, account, events, clock, retired, crossed>>

(* Whatever a stale time stamp, a missing header or an unset secret does   *)
(* is a refusal; what passes was signed under the reference as loaded.     *)
SignatureMatches(loaded, secret) == secret = loaded.secret

(* ... and the signature is compared under the reference that was read,    *)
(* then the workspace is read.  The body was read before the dependency    *)
(* runs, so the loop does not turn in between, but handlers in threads may *)
(* commit between the two reads.                                           *)
AuthenticateEvent(i) ==
    /\ inbound[i].phase = "reading"
    /\ LET loaded == inbound[i].loaded
       IN  \/ /\ SignatureMatches(loaded, inbound[i].secret)
              /\ workspace[loaded.workspace].active
              /\ inbound' = [inbound EXCEPT ![i].phase = "accepted"]
           \/ inbound' = [inbound EXCEPT ![i].phase = "refused"]
    /\ UNCHANGED <<accessVars, account, events, clock, retired, crossed>>

Tick ==
    /\ clock < MaxClock
    /\ clock' = clock + 1
    /\ UNCHANGED <<accessVars, account, events, inbound, retired, crossed>>

AccountStep(r) ==
    \/ Provision(r)
    \/ \E a \in Accounts : LoadAccount(r, a)
    \/ Save(r)
    \/ BeginCleanup(r)
    \/ SelectBatch(r)
    \/ DeleteBatch(r)

InboundStep(i) ==
    \/ \E credential \in Credentials, secret \in Secrets : ReceiveEvent(i, credential, secret)
    \/ AuthenticateEvent(i)

Next ==
    \/ AccessNext /\ UNCHANGED <<account, events, clock, inbound, retired, crossed>>
    \/ \E r \in Requests : AccountStep(r)
    \/ \E i \in InboundCalls : InboundStep(i)
    \/ Tick

Spec == Init /\ [][Next]_vars

-----------------------------------------------------------------------------
(* The rows of accounts and events have their types, and an event belongs  *)
(* to an account of its workspace.                                         *)
TypeOK ==
    /\ account \in [Accounts -> AccountRows \cup {None}]
    /\ \A n \in DOMAIN events :
          /\ account[events[n].account] # None
          /\ events[n].workspace = account[events[n].account].workspace
          /\ events[n].at \in 0 .. clock
    /\ \A i \in InboundCalls : inbound[i].phase \in {"idle", "reading", "accepted", "refused"}

FlagEvents(a) == {n \in DOMAIN events : /\ Kept(n) /\ events[n].account = a
                                        /\ events[n].action \in FlagActions}

(* Whatever else overlaps, rotations, changes of secret and cleanups, an   *)
(* account is inactive exactly if the newest event that is left of its     *)
(* provisioning, deactivations and reactivations is a deactivation, unless *)
(* one of these was committed over another one that it had not seen: a     *)
(* rotation that read the account before its deactivation does not revive  *)
(* it, and no cleanup takes a newer event and leaves an older one          *)
(* (IntegrationAccountService._save, cleanup_for_workspace).               *)
LifecycleFollowsAudit ==
    \A a \in Accounts \ crossed : \A n \in FlagEvents(a) :
        (\A m \in FlagEvents(a) : m # n => Before(m, n)) =>
            (account[a].active <=> events[n].action # "deactivated")

(* An inbound event that is accepted came, when it arrived, for an active  *)
(* account, with a credential and a signature that no earlier rotation or  *)
(* change of secret had replaced: overlapping changes never bring an old   *)
(* credential back (rotate_credential, resolve_integration_account,        *)
(* get_verified_integration_context).                                      *)
NothingRetiredLetsIn == \A i \in InboundCalls : inbound[i].phase = "accepted" => inbound[i].valid

(* What a cleanup of an audit reports as deleted, or will so far, is what  *)
(* it took from it itself, whatever another cleanup took meanwhile         *)
(* (cleanup_for_workspace).                                                *)
Reported(r) == IF call[r].phase \in {"selecting", "deleting", "cleaned"} THEN call[r].read.count ELSE 0

CleanupCountsExact ==
    \A r \in Requests : Cardinality({n \in DOMAIN events : events[n].gone = r}) = Reported(r)

(* No cleanup deletes an event that is younger than the retention, however *)
(* long it takes and whatever is recorded meanwhile                        *)
(* (cleanup_for_workspace: "Events created exactly at the cutoff are       *)
(* retained").                                                             *)
RecentEventsKept ==
    [][\A n \in DOMAIN events : Kept(n) /\ ~Kept(n)' => events[n].at < clock - Retention]_vars
=============================================================================
