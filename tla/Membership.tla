------------------------------ MODULE Membership ------------------------------
(***************************************************************************)
(* Roles in the default tenant: sign-in (`sync_user`) and the role change  *)
(* of `update_membership`, which reads and writes without a transaction or *)
(* a row lock, so every statement of it is an action.  User rows are never *)
(* deleted.                                                                *)
(***************************************************************************)
EXTENDS FiniteSets, Naturals

CONSTANTS
    Users,      \* platform users
    Bootstrap,  \* those in bootstrap_admin_users
    AutoJoin,   \* auto_join_default_tenant
    Clients,    \* console requests that may be under way together
    None        \* no user

VARIABLES
    known,  \* platform_users
    role,   \* tenant_memberships of the tenant, "none" without a row
    call    \* update_membership calls: what each one has read so far

vars == <<known, role, call>>

NoCall == [stage |-> "idle", target |-> None, wanted |-> "none", existing |-> "none"]

Owners == {u \in Users : role[u] = "owner"}

-----------------------------------------------------------------------------

DefaultRole(u) ==
    IF u \in Bootstrap THEN "owner" ELSE IF AutoJoin THEN "member" ELSE "none"

\* Every console request upserts its user and joins it to the tenant, unless
\* it already has a role there.
SyncUser(u) ==
    /\ known' = known \cup {u}
    /\ role' = IF role[u] = "none" THEN [role EXCEPT ![u] = DefaultRole(u)] ELSE role

SignIn(u) == SyncUser(u) /\ UNCHANGED call

\* console_auth, require_tenant_owner and the lookup of the target.  The
\* caller's roles are those sync_user read.
Authorize(c, caller, target, wanted) ==
    /\ call[c] = NoCall
    /\ SyncUser(caller)
    /\ role'[caller] = "owner"
    /\ target \in known'
    /\ call' = [call EXCEPT ![c] = [stage |-> "authorized", target |-> target,
                                    wanted |-> wanted, existing |-> "none"]]

ReadMembership(c) ==
    /\ call[c].stage = "authorized"
    /\ call' = [call EXCEPT ![c].stage = "read", ![c].existing = role[call[c].target]]
    /\ UNCHANGED <<known, role>>

Demotes(c) == call[c].existing = "owner" /\ call[c].wanted # "owner"

LastOwner == Cardinality(Owners) <= 1

\* The count of owners, made only for a demotion; the last owner is refused.
CountOwners(c) ==
    /\ call[c].stage = "read"
    /\ Demotes(c)
    /\ call' = [call EXCEPT ![c] = IF LastOwner THEN NoCall ELSE [@ EXCEPT !.stage = "counted"]]
    /\ UNCHANGED <<known, role>>

\* UPDATE by id of the row that was read, or INSERT, which the unique key of
\* user and tenant refuses if a row has appeared.
WriteRole(c) ==
    LET t == call[c].target IN
    /\ call[c].stage = "counted" \/ (call[c].stage = "read" /\ ~Demotes(c))
    /\ role' = IF call[c].existing # "none" \/ role[t] = "none"
               THEN [role EXCEPT ![t] = call[c].wanted] ELSE role
    /\ call' = [call EXCEPT ![c] = NoCall]
    /\ UNCHANGED known

-----------------------------------------------------------------------------

Init ==
    /\ known = {}
    /\ role = [u \in Users |-> "none"]
    /\ call = [c \in Clients |-> NoCall]

Next ==
    \/ \E u \in Users : SignIn(u)
    \/ \E c \in Clients :
          \/ \E caller, target \in Users, wanted \in {"owner", "member"} :
                Authorize(c, caller, target, wanted)
          \/ ReadMembership(c) \/ CountOwners(c) \/ WriteRole(c)

Spec == Init /\ [][Next]_vars

(***************************************************************************)
(* A tenant that has an owner keeps one, as update_membership says when it *)
(* refuses a demotion ("a tenant must keep at least one owner").           *)
(***************************************************************************)
TenantKeepsOwner == [][Owners # {} => Owners' # {}]_vars
=============================================================================
