----------------------------- MODULE Membership -----------------------------
(***************************************************************************)
(* Workspaces and the people in them: TenantViewSet.create, the actions    *)
(* invite and revoke of MembershipViewSet, and the services behind them.   *)
(*                                                                         *)
(* A request resolves its caller's membership once, in a permission class, *)
(* and acts with that copy; its statements share no transaction and take   *)
(* no lock (ATOMIC_REQUESTS is False), except the two inserts of create.   *)
(* One action is one statement, so other requests run between any two.     *)
(***************************************************************************)
EXTENDS Naturals, Workspaces

Role == {"owner", "admin", "member", "viewer"}
ROLE_RANK == [viewer |-> 0, member |-> 10, admin |-> 20, owner |-> 30]
HasAtLeast(role, needed) == ROLE_RANK[role] >= ROLE_RANK[needed]

Row == [role : Role, active : BOOLEAN]

ConstantsAssumption == None \notin Row

Idle == [at |-> "idle"]
InternalError == [at |-> "internal_error"]   \* about to answer 500
Creating == [at : {"creating"}, tenant : Tenant, user : User]
Resolved == [at : {"resolved"}, tenant : Tenant, actor : User, role : Role]
Granting ==
  [at : {"granting"}, tenant : Tenant, actor : User, role : Role, user : User, grant : Role]
Revoking ==
  [at : {"found", "revoking"}, tenant : Tenant, actor : User, role : Role, user : User,
   of : Tenant]

TypeOK ==
  /\ tenants \subseteq Tenant
  /\ membership \in [Tenant \X User -> Row \cup {None}]
  /\ request \in [Server -> {Idle, InternalError} \cup Creating \cup Resolved
                             \cup Granting \cup Revoking]
  /\ overlapped \subseteq Tenant

Init ==
  /\ tenants = {}
  /\ membership = [k \in Tenant \X User |-> None]
  /\ request = [p \in Server |-> Idle]
  /\ overlapped = {}

-----------------------------------------------------------------------------
Become(p, state) == request' = [request EXCEPT ![p] = state]
Insert(t, u, role) ==
  membership' = [membership EXCEPT ![<<t, u>>] = [role |-> role, active |-> TRUE]]

(* TenantProvisioningService.create *)

\* full_clean: a slug that is taken raises a ValidationError, which no except
\* clause and not the exception handler knows.
ValidateTenant(p, t, u) ==
  /\ request[p] = Idle
  /\ Become(p, IF t \in tenants THEN InternalError
               ELSE [at |-> "creating", tenant |-> t, user |-> u])
  /\ UNCHANGED <<tenants, membership, overlapped>>

\* One transaction inserts the tenant and its owner's membership; when another
\* request took the slug meanwhile, neither (IntegrityError -> ConflictError).
CreateTenant(p) ==
  /\ request[p].at = "creating"
  /\ LET t == request[p].tenant IN
       IF t \in tenants
       THEN UNCHANGED <<tenants, membership>>
       ELSE tenants' = tenants \cup {t} /\ Insert(t, request[p].user, "owner")
  /\ Become(p, Idle)
  /\ UNCHANGED overlapped

(* resolve_membership and IsTenantAdmin *)

\* The copy is cached on the request; a caller below admin is refused here.
Resolve(p, t, u) ==
  /\ request[p] = Idle
  /\ t \in tenants
  /\ Active(t, u)
  /\ HasAtLeast(membership[<<t, u>>].role, "admin")
  /\ Become(p, [at |-> "resolved", tenant |-> t, actor |-> u, role |-> membership[<<t, u>>].role])
  /\ UNCHANGED <<tenants, membership, overlapped>>

\* A refusal at any point, or the answer 500.
Refuse(p) ==
  /\ request[p].at # "idle"
  /\ Become(p, Idle)
  /\ UNCHANGED <<tenants, membership, overlapped>>

(* MembershipService.add *)

MayGrant(role, grant) ==
  /\ HasAtLeast(role, "admin")
  /\ grant = "owner" => HasAtLeast(role, "owner")

\* full_clean: a person with a row, revoked or not, raises a ValidationError.
ValidateGrant(p, u, grant) ==
  /\ request[p].at = "resolved"
  /\ MayGrant(request[p].role, grant)
  /\ Become(p, IF Member(request[p].tenant, u) THEN InternalError
               ELSE [at |-> "granting", tenant |-> request[p].tenant, user |-> u,
                     actor |-> request[p].actor, role |-> request[p].role, grant |-> grant])
  /\ UNCHANGED <<tenants, membership, overlapped>>

\* Seeded fault: an upsert in the place of the insert.
GrantOver(p) ==
  /\ request[p].at = "granting"
  /\ Insert(request[p].tenant, request[p].user, request[p].grant)
  /\ Become(p, Idle)
  /\ UNCHANGED <<tenants, overlapped>>

\* The unique constraint refuses a row that was inserted meanwhile.
Grant(p) ==
  /\ request[p].at = "granting"
  /\ IF Member(request[p].tenant, request[p].user)
     THEN UNCHANGED membership
     ELSE Insert(request[p].tenant, request[p].user, request[p].grant)
  /\ Become(p, Idle)
  /\ UNCHANGED <<tenants, overlapped>>

(* MembershipService.revoke *)

InTenant(p, t) == t = request[p].tenant

Revocation(p, at, t, u) ==
  [at |-> at, tenant |-> request[p].tenant, actor |-> request[p].actor,
   role |-> request[p].role, user |-> u, of |-> t]

\* The row the uuid names, if it is one of the request's tenant.
FindRow(p, t, u) ==
  /\ request[p].at = "resolved"
  /\ Member(t, u)
  /\ InTenant(p, t)
  /\ Become(p, Revocation(p, "found", t, u))
  /\ UNCHANGED <<tenants, membership, overlapped>>

\* Seeded fault: any other row of an owner counts, revoked ones too.
AnotherEverOwner(t, u) == \E o \in User \ {u} : Member(t, o) /\ membership[<<t, o>>].role = "owner"
AnotherOwner(t, u) == Owners(t) \ {u} # {}

MayGo(t, u) == membership[<<t, u>>].role = "owner" => AnotherOwner(t, u)

\* An owner goes only if the workspace keeps another one.
CountOwners(p) ==
  /\ request[p].at = "found"
  /\ LET t == request[p].of
         u == request[p].user IN
       IF MayGo(t, u)
       THEN /\ Become(p, Revocation(p, "revoking", t, u))
            /\ overlapped' = overlapped \cup
                 {x \in {t} : \E q \in Server \ {p} : Revokes(q, x)}
       ELSE Become(p, Idle) /\ UNCHANGED overlapped
  /\ UNCHANGED <<tenants, membership>>

\* save(update_fields=["is_active", ...]).
Revoke(p) ==
  /\ request[p].at = "revoking"
  /\ membership' = [membership EXCEPT ![<<request[p].of, request[p].user>>] =
                      [role |-> @.role, active |-> FALSE]]
  /\ Become(p, Idle)
  /\ UNCHANGED <<tenants, overlapped>>

Next ==
  \E p \in Server :
    \/ \E t \in Tenant, u \in User :
         ValidateTenant(p, t, u) \/ Resolve(p, t, u) \/ FindRow(p, t, u)
    \/ \E u \in User, grant \in Role : ValidateGrant(p, u, grant)
    \/ CreateTenant(p) \/ Grant(p) \/ CountOwners(p) \/ Revoke(p) \/ Refuse(p)

Spec == Init /\ [][Next]_workspaces
=============================================================================
