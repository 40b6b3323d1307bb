-------------------------- MODULE MembershipProofs --------------------------
(***************************************************************************)
(* The properties of Membership, proved for every set of workspaces, of    *)
(* people and of servers, by one inductive invariant (IInv).             *)
(***************************************************************************)
EXTENDS Membership, TLAPS

HasResolved(p) == request[p].at \in {"resolved", "granting", "found", "revoking"}

\* What a request knows of its caller stays true: rows are never removed and
\* never change their role, so the copy it acts with is stale only in "active".
CallerIsMember(p) ==
  HasResolved(p) =>
    /\ request[p].tenant \in tenants
    /\ Member(request[p].tenant, request[p].actor)
    /\ membership[<<request[p].tenant, request[p].actor>>].role = request[p].role

GrantIsAllowed(p) ==
  request[p].at = "granting" /\ request[p].grant = "owner" => request[p].role = "owner"

RevokesARow(p) ==
  request[p].at \in {"found", "revoking"} =>
    /\ request[p].of = request[p].tenant
    /\ Member(request[p].of, request[p].user)

RequestsAreFounded ==
  \A p \in Server : CallerIsMember(p) /\ GrantIsAllowed(p) /\ RevokesARow(p)

RowsHaveTheirTenant == \A t \in Tenant, u \in User : Member(t, u) => t \in tenants

TenantsHadAnOwner ==
  \A t \in tenants : \E u \in User : Member(t, u) /\ membership[<<t, u>>].role = "owner"

IInv ==
  /\ TypeOK
  /\ RequestsAreFounded
  /\ RowsHaveTheirTenant
  /\ TenantsHadAnOwner

-----------------------------------------------------------------------------
(* What a request knows: the fields that its state has. *)
LEMMA RequestFields ==
  ASSUME TypeOK, NEW p \in Server
  PROVE  /\ request[p].at \in {"idle", "internal_error", "creating", "resolved", "granting",
                               "found", "revoking"}
         /\ request[p].at = "idle" => request[p] = Idle
         /\ request[p].at = "creating" => request[p].tenant \in Tenant /\ request[p].user \in User
         /\ HasResolved(p) =>
              request[p].tenant \in Tenant /\ request[p].actor \in User /\ request[p].role \in Role
         /\ request[p].at = "granting" => request[p].user \in User /\ request[p].grant \in Role
         /\ request[p].at \in {"found", "revoking"} =>
              request[p].user \in User /\ request[p].of \in Tenant
<1>1. request[p] \in {Idle, InternalError} \cup Creating \cup Resolved \cup Granting \cup Revoking
  BY DEF TypeOK
<1> QED
  BY <1>1 DEF HasResolved, Idle, InternalError, Creating, Resolved, Granting, Revoking

(* A row that is there has the fields of a row. *)
LEMMA MemberIsRow ==
  ASSUME TypeOK, NEW t \in Tenant, NEW u \in User, Member(t, u)
  PROVE  membership[<<t, u>>] \in Row
BY DEF TypeOK, Member

(* An owner is granted by owners only. *)
LEMMA OnlyOwnersGrantOwner ==
  ASSUME NEW role \in Role, MayGrant(role, "owner")
  PROVE  role = "owner"
BY DEF MayGrant, HasAtLeast, ROLE_RANK, Role

-----------------------------------------------------------------------------
(* How the two tables move in any step: rows are added to what is there, and   *)
(* a row that is there keeps its role.                                         *)
Grows ==
  /\ tenants \subseteq tenants'
  /\ \A t \in Tenant, u \in User :
       Member(t, u) =>
         /\ Member(t, u)'
         /\ membership'[<<t, u>>].role = membership[<<t, u>>].role

(* A request whose state a step leaves alone stays founded. *)
LEMMA OthersStayFounded ==
  ASSUME IInv, Grows, NEW p \in Server, request'[p] = request[p]
  PROVE  (CallerIsMember(p) /\ GrantIsAllowed(p) /\ RevokesARow(p))'
<1> USE DEF IInv, RequestsAreFounded
<1>1. CallerIsMember(p)'
  BY RequestFields DEF CallerIsMember, Grows, HasResolved, Member
<1>2. GrantIsAllowed(p)'
  BY DEF GrantIsAllowed
<1>3. RevokesARow(p)'
  BY RequestFields DEF RevokesARow, Grows, Member
<1> QED
  BY <1>1, <1>2, <1>3

(* When one request moves to a founded state, all requests are founded. *)
LEMMA RequestsStayFounded ==
  ASSUME IInv, Grows, NEW p \in Server, NEW s, Become(p, s),
         (CallerIsMember(p) /\ GrantIsAllowed(p) /\ RevokesARow(p))'
  PROVE  RequestsAreFounded'
<1>1. ASSUME NEW q \in Server, q # p PROVE request'[q] = request[q]
  BY <1>1 DEF Become, IInv, TypeOK
<1> QED
  BY <1>1, OthersStayFounded DEF RequestsAreFounded

(* An insert of a row that is not there. *)
LEMMA InsertARow ==
  ASSUME TypeOK, NEW t \in Tenant, NEW u \in User, NEW role \in Role, ~Member(t, u),
         Insert(t, u, role), tenants \subseteq tenants'
  PROVE  /\ membership' \in [Tenant \X User -> Row \cup {None}]
         /\ Grows
         /\ membership'[<<t, u>>] = [role |-> role, active |-> TRUE]
         /\ \A t2 \in Tenant, u2 \in User :
              <<t2, u2>> # <<t, u>> => membership'[<<t2, u2>>] = membership[<<t2, u2>>]
<1>1. [role |-> role, active |-> TRUE] \in Row
  BY DEF Row
<1>2. /\ membership'[<<t, u>>] = [role |-> role, active |-> TRUE]
      /\ \A t2 \in Tenant, u2 \in User :
           <<t2, u2>> # <<t, u>> => membership'[<<t2, u2>>] = membership[<<t2, u2>>]
  BY DEF TypeOK, Insert
<1>3. membership' \in [Tenant \X User -> Row \cup {None}]
  BY <1>1 DEF TypeOK, Insert
<1>4. Grows
  BY <1>2 DEF Grows, Member
<1> QED
  BY <1>2, <1>3, <1>4

(* What only moves a request leaves the tables true. *)
LEMMA TablesStand ==
  ASSUME IInv, UNCHANGED <<tenants, membership>>
  PROVE  Grows /\ RowsHaveTheirTenant' /\ TenantsHadAnOwner'
BY DEF IInv, Grows, Member, RowsHaveTheirTenant, TenantsHadAnOwner

-----------------------------------------------------------------------------
(* The actions, one after another: what each does to the tables, and why the   *)
(* invariant stands.  What is said of the tables feeds the action properties.  *)
LEMMA StepsInvariant ==
  ASSUME ConstantsAssumption, IInv, [Next]_workspaces
  PROVE  IInv' /\ Grows
<1> USE DEF IInv
<1>1. ASSUME NEW p \in Server, NEW t \in Tenant, NEW u \in User, ValidateTenant(p, t, u)
      PROVE  IInv' /\ Grows
  <2>1. TypeOK'
    BY <1>1 DEF TypeOK, ValidateTenant, Become, InternalError, Creating
  <2>2. PICK s : Become(p, s) /\ s.at \in {"creating", "internal_error"}
    BY <1>1 DEF ValidateTenant, InternalError
  <2>3. request'[p] = s
    BY <2>2 DEF TypeOK, Become
  <2>4. (CallerIsMember(p) /\ GrantIsAllowed(p) /\ RevokesARow(p))'
    BY <2>2, <2>3 DEF CallerIsMember, GrantIsAllowed, RevokesARow, HasResolved
  <2> QED
    BY <1>1, <2>1, <2>2, <2>4, TablesStand, RequestsStayFounded DEF ValidateTenant
<1>2. ASSUME NEW p \in Server, CreateTenant(p)
      PROVE  IInv' /\ Grows
  <2> DEFINE t == request[p].tenant
             u == request[p].user
  <2>1. t \in Tenant /\ u \in User
    BY <1>2, RequestFields DEF CreateTenant
  <2>2. request'[p] = Idle /\ Become(p, Idle)
    BY <1>2 DEF TypeOK, CreateTenant, Become
  <2>3. (CallerIsMember(p) /\ GrantIsAllowed(p) /\ RevokesARow(p))'
    BY <2>2 DEF CallerIsMember, GrantIsAllowed, RevokesARow, HasResolved, Idle
  <2>4. request' \in [Server -> {Idle, InternalError} \cup Creating \cup Resolved
                                 \cup Granting \cup Revoking]
    BY <2>2 DEF TypeOK, Become
  <2>5. CASE t \in tenants
    <3>1. UNCHANGED <<tenants, membership, overlapped>>
      BY <1>2, <2>5 DEF CreateTenant
    <3> QED
      BY <2>2, <2>3, <2>4, <3>1, TablesStand, RequestsStayFounded DEF TypeOK
  <2>6. CASE t \notin tenants
    <3>1. tenants' = tenants \cup {t} /\ Insert(t, u, "owner")
      BY <1>2, <2>6 DEF CreateTenant
    <3>2. ~Member(t, u)
      BY <2>1, <2>6 DEF RowsHaveTheirTenant
    <3>3. /\ membership' \in [Tenant \X User -> Row \cup {None}]
          /\ Grows
          /\ membership'[<<t, u>>] = [role |-> "owner", active |-> TRUE]
          /\ \A t2 \in Tenant, u2 \in User :
               <<t2, u2>> # <<t, u>> => membership'[<<t2, u2>>] = membership[<<t2, u2>>]
      BY <2>1, <3>1, <3>2, InsertARow DEF Role
    <3>4. TypeOK'
      BY <1>2, <2>1, <2>4, <3>1, <3>3 DEF TypeOK, CreateTenant
    <3>5. RowsHaveTheirTenant'
      BY <2>1, <3>1, <3>3 DEF RowsHaveTheirTenant, Member
    <3>6. membership'[<<t, u>>] # None /\ membership'[<<t, u>>].role = "owner"
      <4>1. [role |-> "owner", active |-> TRUE] \in Row
        BY DEF Row, Role
      <4>2. None # [role |-> "owner", active |-> TRUE]
        BY <4>1 DEF ConstantsAssumption
      <4> QED
        BY <3>3, <4>2
    <3>7. TenantsHadAnOwner'
      <4>1. ASSUME NEW t1 \in tenants
            PROVE  \E u1 \in User : Member(t1, u1)' /\ membership'[<<t1, u1>>].role = "owner"
        BY <3>3 DEF TenantsHadAnOwner, Grows, TypeOK
      <4>2. \E u1 \in User : membership'[<<t, u1>>] # None /\ membership'[<<t, u1>>].role = "owner"
        BY <2>1, <3>6
      <4> QED
        BY <3>1, <4>1, <4>2 DEF TenantsHadAnOwner, Member
    <3> QED
      BY <2>2, <2>3, <3>3, <3>4, <3>5, <3>7, RequestsStayFounded
  <2> QED
    BY <2>5, <2>6
<1>3. ASSUME NEW p \in Server, NEW t \in Tenant, NEW u \in User, Resolve(p, t, u)
      PROVE  IInv' /\ Grows
  <2> DEFINE s == [at |-> "resolved", tenant |-> t, actor |-> u,
                   role |-> membership[<<t, u>>].role]
  <2>1. Member(t, u) /\ membership[<<t, u>>].role \in Role
    BY <1>3, MemberIsRow DEF Resolve, Active, Row
  <2>2. s \in Resolved /\ Become(p, s)
    BY <1>3, <2>1 DEF Resolve, Resolved
  <2>3. request'[p] = s /\ TypeOK'
    BY <1>3, <2>2 DEF TypeOK, Become, Resolve
  <2>4. (CallerIsMember(p) /\ GrantIsAllowed(p) /\ RevokesARow(p))'
    BY <1>3, <2>1, <2>3
    DEF CallerIsMember, GrantIsAllowed, RevokesARow, Resolve, Member
  <2> QED
    BY <1>3, <2>2, <2>3, <2>4, TablesStand, RequestsStayFounded DEF Resolve
<1>4. ASSUME NEW p \in Server, NEW u \in User, NEW grant \in Role, ValidateGrant(p, u, grant)
      PROVE  IInv' /\ Grows
  <2> DEFINE g == [at |-> "granting", tenant |-> request[p].tenant, user |-> u,
                   actor |-> request[p].actor, role |-> request[p].role, grant |-> grant]
  <2>1. /\ request[p].at = "resolved"
        /\ request[p].tenant \in Tenant /\ request[p].actor \in User
        /\ request[p].role \in Role
    BY <1>4, RequestFields DEF ValidateGrant, HasResolved
  <2>2. CASE Become(p, InternalError)
    <3>1. request'[p] = InternalError /\ TypeOK'
      BY <1>4, <2>2 DEF TypeOK, Become, ValidateGrant
    <3>2. (CallerIsMember(p) /\ GrantIsAllowed(p) /\ RevokesARow(p))'
      BY <3>1 DEF CallerIsMember, GrantIsAllowed, RevokesARow, HasResolved, InternalError
    <3> QED
      BY <1>4, <2>2, <3>1, <3>2, TablesStand, RequestsStayFounded DEF ValidateGrant
  <2>3. CASE Become(p, g)
    <3>1. g \in Granting
      BY <2>1 DEF Granting
    <3>2. request'[p] = g /\ TypeOK'
      BY <1>4, <2>3, <3>1 DEF TypeOK, Become, ValidateGrant
    <3>3. CallerIsMember(p)'
      BY <1>4, <2>1, <3>2
      DEF CallerIsMember, RequestsAreFounded, HasResolved, ValidateGrant, Member
    <3>4. GrantIsAllowed(p)'
      BY <1>4, <2>1, <3>2, OnlyOwnersGrantOwner DEF GrantIsAllowed, ValidateGrant
    <3>5. RevokesARow(p)'
      BY <3>2 DEF RevokesARow
    <3> QED
      BY <1>4, <2>3, <3>2, <3>3, <3>4, <3>5, TablesStand, RequestsStayFounded DEF ValidateGrant
  <2> QED
    BY <1>4, <2>2, <2>3 DEF ValidateGrant
<1>5. ASSUME NEW p \in Server, Grant(p)
      PROVE  IInv' /\ Grows
  <2> DEFINE t == request[p].tenant
             u == request[p].user
             grant == request[p].grant
  <2>1. t \in Tenant /\ u \in User /\ grant \in Role /\ t \in tenants
    BY <1>5, RequestFields DEF Grant, HasResolved, RequestsAreFounded, CallerIsMember
  <2>2. request'[p] = Idle /\ Become(p, Idle)
    BY <1>5 DEF TypeOK, Grant, Become
  <2>3. (CallerIsMember(p) /\ GrantIsAllowed(p) /\ RevokesARow(p))'
    BY <2>2 DEF CallerIsMember, GrantIsAllowed, RevokesARow, HasResolved, Idle
  <2>4. request' \in [Server -> {Idle, InternalError} \cup Creating \cup Resolved
                                 \cup Granting \cup Revoking]
    BY <2>2 DEF TypeOK, Become
  <2>5. CASE Member(t, u)
    <3>1. UNCHANGED <<tenants, membership, overlapped>>
      BY <1>5, <2>5 DEF Grant
    <3> QED
      BY <2>2, <2>3, <2>4, <3>1, TablesStand, RequestsStayFounded DEF TypeOK
  <2>6. CASE ~Member(t, u)
    <3>1. tenants' = tenants /\ Insert(t, u, grant)
      BY <1>5, <2>6 DEF Grant
    <3>2. /\ membership' \in [Tenant \X User -> Row \cup {None}]
          /\ Grows
          /\ \A t2 \in Tenant, u2 \in User :
               <<t2, u2>> # <<t, u>> => membership'[<<t2, u2>>] = membership[<<t2, u2>>]
      BY <2>1, <2>6, <3>1, InsertARow
    <3>3. TypeOK'
      BY <1>5, <2>4, <3>1, <3>2 DEF TypeOK, Grant
    <3>4. RowsHaveTheirTenant'
      BY <2>1, <3>1, <3>2 DEF RowsHaveTheirTenant, Member
    <3>5. TenantsHadAnOwner'
      BY <3>1, <3>2 DEF TenantsHadAnOwner, Grows, TypeOK
    <3> QED
      BY <2>2, <2>3, <3>2, <3>3, <3>4, <3>5, RequestsStayFounded
  <2> QED
    BY <2>5, <2>6
<1>6. ASSUME NEW p \in Server, NEW t \in Tenant, NEW u \in User, FindRow(p, t, u)
      PROVE  IInv' /\ Grows
  <2>1. /\ request[p].at = "resolved"
        /\ request[p].tenant \in Tenant /\ request[p].actor \in User
        /\ request[p].role \in Role
        /\ t = request[p].tenant /\ Member(t, u)
    BY <1>6, RequestFields DEF FindRow, HasResolved, InTenant
  <2>2. Become(p, Revocation(p, "found", t, u)) /\ Revocation(p, "found", t, u) \in Revoking
    BY <1>6, <2>1 DEF FindRow, Revoking, Revocation
  <2>3. request'[p] = Revocation(p, "found", t, u) /\ TypeOK'
    BY <1>6, <2>2 DEF TypeOK, Become, FindRow
  <2>4. (CallerIsMember(p) /\ GrantIsAllowed(p) /\ RevokesARow(p))'
    <3>1. CallerIsMember(p)'
      BY <1>6, <2>1, <2>3
      DEF CallerIsMember, RequestsAreFounded, HasResolved, FindRow, Member, Revocation
    <3>2. GrantIsAllowed(p)'
      BY <2>3 DEF GrantIsAllowed, Revocation
    <3>3. RevokesARow(p)'
      BY <1>6, <2>1, <2>3 DEF RevokesARow, FindRow, Member, Revocation
    <3> QED
      BY <3>1, <3>2, <3>3
  <2> QED
    BY <1>6, <2>2, <2>3, <2>4, TablesStand, RequestsStayFounded DEF FindRow
<1>7. ASSUME NEW p \in Server, CountOwners(p)
      PROVE  IInv' /\ Grows
  <2> DEFINE s == Revocation(p, "revoking", request[p].of, request[p].user)
  <2>1. /\ request[p].at = "found"
        /\ request[p].tenant \in Tenant /\ request[p].actor \in User
        /\ request[p].role \in Role
        /\ request[p].of \in Tenant /\ request[p].user \in User
    BY <1>7, RequestFields DEF CountOwners, HasResolved
  <2> overlapped' \subseteq Tenant
    BY <1>7, <2>1 DEF CountOwners, TypeOK
  <2>2. CASE Become(p, Idle)
    <3>1. request'[p] = Idle /\ TypeOK'
      BY <1>7, <2>2 DEF TypeOK, Become, CountOwners
    <3>2. (CallerIsMember(p) /\ GrantIsAllowed(p) /\ RevokesARow(p))'
      BY <3>1 DEF CallerIsMember, GrantIsAllowed, RevokesARow, HasResolved, Idle
    <3> QED
      BY <1>7, <2>2, <3>1, <3>2, TablesStand, RequestsStayFounded DEF CountOwners
  <2>3. CASE Become(p, s)
    <3>1. s \in Revoking
      BY <2>1 DEF Revoking, Revocation
    <3>2. request'[p] = s /\ TypeOK'
      BY <1>7, <2>3, <3>1 DEF TypeOK, Become, CountOwners
    <3>3. (CallerIsMember(p) /\ GrantIsAllowed(p) /\ RevokesARow(p))'
      BY <1>7, <2>1, <3>2
      DEF CallerIsMember, GrantIsAllowed, RevokesARow, RequestsAreFounded, HasResolved,
          CountOwners, Member, Revocation
    <3> QED
      BY <1>7, <2>3, <3>2, <3>3, TablesStand, RequestsStayFounded DEF CountOwners
  <2> QED
    BY <1>7, <2>2, <2>3 DEF CountOwners
<1>8. ASSUME NEW p \in Server, Revoke(p)
      PROVE  IInv' /\ Grows
  <2> DEFINE t == request[p].of
             u == request[p].user
             row == [role |-> membership[<<t, u>>].role, active |-> FALSE]
  <2>1. t \in Tenant /\ u \in User /\ Member(t, u)
    BY <1>8, RequestFields DEF Revoke, RequestsAreFounded, RevokesARow
  <2>2. row \in Row
    BY <2>1, MemberIsRow DEF Row
  <2>3. /\ membership'[<<t, u>>] = row
        /\ \A t2 \in Tenant, u2 \in User :
             <<t2, u2>> # <<t, u>> => membership'[<<t2, u2>>] = membership[<<t2, u2>>]
    BY <1>8, <2>1 DEF TypeOK, Revoke
  <2>4. request'[p] = Idle /\ Become(p, Idle) /\ tenants' = tenants
    BY <1>8 DEF TypeOK, Revoke, Become
  <2>5. TypeOK'
    BY <1>8, <2>1, <2>2, <2>4 DEF TypeOK, Revoke, Become
  <2>6. row # None /\ row.role = membership[<<t, u>>].role
    BY <2>2 DEF ConstantsAssumption
  <2>7. Grows
    BY <2>3, <2>4, <2>6 DEF Grows, Member
  <2>8. RowsHaveTheirTenant'
    BY <2>1, <2>3, <2>4 DEF RowsHaveTheirTenant, Member
  <2>9. TenantsHadAnOwner'
    BY <2>4, <2>7 DEF TenantsHadAnOwner, Grows, TypeOK
  <2>10. (CallerIsMember(p) /\ GrantIsAllowed(p) /\ RevokesARow(p))'
    BY <2>4 DEF CallerIsMember, GrantIsAllowed, RevokesARow, HasResolved, Idle
  <2> QED
    BY <2>4, <2>5, <2>7, <2>8, <2>9, <2>10, RequestsStayFounded
<1>9. ASSUME NEW p \in Server, Refuse(p)
      PROVE  IInv' /\ Grows
  <2>1. request'[p] = Idle /\ Become(p, Idle) /\ TypeOK'
    BY <1>9 DEF TypeOK, Refuse, Become
  <2>2. (CallerIsMember(p) /\ GrantIsAllowed(p) /\ RevokesARow(p))'
    BY <2>1 DEF CallerIsMember, GrantIsAllowed, RevokesARow, HasResolved, Idle
  <2> QED
    BY <1>9, <2>1, <2>2, TablesStand, RequestsStayFounded DEF Refuse
<1>10. ASSUME UNCHANGED workspaces PROVE IInv' /\ Grows
  <2>1. TypeOK' /\ UNCHANGED <<tenants, membership>>
    BY <1>10 DEF TypeOK, workspaces
  <2>2. RequestsAreFounded'
    BY <1>10, <2>1, TablesStand, OthersStayFounded DEF RequestsAreFounded, workspaces
  <2> QED
    BY <2>1, <2>2, TablesStand
<1> QED
  BY <1>1, <1>2, <1>3, <1>4, <1>5, <1>6, <1>7, <1>8, <1>9, <1>10 DEF Next

LEMMA InvariantInit == ConstantsAssumption /\ Init => IInv
BY DEF Init, IInv, TypeOK, RequestsAreFounded, CallerIsMember, GrantIsAllowed, RevokesARow,
       HasResolved, RowsHaveTheirTenant, TenantsHadAnOwner, Member, Idle

(* The invariant holds in every state. *)
THEOREM InvariantHolds == ASSUME ConstantsAssumption PROVE Spec => []IInv
<1>1. Init => IInv
  BY InvariantInit
<1>2. IInv /\ [Next]_workspaces => IInv'
  BY StepsInvariant
<1> QED
  BY <1>1, <1>2, PTL DEF Spec
-----------------------------------------------------------------------------
(* A workspace exists exactly when it has had an owner: the two inserts of     *)
(* create are one, and no row precedes or outlives its tenant.                 *)
LEMMA InvariantCreatesTogether == IInv => CreatedTogether
BY DEF IInv, TypeOK, CreatedTogether, RowsHaveTheirTenant, TenantsHadAnOwner

(* Ownership is granted by owners only: an administrator promotes nobody to    *)
(* owner, whatever was revoked between the check and the insert.               *)
LEMMA StepsGrantByOwners ==
  ASSUME ConstantsAssumption, IInv, [Next]_workspaces
  PROVE  GrantedByAnOwner
<1> SUFFICES ASSUME NEW t \in tenants, NEW u \in User,
                    membership'[<<t, u>>] # None,
                    membership'[<<t, u>>] # membership[<<t, u>>],
                    membership'[<<t, u>>].role = "owner",
                    membership'[<<t, u>>].active
             PROVE  \E p \in Server :
                      /\ request[p].at = "granting" /\ request'[p].at = "idle"
                      /\ request[p].tenant = t
                      /\ Member(t, request[p].actor)
                      /\ membership[<<t, request[p].actor>>].role = "owner"
  BY DEF GrantedByAnOwner
<1> USE DEF IInv
<1>1. t \in Tenant
  BY DEF TypeOK
<1>2. PICK p \in Server : CreateTenant(p) \/ Grant(p) \/ Revoke(p)
  BY DEF Next, workspaces, ValidateTenant, Resolve, FindRow, ValidateGrant, CountOwners, Refuse
<1>3. ~CreateTenant(p)
  <2>1. ASSUME CreateTenant(p) PROVE request[p].tenant \in Tenant /\ request[p].user \in User
    BY <2>1, RequestFields DEF CreateTenant
  <2> QED
    BY <1>1, <2>1 DEF CreateTenant, Insert, TypeOK
<1>4. ~Revoke(p)
  <2>1. ASSUME Revoke(p) PROVE request[p].of \in Tenant /\ request[p].user \in User
    BY <2>1, RequestFields DEF Revoke
  <2>2. ASSUME Revoke(p), <<t, u>> = <<request[p].of, request[p].user>> PROVE FALSE
    BY <1>1, <2>1, <2>2 DEF Revoke, TypeOK
  <2>3. ASSUME Revoke(p), <<t, u>> # <<request[p].of, request[p].user>> PROVE FALSE
    BY <1>1, <2>1, <2>3 DEF Revoke, TypeOK
  <2> QED
    BY <2>2, <2>3
<1>5. Grant(p)
  BY <1>2, <1>3, <1>4
<1>6. /\ request[p].tenant \in Tenant /\ request[p].user \in User
      /\ request[p].at = "granting"
  BY <1>5, RequestFields DEF Grant, HasResolved
<1>7. Insert(request[p].tenant, request[p].user, request[p].grant)
  BY <1>5 DEF Grant
<1>8. request[p].tenant = t /\ request[p].user = u /\ request[p].grant = "owner"
  BY <1>1, <1>6, <1>7 DEF Insert, TypeOK
<1>9. request'[p] = Idle
  BY <1>5 DEF Grant, Become, TypeOK
<1> QED
  BY <1>6, <1>8, <1>9
  DEF Idle, RequestsAreFounded, CallerIsMember, GrantIsAllowed, HasResolved

(* Who was revoked stays out. *)
LEMMA StepsReviveNone ==
  ASSUME ConstantsAssumption, IInv, [Next]_workspaces
  PROVE  NoneIsRevived
<1> USE DEF IInv
<1> SUFFICES ASSUME NEW t \in Tenant, NEW u \in User, membership[<<t, u>>] # None
             PROVE  /\ membership'[<<t, u>>] # None
                    /\ membership'[<<t, u>>].role = membership[<<t, u>>].role
                    /\ membership'[<<t, u>>].active => membership[<<t, u>>].active
  BY DEF NoneIsRevived
<1>1. membership'[<<t, u>>] # None /\ membership'[<<t, u>>].role = membership[<<t, u>>].role
  BY StepsInvariant DEF Grows, Member
<1>2. membership'[<<t, u>>].active => membership[<<t, u>>].active
  <2>1. CASE membership' = membership
    BY <2>1
  <2>2. ASSUME NEW p \in Server, CreateTenant(p), membership' # membership
        PROVE  membership'[<<t, u>>] = membership[<<t, u>>]
    <3>1. /\ request[p].tenant \in Tenant /\ request[p].user \in User
          /\ request[p].tenant \notin tenants
      BY <2>2, RequestFields DEF CreateTenant
    <3> QED
      BY <2>2, <3>1 DEF CreateTenant, Insert, TypeOK, RowsHaveTheirTenant, Member
  <2>3. ASSUME NEW p \in Server, Grant(p), membership' # membership
        PROVE  membership'[<<t, u>>] = membership[<<t, u>>]
    <3>1. request[p].tenant \in Tenant /\ request[p].user \in User
      BY <2>3, RequestFields DEF Grant, HasResolved
    <3> QED
      BY <2>3, <3>1 DEF Grant, Insert, TypeOK, Member
  <2>4. ASSUME NEW p \in Server, Revoke(p)
        PROVE  membership'[<<t, u>>].active => membership[<<t, u>>].active
    <3>1. request[p].of \in Tenant /\ request[p].user \in User
      BY <2>4, RequestFields DEF Revoke
    <3>2. CASE <<t, u>> = <<request[p].of, request[p].user>>
      BY <2>4, <3>1, <3>2 DEF Revoke, TypeOK
    <3>3. CASE <<t, u>> # <<request[p].of, request[p].user>>
      BY <2>4, <3>1, <3>3 DEF Revoke, TypeOK
    <3> QED
      BY <3>2, <3>3
  <2> QED
    BY <2>1, <2>2, <2>3, <2>4
    DEF Next, workspaces, ValidateTenant, Resolve, FindRow, ValidateGrant, CountOwners, Refuse
<1> QED
  BY <1>1, <1>2

(* No request changes a row of a workspace other than that of its caller. *)
LEMMA StepsStayInTenant ==
  ASSUME ConstantsAssumption, IInv, [Next]_workspaces
  PROVE  InTheCallersTenant
<1> USE DEF IInv
<1> SUFFICES ASSUME NEW t \in tenants, NEW u \in User,
                    membership'[<<t, u>>] # membership[<<t, u>>]
             PROVE  \E p \in Server : request[p].at # "idle" /\ request'[p].at = "idle"
                                       /\ request[p].tenant = t
  BY DEF InTheCallersTenant
<1>1. t \in Tenant
  BY DEF TypeOK
<1>2. PICK p \in Server : CreateTenant(p) \/ Grant(p) \/ Revoke(p)
  BY DEF Next, workspaces, ValidateTenant, Resolve, FindRow, ValidateGrant, CountOwners, Refuse
<1>3. request[p].at # "idle" /\ request'[p].at = "idle"
  BY <1>2 DEF CreateTenant, Grant, Revoke, Become, TypeOK, Idle
<1>4. ASSUME CreateTenant(p) \/ Grant(p) PROVE request[p].tenant = t
  <2>1. request[p].tenant \in Tenant /\ request[p].user \in User
    BY <1>4, RequestFields DEF CreateTenant, Grant, HasResolved
  <2> QED
    BY <1>1, <1>4, <2>1 DEF CreateTenant, Grant, Insert, TypeOK
<1>5. ASSUME Revoke(p) PROVE request[p].tenant = t
  <2>1. request[p].of \in Tenant /\ request[p].user \in User /\ request[p].of = request[p].tenant
    BY <1>5, RequestFields DEF Revoke, RequestsAreFounded, RevokesARow
  <2> QED
    BY <1>1, <1>5, <2>1 DEF Revoke, TypeOK
<1> QED
  BY <1>2, <1>3, <1>4, <1>5

(* Whatever a statement of any request does to the rows is guarded: ownership  *)
(* comes from owners, nobody is revived, and every change is in the workspace  *)
(* in which the caller was resolved.                                           *)
THEOREM MembershipStaysGuarded ==
  ASSUME ConstantsAssumption PROVE Spec => MembershipIsGuarded
<1>1. IInv /\ [Next]_workspaces => RowsAreGuarded
  BY StepsGrantByOwners, StepsReviveNone, StepsStayInTenant DEF RowsAreGuarded
<1> QED
  BY <1>1, InvariantHolds, PTL DEF Spec, MembershipIsGuarded, workspaces

-----------------------------------------------------------------------------
(* Why an owner remains where no two revocations have overlapped.  A count that *)
(* let the revocation of an owner pass is still true when the row is saved:     *)
(* only a save takes an ownership away, and nobody else is about to save one.   *)
SomeOwner(t) == Owners(t) # {}

CountStillHolds(p, t) == Revokes(p, t) => MayGo(t, request[p].user)

TakeTurns(t) == \A p, q \in Server : Revokes(p, t) /\ Revokes(q, t) => p = q

OwnersInv ==
  \A t \in Tenant \ overlapped :
    /\ t \in tenants => SomeOwner(t)
    /\ \A p \in Server : CountStillHolds(p, t)
    /\ TakeTurns(t)

(* Only the save of a revocation ends an ownership, and of one person only. *)
LEMMA OwnersStay ==
  ASSUME ConstantsAssumption, IInv, [Next]_workspaces, NEW t \in Tenant, NEW o \in Owners(t)
  PROVE  \/ o \in Owners(t)'
         \/ \E p \in Server : Revoke(p) /\ Revokes(p, t) /\ request[p].user = o
<1> USE DEF IInv
<1>1. /\ o \in User /\ Member(t, o) /\ membership[<<t, o>>].active
      /\ membership[<<t, o>>].role = "owner"
  BY DEF Owners, Active
<1>2. membership'[<<t, o>>] # None /\ membership'[<<t, o>>].role = "owner"
  BY <1>1, StepsInvariant DEF Grows, Member
<1>3. CASE membership'[<<t, o>>] = membership[<<t, o>>]
  BY <1>1, <1>2, <1>3 DEF Owners, Active, Member
<1>4. CASE membership'[<<t, o>>] # membership[<<t, o>>]
  <2>1. PICK p \in Server : CreateTenant(p) \/ Grant(p) \/ Revoke(p)
    BY <1>4
    DEF Next, workspaces, ValidateTenant, Resolve, FindRow, ValidateGrant, CountOwners,
        Refuse
  <2>2. ~CreateTenant(p)
    <3>1. ASSUME CreateTenant(p)
          PROVE  request[p].tenant \in Tenant /\ request[p].user \in User
      BY <3>1, RequestFields DEF CreateTenant
    <3> QED
      BY <1>1, <1>4, <3>1 DEF CreateTenant, Insert, TypeOK, RowsHaveTheirTenant
  <2>3. ~Grant(p)
    <3>1. ASSUME Grant(p)
          PROVE  request[p].tenant \in Tenant /\ request[p].user \in User
      BY <3>1, RequestFields DEF Grant, HasResolved
    <3> QED
      BY <1>1, <1>4, <3>1 DEF Grant, Insert, TypeOK
  <2>4. Revoke(p) /\ request[p].of \in Tenant /\ request[p].user \in User
    BY <2>1, <2>2, <2>3, RequestFields DEF Revoke
  <2>5. request[p].of = t /\ request[p].user = o
    BY <1>1, <1>4, <2>4 DEF Revoke, TypeOK
  <2> QED
    BY <2>4, <2>5 DEF Revoke, Revokes
<1> QED
  BY <1>3, <1>4

(* While nobody saves a revocation of a workspace, it keeps all owners. *)
LEMMA OwnersAllStay ==
  ASSUME ConstantsAssumption, IInv, [Next]_workspaces, NEW t \in Tenant,
         ~ \E p \in Server : Revoke(p) /\ Revokes(p, t)
  PROVE  Owners(t) \subseteq Owners(t)'
BY OwnersStay

(* A request is about to save a revocation after a step if it was before, and  *)
(* left alone, or if the step is its count: then another owner was counted,    *)
(* and nobody else is about to save one unless the workspace is marked.        *)
LEMMA RevokersStep ==
  ASSUME ConstantsAssumption, IInv, [Next]_workspaces, NEW p \in Server, NEW t \in Tenant,
         Revokes(p, t)'
  PROVE  \/ Revokes(p, t) /\ request'[p] = request[p] /\ ~Revoke(p)
         \/ /\ CountOwners(p)
            /\ request'[p].user = request[p].user
            /\ MayGo(t, request[p].user)
            /\ t \notin overlapped' => \A q \in Server : ~Revokes(q, t)
<1> USE DEF IInv
<1>1. ASSUME NEW r \in Server, NEW z, Become(r, z), request'[p] # request[p]
      PROVE  r = p /\ z = request'[p] /\ z.at = "revoking" /\ z.of = t
  BY <1>1 DEF Become, TypeOK, Revokes
<1>2. CASE request'[p] = request[p]
  <2>1. ASSUME Revoke(p) PROVE FALSE
    BY <1>2, <2>1 DEF Revoke, Become, TypeOK, Idle
  <2> QED
    BY <1>2, <2>1 DEF Revokes
<1>3. CASE request'[p] # request[p]
  <2>1. ASSUME NEW r \in Server, NEW x \in Tenant, NEW u \in User,
               ValidateTenant(r, x, u) \/ Resolve(r, x, u) \/ FindRow(r, x, u)
        PROVE  FALSE
    BY <1>1, <1>3, <2>1 DEF ValidateTenant, Resolve, FindRow, InternalError, Revocation
  <2>2. ASSUME NEW r \in Server, NEW u \in User, NEW grant \in Role,
               ValidateGrant(r, u, grant)
        PROVE  FALSE
    BY <1>1, <1>3, <2>2 DEF ValidateGrant, InternalError
  <2>3. ASSUME NEW r \in Server, CreateTenant(r) \/ Grant(r) \/ Revoke(r) \/ Refuse(r)
        PROVE  FALSE
    BY <1>1, <1>3, <2>3 DEF CreateTenant, Grant, Revoke, Refuse, Idle
  <2>4. ASSUME NEW r \in Server, CountOwners(r)
        PROVE  r = p
    BY <1>1, <1>3, <2>4 DEF CountOwners
  <2>5. CountOwners(p)
    BY <1>3, <2>1, <2>2, <2>3, <2>4 DEF Next, workspaces
  <2>6. /\ MayGo(request[p].of, request[p].user)
        /\ Become(p, Revocation(p, "revoking", request[p].of, request[p].user))
        /\ overlapped' = overlapped \cup
             {x \in {request[p].of} : \E q \in Server \ {p} : Revokes(q, x)}
    BY <1>1, <1>3, <2>5 DEF CountOwners, Idle
  <2>7. request[p].of = t /\ request'[p].user = request[p].user
    BY <1>1, <1>3, <2>6 DEF Revocation
  <2>8. ~Revokes(p, t)
    BY <2>5 DEF CountOwners, Revokes
  <2> QED
    BY <2>5, <2>6, <2>7, <2>8
<1> QED
  BY <1>2, <1>3

(* Who may be revoked is decided by the owners and by the role, which stays. *)
LEMMA MayGoStays ==
  ASSUME ConstantsAssumption, IInv, [Next]_workspaces, NEW t \in Tenant, NEW u \in User,
         Member(t, u), MayGo(t, u), Owners(t) \subseteq Owners(t)'
  PROVE  MayGo(t, u)'
<1>1. membership'[<<t, u>>].role = membership[<<t, u>>].role
  BY StepsInvariant DEF Grows
<1> QED
  BY <1>1 DEF MayGo, AnotherOwner

(* A workspace that is new has its creator for an owner. *)
LEMMA NewWorkspaceHasAnOwner ==
  ASSUME ConstantsAssumption, IInv, [Next]_workspaces, NEW t \in tenants' \ tenants
  PROVE  SomeOwner(t)'
<1> USE DEF IInv
<1>1. PICK p \in Server : CreateTenant(p) /\ t = request[p].tenant
  BY DEF Next, workspaces, ValidateTenant, CreateTenant, Resolve, FindRow, ValidateGrant,
         Grant, CountOwners, Revoke, Refuse
<1>2. request[p].tenant \in Tenant /\ request[p].user \in User
  BY <1>1, RequestFields DEF CreateTenant
<1>3. membership'[<<t, request[p].user>>] = [role |-> "owner", active |-> TRUE]
  BY <1>1, <1>2 DEF CreateTenant, Insert, TypeOK
<1>4. [role |-> "owner", active |-> TRUE] \in Row
  BY DEF Row, Role
<1>5. None # [role |-> "owner", active |-> TRUE]
  BY <1>4 DEF ConstantsAssumption
<1>6. \E u \in User : u \in Owners(t)'
  BY <1>2, <1>3, <1>5 DEF Owners, Active, Member
<1> QED
  BY <1>6 DEF SomeOwner

(* Workspaces are marked for good. *)
LEMMA MarksStay ==
  ASSUME [Next]_workspaces
  PROVE  overlapped \subseteq overlapped'
BY DEF Next, workspaces, ValidateTenant, CreateTenant, Resolve, FindRow, ValidateGrant,
       Grant, CountOwners, Revoke, Refuse

LEMMA OwnersStep ==
  ASSUME ConstantsAssumption, IInv, OwnersInv, [Next]_workspaces
  PROVE  OwnersInv'
<1> USE DEF IInv
<1> SUFFICES ASSUME NEW t \in Tenant, t \notin overlapped'
             PROVE  /\ t \in tenants' => SomeOwner(t)'
                    /\ \A p \in Server : CountStillHolds(p, t)'
                    /\ TakeTurns(t)'
  BY DEF OwnersInv
<1>1. /\ t \notin overlapped
      /\ t \in tenants => SomeOwner(t)
      /\ \A p \in Server : CountStillHolds(p, t)
      /\ TakeTurns(t)
  BY MarksStay DEF OwnersInv
<1>2. ASSUME NEW p \in Server, Revokes(p, t)
      PROVE  /\ t \in tenants /\ request[p].user \in User /\ Member(t, request[p].user)
             /\ MayGo(t, request[p].user)
  BY <1>1, <1>2, RequestFields
  DEF Revokes, RequestsAreFounded, RevokesARow, CallerIsMember, HasResolved, CountStillHolds
<1>3. t \in tenants' => SomeOwner(t)'
  <2> SUFFICES ASSUME t \in tenants PROVE SomeOwner(t)'
    BY NewWorkspaceHasAnOwner
  <2>1. CASE \E p \in Server : Revoke(p) /\ Revokes(p, t)
    <3>1. PICK p \in Server : Revoke(p) /\ Revokes(p, t)
      BY <2>1
    <3>2. ASSUME NEW q \in Server, Revoke(q) PROVE q = p
      BY <3>1, <3>2 DEF Revoke, Become, TypeOK, Idle
    <3>3. PICK o \in Owners(t) : o # request[p].user
      BY <1>1, <1>2, <3>1 DEF MayGo, AnotherOwner, SomeOwner, Owners
    <3>4. o \in Owners(t)'
      BY <3>2, <3>3, OwnersStay
    <3> QED
      BY <3>4 DEF SomeOwner
  <2>2. CASE ~ \E p \in Server : Revoke(p) /\ Revokes(p, t)
    BY <1>1, <2>2, OwnersAllStay DEF SomeOwner
  <2> QED
    BY <2>1, <2>2
<1>4. ASSUME NEW p \in Server, Revokes(p, t)', NEW u, u = request'[p].user
      PROVE  MayGo(t, u)'
  <2>1. CASE Revokes(p, t) /\ request'[p] = request[p] /\ ~Revoke(p)
    <3>1. Owners(t) \subseteq Owners(t)'
      BY <1>1, <2>1, OwnersAllStay DEF TakeTurns
    <3>2. u \in User /\ Member(t, u) /\ MayGo(t, u)
      BY <1>2, <1>4, <2>1
    <3> QED
      BY <3>1, <3>2, MayGoStays
  <2>2. CASE CountOwners(p) /\ request'[p].user = request[p].user /\ MayGo(t, request[p].user)
    BY <1>4, <2>2 DEF CountOwners, MayGo, AnotherOwner, Owners, Active, Member
  <2> QED
    BY <1>4, <2>1, <2>2, RevokersStep
<1>5. ASSUME NEW p \in Server, NEW q \in Server, Revokes(p, t)', Revokes(q, t)'
      PROVE  p = q
  <2>1. CASE Revokes(p, t) /\ Revokes(q, t)
    BY <1>1, <2>1 DEF TakeTurns
  <2>2. CASE ~Revokes(p, t) \/ ~Revokes(q, t)
    <3>1. ASSUME NEW r \in Server, NEW c \in Server, CountOwners(r), CountOwners(c) PROVE r = c
      BY <3>1 DEF CountOwners, Become, TypeOK, Idle, Revocation
    <3> QED
      BY <1>5, <2>2, <3>1, RevokersStep
  <2> QED
    BY <2>1, <2>2
<1> QED
  BY <1>3, <1>4, <1>5 DEF CountStillHolds, TakeTurns, MayGo, AnotherOwner

LEMMA OwnersInit == Init => OwnersInv
BY DEF Init, OwnersInv, CountStillHolds, TakeTurns, Revokes, Idle

(* A workspace is created with its first owner or not at all, and never loses  *)
(* its last one while revocations take turns in it: the overlap of two is the  *)
(* one interleaving that the code does not exclude.                            *)
THEOREM WorkspaceKeepsAnOwner ==
  ASSUME ConstantsAssumption
  PROVE  Spec => []WorkspaceHasAnOwner
<1>1. Init => OwnersInv
  BY OwnersInit
<1>2. IInv /\ OwnersInv /\ [Next]_workspaces => OwnersInv'
  BY OwnersStep
<1>3. IInv /\ OwnersInv => WorkspaceHasAnOwner
  BY InvariantCreatesTogether
  DEF OwnersInv, SomeOwner, WorkspaceHasAnOwner, IInv, TypeOK
<1> QED
  BY <1>1, <1>2, <1>3, InvariantHolds, PTL DEF Spec
=============================================================================
