----------------------------- MODULE Workspaces -----------------------------
(***************************************************************************)
(* Workspaces and the people in them: the tables of the app tenancy, the   *)
(* requests at work on them, and what holds of both in every order of the  *)
(* requests' statements.  Membership has the statements.                   *)
(***************************************************************************)
EXTENDS Null

CONSTANTS
  Tenant,  \* the slugs of workspaces; a slug is unique
  User,
  Server   \* web processes

VARIABLES
  tenants,     \* the tenant table
  membership,  \* the membership table: (tenant, user) is unique; None for no row
  request,     \* what each web process is answering
  overlapped   \* the workspaces in which two revocations were once under way at
               \* the same time: both had counted the owners and neither had saved

workspaces == <<tenants, membership, request, overlapped>>

Member(t, u) == membership[<<t, u>>] # None
Active(t, u) == Member(t, u) /\ membership[<<t, u>>].active
Owners(t) == {u \in User : Active(t, u) /\ membership[<<t, u>>].role = "owner"}

\* About to save the revocation of a membership of t.
Revokes(p, t) == request[p].at = "revoking" /\ request[p].of = t

-----------------------------------------------------------------------------
(* A workspace keeps at least one active owner: what the message of             *)
(* MembershipService.revoke promises and its count of the remaining owners is   *)
(* there for.  The count and the save are two statements.                       *)
OwnerRemains == \A t \in tenants : Owners(t) # {}

(* A tenant and its first owner are created together or not at all, whoever     *)
(* else asks for the same slug meanwhile; and no membership outlives or         *)
(* precedes its tenant.                                                         *)
CreatedTogether ==
  \A t \in Tenant :
    (t \in tenants) <=> \E u \in User : Member(t, u) /\ membership[<<t, u>>].role = "owner"

(* A workspace is created with its first owner or not at all, and it keeps an   *)
(* owner as long as no two revocations overlap in it.                           *)
WorkspaceHasAnOwner ==
  /\ CreatedTogether
  /\ \A t \in tenants \ overlapped : Owners(t) # {}

(* Ownership has a pedigree: a new owner of a standing workspace is granted by  *)
(* a request of somebody whose own row there says owner -- an administrator     *)
(* can never promote anybody to owner, in any order of requests.                *)
GrantedByAnOwner ==
  \A t \in tenants, u \in User :
    (membership'[<<t, u>>] # None /\ membership'[<<t, u>>] # membership[<<t, u>>]
       /\ membership'[<<t, u>>].role = "owner" /\ membership'[<<t, u>>].active)
    => \E p \in Server :
         /\ request[p].at = "granting" /\ request'[p].at = "idle"
         /\ request[p].tenant = t
         /\ Member(t, request[p].actor)
         /\ membership[<<t, request[p].actor>>].role = "owner"

(* Who was revoked stays out: no interleaving of invitations with a revocation  *)
(* brings a row back to life or changes the role it was granted with.           *)
NoneIsRevived ==
  \A k \in Tenant \X User :
    membership[k] # None =>
      /\ membership'[k] # None
      /\ membership'[k].role = membership[k].role
      /\ membership'[k].active => membership[k].active

(* Isolation: a request changes rows of the one workspace in which its caller   *)
(* was resolved, whatever uuid it names.                                        *)
InTheCallersTenant ==
  \A t \in tenants, u \in User :
    membership'[<<t, u>>] # membership[<<t, u>>] =>
      \E p \in Server : request[p].at # "idle" /\ request'[p].at = "idle"
                         /\ request[p].tenant = t

(* What a statement of any request may do to the rows, in any order of requests: *)
(* ownership is granted by owners only, who was revoked stays out, and nothing   *)
(* is done to a workspace other than the caller's.                              *)
RowsAreGuarded == GrantedByAnOwner /\ NoneIsRevived /\ InTheCallersTenant
MembershipIsGuarded == [][RowsAreGuarded]_workspaces
=============================================================================
