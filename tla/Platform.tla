------------------------------ MODULE Platform ------------------------------
(***************************************************************************)
(* Platform administration and the life of a tenant: platform members and  *)
(* their roles, the roles and their permissions, the creation of a tenant  *)
(* with everything its administrator needs, its modules and its status,    *)
(* which both the platform and the tenant's own administration change.     *)
(*                                                                         *)
(* A request is authorized in one step and goes on, statement by           *)
(* statement, under the row locks and unique indexes that its statements   *)
(* meet.  A transaction that another one may interleave with keeps what it *)
(* has done with its request until it commits.                             *)
(***************************************************************************)
EXTENDS Integers, Sequences, FiniteSets

CONSTANTS
    Requests,
    Identities, Members,    \* a membership belongs to an identity
    Owner,                  \* the system role, which nobody edits
    Roles,                  \* the other roles, by their codes
    Keys,                   \* permissions
    KeySets, RoleSets,      \* the sets that requests give to a role, to a member
    Tenants, Slugs,
    Modules, CoreModules,
    MaxRequests,            \* bound: requests that are authorized
    None

ASSUME PlatformAssumption ==
    /\ Owner \notin Roles /\ CoreModules \subseteq Modules
    /\ KeySets \subseteq SUBSET Keys /\ RoleSets \subseteq SUBSET (Roles \cup {Owner})
    /\ {"members", "roles", "permissions", "modules", "tenants"} = Keys
    /\ MaxRequests \in Nat /\ None \notin Members \cup Roles \cup Tenants \cup Identities

VARIABLES
    member,     \* the memberships: identity, status and roles
    role,       \* the roles: whether they exist, are deleted, and their permissions
    tenant,     \* the tenants: slug, status, what was created with them, modules
    request,    \* the requests in progress
    served      \* how many were authorized

platformVars == <<member, role, tenant, request, served>>

MemberStatus == {"absent", "active", "suspended", "revoked"}
TenantStatus == {"active", "suspended", "cancelled"}

\* What bootstrapTenant inserts, in this order.
Parts == <<"tenant", "modules", "branch", "user", "membership", "branchAccess", "role",
           "userRole", "grants">>

Operations ==
    [op : {"addMember"}, identity : Identities, roles : RoleSets]
        \cup [op : {"patchMember"}, member : Members, status : {"active", "suspended", "revoked", None},
              roles : RoleSets \cup {{}}]
        \cup [op : {"createRole"}, role : Roles]
        \cup [op : {"patchRole"}, role : Roles, deleted : BOOLEAN]
        \cup [op : {"putPermissions"}, role : Roles, keys : KeySets]
        \cup [op : {"patchModule"}, tenant : Tenants, module : Modules, enabled : BOOLEAN]
        \cup [op : {"createTenant"}, tenant : Tenants, slug : Slugs]
        \cup [op : {"setStatus"}, tenant : Tenants, status : TenantStatus]
        \cup [op : {"transition"}, tenant : Tenants,
              action : {"suspend", "reactivate", "deactivate", "activate"}]
        \cup [op : {"deleteTenant"}, tenant : Tenants]

Request == [at : {"idle", "arrived", "locked", "deleted", "creating", "checked"},
            do : Operations \cup {None},
            gone : SUBSET (Keys \cup Roles \cup {Owner}), done : 0 .. Len(Parts)]
NoRequest == [at |-> "idle", do |-> None, gone |-> {}, done |-> 0]

PlatformTypeOK ==
    /\ member \in [Members -> [identity : Identities \cup {None}, status : MemberStatus,
                               roles : SUBSET (Roles \cup {Owner})]]
    /\ role \in [Roles \cup {Owner} -> [exists : BOOLEAN, deleted : BOOLEAN, keys : SUBSET Keys]]
    /\ tenant \in [Tenants -> [slug : Slugs \cup {None}, status : TenantStatus \cup {None},
                               deleted : BOOLEAN, parts : SUBSET {Parts[i] : i \in DOMAIN Parts},
                               modules : SUBSET Modules, visible : BOOLEAN]]
    /\ request \in [Requests -> Request]
    /\ served \in 0 .. MaxRequests
    /\ \A r \in Requests : request[r].gone # {} => request[r].at = "deleted"

NoTenant == [slug |-> None, status |-> None, deleted |-> FALSE, parts |-> {}, modules |-> {},
             visible |-> FALSE]

\* One administrator with the owner's role, which has every permission.
PlatformInit ==
    /\ \E m \in Members, i \in Identities :
          member = [n \in Members |->
                      IF n = m THEN [identity |-> i, status |-> "active", roles |-> {Owner}]
                      ELSE [identity |-> None, status |-> "absent", roles |-> {}]]
    /\ role = [o \in Roles \cup {Owner} |->
                 [exists |-> o = Owner, deleted |-> FALSE, keys |-> IF o = Owner THEN Keys ELSE {}]]
    /\ tenant = [t \in Tenants |-> NoTenant]
    /\ request = [r \in Requests |-> NoRequest]
    /\ served = 0

Doing(r, op) == request[r].do # None /\ request[r].do.op = op
Proceeds(r, at) == request' = [request EXCEPT ![r].at = at]

Leave(r) == request' = [request EXCEPT ![r] = NoRequest]

------------------------------------------------------------------------------
(* Authorization.                                                          *)

\* hasPermission: a deleted role still counts.
HasPermission(m, k) == \E o \in member[m].roles : k \in role[o].keys

\* What the platform's route of an operation asks for.
Needs(d) ==
    CASE d.op \in {"addMember", "patchMember"} -> "members"
      [] d.op \in {"createRole", "patchRole"} -> "roles"
      [] d.op = "putPermissions" -> "permissions"
      [] d.op = "patchModule" -> "modules"
      [] OTHER -> "tenants"

\* What a tenant's administration has a route for too: POST /tenants, POST
\* /tenants/current/suspend and its siblings, DELETE /tenants/current.
OfTenants == {"createTenant", "transition", "deleteTenant"}

\* requirePlatformContext, or requirePermission in a tenant, whose own roles are
\* not modelled; the ids in a request are those of existing rows, a new tenant
\* has an id of its own.
Arrive(r, d) ==
    /\ request[r] = NoRequest /\ served < MaxRequests
    /\ \/ \E m \in Members : member[m].status = "active" /\ HasPermission(m, Needs(d))
       \/ d.op \in OfTenants /\ \E t \in Tenants : tenant[t].visible
    /\ d.op = "createTenant" =>
          tenant[d.tenant] = NoTenant
             /\ \A q \in Requests : request[q].do # None /\ request[q].do.op = "createTenant"
                                       => request[q].do.tenant # d.tenant
    /\ d.op \in {"patchModule", "setStatus", "transition", "deleteTenant"} => tenant[d.tenant].visible
    /\ d.op = "patchMember" => member[d.member].status # "absent"
    /\ d.op \in {"addMember", "patchMember"} => \A o \in d.roles : role[o].exists
    /\ d.op \in {"patchRole", "putPermissions"} => role[d.role].exists
    /\ request' = [request EXCEPT ![r].at = "arrived", ![r].do = d]
    /\ served' = served + 1
    /\ UNCHANGED <<member, role, tenant>>

------------------------------------------------------------------------------
(* Platform members.                                                       *)

Holding == {"locked", "deleted"}

\* The row that a request has locked: SELECT ... FOR UPDATE.
Locked(q) ==
    IF request[q].at \notin Holding THEN None
    ELSE CASE Doing(q, "addMember") -> request[q].do.identity
           [] Doing(q, "patchMember") -> request[q].do.member
           [] Doing(q, "putPermissions") -> request[q].do.role
           [] OTHER -> None

\* mutant: the row of the membership or the role is read without FOR UPDATE
Unlocked(r, row) == TRUE

LockFree(r, row) == \A q \in Requests \ {r} : Locked(q) # row

\* mutant: there is no unique index on active memberships
AnyMembership(m, i) == TRUE

\* uq_platform_memberships_active_identity
ActiveFree(m, i) ==
    \A n \in Members \ {m} : ~(member[n].identity = i /\ member[n].status = "active")

\* POST /platform/members: the identity is locked ...
LockIdentity(r) ==
    /\ Doing(r, "addMember") /\ request[r].at = "arrived"
    /\ LockFree(r, request[r].do.identity)
    /\ Proceeds(r, "locked")
    /\ UNCHANGED <<member, role, tenant, served>>

\* ... and a new membership gets its roles, unless one is active.
AddMember(r) ==
    LET d == request[r].do
    IN  /\ Doing(r, "addMember") /\ request[r].at = "locked"
        /\ \E m \in Members :
              /\ member[m].status = "absent"
              /\ member' = IF ActiveFree(m, d.identity)
                           THEN [member EXCEPT ![m] = [identity |-> d.identity, status |-> "active",
                                                       roles |-> d.roles]]
                           ELSE member
        /\ Leave(r)
        /\ UNCHANGED <<role, tenant, served>>

\* PATCH /platform/members/:membershipId: the membership is locked, its roles
\* are deleted as they are now ...
LockMember(r) ==
    /\ Doing(r, "patchMember") /\ request[r].at = "arrived"
    /\ LockFree(r, request[r].do.member)
    /\ IF request[r].do.roles = {} THEN Proceeds(r, "locked")
       ELSE request' = [request EXCEPT ![r].at = "deleted",
                                       ![r].gone = member[request[r].do.member].roles]
    /\ UNCHANGED <<member, role, tenant, served>>

\* ... and the others written.  A role that is there meanwhile breaks the
\* primary key, a second active membership the index.
SaveMember(r) ==
    LET d == request[r].do
        old == member[d.member]
        roles == IF d.roles = {} THEN old.roles ELSE (old.roles \ request[r].gone) \cup d.roles
        status == IF d.status = None THEN old.status ELSE d.status
    IN  /\ Doing(r, "patchMember") /\ request[r].at \in Holding
        /\ member' = IF /\ d.roles # {} => (old.roles \ request[r].gone) \cap d.roles = {}
                        /\ status = "active" => ActiveFree(d.member, old.identity)
                     THEN [member EXCEPT ![d.member].status = status, ![d.member].roles = roles]
                     ELSE member
        /\ Leave(r)
        /\ UNCHANGED <<role, tenant, served>>

------------------------------------------------------------------------------
(* Platform roles.                                                         *)

\* POST /platform/roles: the code is unique.
CreateRole(r) ==
    /\ Doing(r, "createRole") /\ request[r].at = "arrived"
    /\ role' = [role EXCEPT ![request[r].do.role].exists = TRUE]
    /\ Leave(r)
    /\ UNCHANGED <<member, tenant, served>>

\* PATCH /platform/roles/:roleId: one statement, which waits for the row.
PatchRole(r) ==
    /\ Doing(r, "patchRole") /\ request[r].at = "arrived"
    /\ LockFree(r, request[r].do.role)
    /\ role' = [role EXCEPT ![request[r].do.role].deleted = request[r].do.deleted]
    /\ Leave(r)
    /\ UNCHANGED <<member, tenant, served>>

\* PUT /platform/roles/:roleId/permissions: a role that is not deleted is
\* locked, its permissions are deleted ...
LockRole(r) ==
    LET o == request[r].do.role
    IN  /\ Doing(r, "putPermissions") /\ request[r].at = "arrived"
        /\ LockFree(r, o)
        /\ IF role[o].deleted THEN Leave(r)
           ELSE request' = [request EXCEPT ![r].at = "deleted", ![r].gone = role[o].keys]
        /\ UNCHANGED <<member, role, tenant, served>>

\* ... and the new ones inserted.
PutPermissions(r) ==
    LET d == request[r].do
        left == role[d.role].keys \ request[r].gone
    IN  /\ Doing(r, "putPermissions") /\ request[r].at = "deleted"
        /\ role' = IF left \cap d.keys = {} THEN [role EXCEPT ![d.role].keys = left \cup d.keys]
                   ELSE role
        /\ Leave(r)
        /\ UNCHANGED <<member, tenant, served>>

------------------------------------------------------------------------------
(* Tenants.                                                                *)

\* uq_tenant_slug_active and uq_tenant_subdomain_active
SlugFree(t, s) ==
    \A u \in Tenants \ {t} : ~(tenant[u].slug = s /\ ~tenant[u].deleted)

\* A row with the slug that is not committed makes others wait.
SlugSettled(t, s) ==
    \A u \in Tenants \ {t} : tenant[u].slug = s => tenant[u].visible

\* mutant: the statements commit one by one
VisibleAtOnce(i) == TRUE

\* bootstrapTenant is one transaction.
Visible(i) == i = Len(Parts)

\* The first statement of bootstrapTenant; a trigger and the second one
\* enable the modules.
InsertTenant(r) ==
    LET d == request[r].do
    IN  /\ Doing(r, "createTenant") /\ request[r].at = "arrived"
        /\ SlugSettled(d.tenant, d.slug)
        /\ IF SlugFree(d.tenant, d.slug)
           THEN /\ tenant' = [tenant EXCEPT ![d.tenant] =
                      [slug |-> d.slug, status |-> "active", deleted |-> FALSE,
                       parts |-> {Parts[1], Parts[2]}, modules |-> Modules, visible |-> Visible(2)]]
                /\ request' = [request EXCEPT ![r].at = "creating", ![r].done = 2]
           ELSE Leave(r) /\ UNCHANGED tenant
        /\ UNCHANGED <<member, role, served>>

\* The other statements.
InsertPart(r) ==
    LET d == request[r].do
        i == request[r].done + 1
    IN  /\ Doing(r, "createTenant") /\ request[r].at = "creating"
        /\ tenant' = [tenant EXCEPT ![d.tenant].parts = @ \cup {Parts[i]},
                                    ![d.tenant].visible = Visible(i)]
        /\ IF i = Len(Parts) THEN Leave(r)
           ELSE request' = [request EXCEPT ![r].done = i]
        /\ UNCHANGED <<member, role, served>>

\* A statement fails, or the process dies: what is not committed is gone.
Rollback(r) ==
    /\ request[r].at \in {"locked", "deleted", "creating", "checked"}
    /\ tenant' = IF Doing(r, "createTenant") /\ ~tenant[request[r].do.tenant].visible
                 THEN [tenant EXCEPT ![request[r].do.tenant] = NoTenant] ELSE tenant
    /\ Leave(r)
    /\ UNCHANGED <<member, role, served>>

\* The columns that a change of the status writes.
WithStatus(t, s) == [tenant[t] EXCEPT !.status = s, !.deleted = (s = "cancelled")]

\* One statement that brings a tenant into status s; it fails when the slug
\* was given away.
Save(r, t, s) ==
    /\ (s # "cancelled" => SlugSettled(t, tenant[t].slug))
    /\ tenant' = IF s # "cancelled" /\ ~SlugFree(t, tenant[t].slug) THEN tenant
                 ELSE [tenant EXCEPT ![t] = WithStatus(t, s)]
    /\ Leave(r)
    /\ UNCHANGED <<member, role, served>>

\* platform_update_tenant_status: a tenant that is deleted can only be made
\* active.
SetStatus(r) ==
    LET d == request[r].do
    IN  /\ Doing(r, "setStatus") /\ request[r].at = "arrived"
        /\ IF tenant[d.tenant].deleted => d.status = "active"
           THEN Save(r, d.tenant, d.status)
           ELSE Leave(r) /\ UNCHANGED <<member, role, tenant, served>>

\* TenantAdministrationService.transition reads the status ...
Allowed == [suspend |-> {"active"}, reactivate |-> {"suspended"},
            deactivate |-> {"active", "suspended"}, activate |-> {"cancelled"}]
Leads == [suspend |-> "suspended", reactivate |-> "active", deactivate |-> "cancelled",
          activate |-> "active"]

CheckTransition(r) ==
    LET d == request[r].do
    IN  /\ Doing(r, "transition") /\ request[r].at = "arrived"
        /\ IF /\ tenant[d.tenant].status \in Allowed[d.action]
              /\ tenant[d.tenant].deleted => d.action = "activate"
           THEN Proceeds(r, "checked") ELSE Leave(r)
        /\ UNCHANGED <<member, role, tenant, served>>

\* ... and writes the one that follows, whatever it is now.
SaveTransition(r) ==
    /\ Doing(r, "transition") /\ request[r].at = "checked"
    /\ Save(r, request[r].do.tenant, Leads[request[r].do.action])

\* The users, branches and audit events that keep a tenant from being deleted.
Protected(t) == {"user", "branch"} \cap tenant[t].parts # {}

\* platform_delete_tenant, and TenantAdministrationService.delete.
DeleteTenant(r) ==
    LET t == request[r].do.tenant
    IN  /\ Doing(r, "deleteTenant") /\ request[r].at = "arrived"
        /\ tenant' = IF Protected(t) \/ tenant[t].deleted THEN tenant
                     ELSE [tenant EXCEPT ![t] = WithStatus(t, "cancelled")]
        /\ Leave(r)
        /\ UNCHANGED <<member, role, served>>

\* PATCH /platform/tenants/:tenantId/modules/:code: a core module cannot be
\* disabled, the tenant has to live ...
CheckModule(r) ==
    LET d == request[r].do
    IN  /\ Doing(r, "patchModule") /\ request[r].at = "arrived"
        /\ IF (d.module \in CoreModules => d.enabled) /\ ~tenant[d.tenant].deleted
           THEN Proceeds(r, "checked") ELSE Leave(r)
        /\ UNCHANGED <<member, role, tenant, served>>

\* ... and the entitlement is inserted or updated.
SaveModule(r) ==
    LET d == request[r].do
    IN  /\ Doing(r, "patchModule") /\ request[r].at = "checked"
        /\ tenant' = [tenant EXCEPT ![d.tenant].modules =
                        IF d.enabled THEN @ \cup {d.module} ELSE @ \ {d.module}]
        /\ Leave(r)
        /\ UNCHANGED <<member, role, served>>

PlatformNext ==
    \E r \in Requests :
        \/ \E d \in Operations : Arrive(r, d)
        \/ LockIdentity(r) \/ AddMember(r) \/ LockMember(r) \/ SaveMember(r)
        \/ CreateRole(r) \/ PatchRole(r) \/ LockRole(r) \/ PutPermissions(r)
        \/ InsertTenant(r) \/ InsertPart(r) \/ Rollback(r)
        \/ SetStatus(r) \/ CheckTransition(r) \/ SaveTransition(r) \/ DeleteTenant(r)
        \/ CheckModule(r) \/ SaveModule(r)

PlatformSpec == PlatformInit /\ [][PlatformNext]_platformVars

------------------------------------------------------------------------------
(* Properties.                                                             *)

\* However requests interleave, the roles of a member and the permissions of a
\* role are those that one request gave, never a mixture of two.
GivenByOneRequest ==
    /\ \A m \in Members : member[m].roles \in RoleSets \cup {{}, {Owner}}
    /\ \A o \in Roles : role[o].keys \in KeySets \cup {{}}

\* A tenant that can be seen has all that its administrator needs, and its
\* core modules, whatever failed while it was created and whatever was
\* switched since; and it is deleted just when it is cancelled, whichever of
\* the two administrations changed its status last.
TenantsWhole ==
    \A t \in Tenants : tenant[t].visible =>
        /\ tenant[t].parts = {Parts[i] : i \in DOMAIN Parts}
        /\ CoreModules \subseteq tenant[t].modules
        /\ tenant[t].deleted <=> tenant[t].status = "cancelled"

\* An identity that is added, suspended, added again and reactivated has one
\* active membership at most, so that suspending it suffices; and one tenant at
\* most lives under a slug, also when one was cancelled, its slug given away
\* and the first activated again.
HeldOnce ==
    /\ \A m, n \in Members :
          /\ member[m].status = "active" /\ member[n].status = "active"
          /\ member[m].identity = member[n].identity
          => m = n
    /\ \A t, u \in Tenants :
          /\ tenant[t].slug = tenant[u].slug /\ tenant[t].slug # None
          /\ ~tenant[t].deleted /\ ~tenant[u].deleted
          => t = u
==============================================================================
