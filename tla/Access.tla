------------------------------- MODULE Access -------------------------------
(***************************************************************************)
(* Who may do what in a tenant: roles, the permissions of roles, the roles *)
(* of a user, the modules of the tenant, the branches of the user and the  *)
(* branch the user's session works in.  A business request is checked      *)
(* twice, by the middleware of its route and by the service it calls, and  *)
(* every check is a query of its own; administrators change each of those  *)
(* tables between any two of them.  The module follows one user, whom all  *)
(* the administration is about.                                            *)
(*                                                                         *)
(* Handlers of one transaction are one step.  Those that read in one       *)
(* statement and write in a later one without a lock are a request that    *)
(* moves through a position for every statement: DELETE of a role,         *)
(* assignment of a role, replacement of a role's permissions, the choice   *)
(* of a branch and the change of the default branch.                       *)
(***************************************************************************)
EXTENDS FiniteSets

CONSTANTS
    Roles,          \* rows of the table roles
    Codes,          \* role codes
    Permissions,    \* permission keys
    WorkPermission, \* the key that the business route asks for
    Branches,       \* the active branches of the tenant
    OpenYears,      \* the branches whose financial year is open
    Works,          \* requests of the user
    Admins,         \* requests of administrators that need several statements
    None            \* no role, no branch

ASSUME AccessAssumption ==
    /\ WorkPermission \in Permissions
    /\ OpenYears \subseteq Branches
    /\ Works \cap Admins = {}
    /\ None \notin Roles \cup Branches

Calls == Works \cup Admins
Checks == {"module", "branch", "permission"}

VARIABLES
    active,     \* the user's status is active
    role,       \* [Roles -> status, code, whether the role is a system role]
    grants,     \* role_permissions
    assigned,   \* the roles of the user
    sales,      \* the sales module is enabled for the tenant
    access,     \* user_branch_access
    default,    \* the user's default branch
    working,    \* the branch of the user's session
    call,       \* what each request is doing
    denied      \* history: the checks that failed throughout a request of Works

authorizationVars ==
    <<active, role, grants, assigned, sales, access, default, working, call, denied>>
roleTables == <<role, grants, assigned>>
branchTables == <<access, default, working>>

Role == [status : {"none", "live", "deleted"}, code : Codes, system : BOOLEAN]
NoCall == [at |-> "idle", role |-> None, branch |-> None, keys |-> {}, doomed |-> {}]
Call ==
    [at : {"idle", "route", "routePermission", "module", "branch", "permission", "write",
           "deleting", "assigning", "replacing", "inserting",
           "context", "contextYear", "contextWrite", "default"},
     role : Roles \cup {None}, branch : Branches \cup {None},
     keys : SUBSET Permissions, doomed : SUBSET Permissions]

AccessTypeOK ==
    /\ active \in BOOLEAN /\ sales \in BOOLEAN
    /\ role \in [Roles -> Role]
    /\ grants \subseteq Roles \X Permissions
    /\ assigned \subseteq Roles
    /\ access \subseteq Branches
    /\ {default, working} \subseteq Branches \cup {None}
    /\ call \in [Calls -> Call]
    /\ \A r \in Calls : call[r].at = "idle" => call[r] = NoCall
    /\ denied \in [Works -> SUBSET Checks]

------------------------------------------------------------------------------
(* What the queries answer. *)

Live(x) == role[x].status = "live"

\* getPermissionKeysForUser: the keys of the live roles of an active user.
PermissionKeys ==
    IF active THEN {p \in Permissions : \E x \in assigned : Live(x) /\ <<x, p>> \in grants}
    ELSE {}

\* hasPermission
HasPermission(p) == p \in PermissionKeys

\* isModuleEnabled
ModuleEnabled == sales

\* hasBranchAccess and hasFinancialYearAccess.
BranchAllowed(b) == b \in access
YearOpen(b) == b \in OpenYears

\* The context of the request: the branch of the session, or else the default.
ContextBranch == IF working # None THEN working ELSE default

\* uq_tenant_role_code_active: a code is free when no other live role has it.
CodeFree(x, c) == \A y \in Roles \ {x} : ~(Live(y) /\ role[y].code = c)

\* What is true now of the user and of the branch of request r, stated apart
\* from the queries.
Holds(r) ==
    {c \in Checks :
        \/ c = "module" /\ sales
        \/ c = "branch" /\ call[r].branch \in access
        \/ /\ c = "permission" /\ active
           /\ \E x \in Roles : /\ role[x].status = "live" /\ x \in assigned
                               /\ <<x, WorkPermission>> \in grants}

AccessInit ==
    /\ active = TRUE /\ sales \in BOOLEAN
    /\ role \in [Roles -> {[status |-> s, code |-> c, system |-> FALSE] :
                              s \in {"none", "live"}, c \in Codes}]
    /\ \A x, y \in Roles : Live(x) /\ Live(y) /\ role[x].code = role[y].code => x = y
    /\ grants = {} /\ assigned = {}
    /\ access = Branches /\ default \in Branches /\ working = None
    /\ call = [r \in Calls |-> NoCall]
    /\ denied = [r \in Works |-> Checks]

------------------------------------------------------------------------------
(* The requests of the user. *)

Move(r, from, to) ==
    /\ call[r].at = from
    /\ call' = [call EXCEPT ![r].at = to]

EndCall(r) == call' = [call EXCEPT ![r] = NoCall]

tables == <<active, role, grants, assigned, sales, access, default, working>>

\* requireAuth: the session is looked up with its active user.
Arrive(r) ==
    /\ active /\ call[r].at = "idle" /\ ContextBranch # None
    /\ call' = [call EXCEPT ![r] = [NoCall EXCEPT !.at = "route", !.branch = ContextBranch]]
    /\ UNCHANGED tables

\* requirePermission of the route: first the module, then the permission.
RouteModule(r) == ModuleEnabled /\ Move(r, "route", "routePermission") /\ UNCHANGED tables
RoutePermission(r) ==
    HasPermission(WorkPermission) /\ Move(r, "routePermission", "module") /\ UNCHANGED tables

\* authorize of the service: the module, the branch and its year, the permission.
ServiceModule(r) == ModuleEnabled /\ Move(r, "module", "branch") /\ UNCHANGED tables
\* mutant: the branch of the session is taken as allowed
SessionBranch(r) ==
    /\ call[r].branch # None /\ YearOpen(call[r].branch)
    /\ Move(r, "branch", "permission") /\ UNCHANGED tables
ServiceBranch(r) ==
    /\ BranchAllowed(call[r].branch) /\ YearOpen(call[r].branch)
    /\ Move(r, "branch", "permission") /\ UNCHANGED tables
ServicePermission(r) ==
    HasPermission(WorkPermission) /\ Move(r, "permission", "write") /\ UNCHANGED tables

\* The check of the position does not hold: the request is refused.
Refused(r) ==
    /\ \/ call[r].at \in {"route", "module"} /\ ~ModuleEnabled
       \/ call[r].at \in {"routePermission", "permission"} /\ ~HasPermission(WorkPermission)
       \/ call[r].at = "branch" /\ ~(BranchAllowed(call[r].branch) /\ YearOpen(call[r].branch))
    /\ EndCall(r) /\ UNCHANGED tables

Write(r) == call[r].at = "write" /\ EndCall(r) /\ UNCHANGED tables

------------------------------------------------------------------------------
(* The branch that the session works in: POST /auth/context/branch. *)

ChooseBranch(r, b) ==
    /\ active /\ call[r].at = "idle" /\ BranchAllowed(b)
    /\ call' = [call EXCEPT ![r] = [NoCall EXCEPT !.at = "contextYear", !.branch = b]]
    /\ UNCHANGED tables

\* The financial year is valid: the service looks at the access once more.
ChooseYear(r) ==
    /\ call[r].at = "contextYear"
    /\ IF YearOpen(call[r].branch) THEN Move(r, "contextYear", "context") ELSE EndCall(r)
    /\ UNCHANGED tables

AllowAgain(r) ==
    /\ call[r].at = "context"
    /\ IF BranchAllowed(call[r].branch) THEN Move(r, "context", "contextWrite") ELSE EndCall(r)
    /\ UNCHANGED tables

\* updateSessionContext
SetContext(r) ==
    /\ call[r].at = "contextWrite"
    /\ working' = call[r].branch
    /\ EndCall(r)
    /\ UNCHANGED <<active, sales, roleTables, access, default>>

------------------------------------------------------------------------------
(* Roles: routes/rbac.ts. *)

noRequest == <<call, active, sales, branchTables>>

InsertRole(x, c, s) == role' = [role EXCEPT ![x] = [status |-> "live", code |-> c, system |-> s]]
ChangeRole(x, c, s) == role' = [role EXCEPT ![x].code = c, ![x].system = s]
SetDeleted(x, status) == role' = [role EXCEPT ![x].status = status]

CreateRole(x, c, s) ==
    /\ role[x].status = "none" /\ CodeFree(x, c)
    /\ InsertRole(x, c, s)
    /\ UNCHANGED <<grants, assigned, noRequest>>

\* A PATCH may change the code and the system flag of any live role.
UpdateRole(x, c, s) ==
    /\ Live(x) /\ CodeFree(x, c)
    /\ ChangeRole(x, c, s)
    /\ UNCHANGED <<grants, assigned, noRequest>>

ActivateRole(x) ==
    /\ role[x].status = "deleted" /\ ~role[x].system
    /\ CodeFree(x, role[x].code)
    /\ SetDeleted(x, "live")
    /\ UNCHANGED <<grants, assigned, noRequest>>

\* Deactivation asks nothing about the users of the role.
DeactivateRole(x) ==
    /\ Live(x) /\ ~role[x].system
    /\ SetDeleted(x, "deleted")
    /\ UNCHANGED <<grants, assigned, noRequest>>

\* The role is not seen as a system role and is assigned to nobody.
DeleteFinds(r, x) ==
    /\ call[r].at = "idle"
    /\ ~(Live(x) /\ role[x].system) /\ x \notin assigned
    /\ call' = [call EXCEPT ![r] = [NoCall EXCEPT !.at = "deleting", !.role = x]]
    /\ UNCHANGED tables

\* The UPDATE that follows repeats neither question.
DeleteRole(r) ==
    /\ call[r].at = "deleting"
    /\ IF Live(call[r].role) THEN SetDeleted(call[r].role, "deleted") ELSE UNCHANGED role
    /\ EndCall(r)
    /\ UNCHANGED <<active, sales, grants, assigned, branchTables>>

\* The user is active and the role live.
AssignFinds(r, x) ==
    /\ call[r].at = "idle" /\ active /\ Live(x)
    /\ call' = [call EXCEPT ![r] = [NoCall EXCEPT !.at = "assigning", !.role = x]]
    /\ UNCHANGED tables

InsertUserRole(x) == assigned' = assigned \cup {x}

AssignRole(r) ==
    /\ call[r].at = "assigning"
    /\ InsertUserRole(call[r].role)
    /\ EndCall(r)
    /\ UNCHANGED <<active, sales, role, grants, branchTables>>

RemoveRole(x) == assigned' = assigned \ {x}

RevokeRole(x) ==
    /\ x \in assigned
    /\ RemoveRole(x)
    /\ UNCHANGED <<role, grants, noRequest>>

------------------------------------------------------------------------------
(* The permissions of a role. *)

KeysOf(x) == {p \in Permissions : <<x, p>> \in grants}

\* The rows that replacements of the role have deleted and not committed.
Deleted(x) ==
    UNION {call[r].doomed : r \in {r \in Calls : call[r].at = "inserting" /\ call[r].role = x}}

InsertPermissions(x, keys) == grants' = grants \cup ({x} \X keys)
RemovePermissions(x, keys) == grants' = grants \ ({x} \X keys)

\* POST: the insertion waits for a deletion of the same row.
GrantPermissions(x, keys) ==
    /\ Live(x) /\ keys \cap Deleted(x) = {}
    /\ InsertPermissions(x, keys)
    /\ UNCHANGED <<role, assigned, noRequest>>

\* DELETE: of a role in any status; it waits in the same way.
RevokePermissions(x, keys) ==
    /\ keys \cap Deleted(x) = {}
    /\ RemovePermissions(x, keys)
    /\ UNCHANGED <<role, assigned, noRequest>>

\* PUT: the role is found in one statement, its rows are deleted in the next
\* and the new ones inserted after that; the role's row is not locked.
ReplaceFinds(r, x, keys) ==
    /\ call[r].at = "idle" /\ Live(x)
    /\ call' = [call EXCEPT ![r] = [NoCall EXCEPT !.at = "replacing", !.role = x, !.keys = keys]]
    /\ UNCHANGED tables

ReplaceDeletes(r) ==
    /\ call[r].at = "replacing"
    /\ call' = [call EXCEPT ![r].at = "inserting", ![r].doomed = KeysOf(call[r].role)]
    /\ UNCHANGED tables

\* The insertion and the commit.  A row that another replacement was going to
\* delete is gone by then, and the row inserted for its key is not deleted.
ReplacePermissions(r) ==
    LET x == call[r].role IN
    /\ call[r].at = "inserting"
    /\ grants' = (grants \ ({x} \X call[r].doomed)) \cup ({x} \X call[r].keys)
    /\ call' = [q \in Calls |->
                   IF q = r THEN NoCall
                   ELSE IF call[q].role = x
                        THEN [call[q] EXCEPT !.doomed = @ \ call[r].doomed]
                        ELSE call[q]]
    /\ UNCHANGED <<active, sales, role, assigned, branchTables>>

------------------------------------------------------------------------------
(* Modules, the user and the user's branches. *)

\* The upsert of the service; sales is not a core module, which stays enabled.
SetTenantModule(on) ==
    /\ sales' = on
    /\ UNCHANGED <<call, active, roleTables, branchTables>>

\* POST /auth/modules/sales/enable, disable
EnableModule == SetTenantModule(TRUE)
DisableModule == SetTenantModule(FALSE)

SetStatus(on) == active' = on

\* POST /tenants/current/members/:userId/activate, deactivate, delete
SetMemberStatus(on) ==
    /\ SetStatus(on)
    /\ UNCHANGED <<call, sales, roleTables, branchTables>>

\* PATCH of a member with a default branch: the access is looked up in a
\* transaction of its own.
UpdateMemberFinds(r, b) ==
    /\ call[r].at = "idle" /\ BranchAllowed(b)
    /\ call' = [call EXCEPT ![r] = [NoCall EXCEPT !.at = "default", !.branch = b]]
    /\ UNCHANGED tables

\* The same UPDATE may carry a status.
UpdateMember(r, on) ==
    /\ call[r].at = "default"
    /\ default' = call[r].branch
    /\ SetStatus(on)
    /\ EndCall(r)
    /\ UNCHANGED <<sales, roleTables, access, working>>

RemoveAccess(b) == access' = access \ {b}

\* DELETE of a branch access leaves the session and the default as they are.
RevokeBranchAccess(b) ==
    /\ b \in access
    /\ RemoveAccess(b)
    /\ UNCHANGED <<call, active, sales, roleTables, default, working>>

------------------------------------------------------------------------------
Work(r) ==
    \/ Arrive(r)
    \/ RouteModule(r)
    \/ RoutePermission(r)
    \/ ServiceModule(r)
    \/ ServiceBranch(r)
    \/ ServicePermission(r)
    \/ Refused(r)
    \/ Write(r)
    \/ \E b \in Branches : ChooseBranch(r, b)
    \/ ChooseYear(r)
    \/ AllowAgain(r)
    \/ SetContext(r)

AdministerAccess(r) ==
    \/ \E x \in Roles : DeleteFinds(r, x) \/ AssignFinds(r, x)
    \/ \E x \in Roles, keys \in SUBSET Permissions : ReplaceFinds(r, x, keys)
    \/ \E b \in Branches : UpdateMemberFinds(r, b)
    \/ DeleteRole(r)
    \/ AssignRole(r)
    \/ ReplaceDeletes(r)
    \/ ReplacePermissions(r)
    \/ \E on \in BOOLEAN : UpdateMember(r, on)

Manage ==
    \/ \E x \in Roles, c \in Codes, s \in BOOLEAN : CreateRole(x, c, s) \/ UpdateRole(x, c, s)
    \/ \E x \in Roles : ActivateRole(x) \/ DeactivateRole(x) \/ RevokeRole(x)
    \/ \E x \in Roles, keys \in (SUBSET Permissions) \ {{}} :
          GrantPermissions(x, keys) \/ RevokePermissions(x, keys)
    \/ EnableModule
    \/ DisableModule
    \/ \E on \in BOOLEAN : SetMemberStatus(on)
    \/ \E b \in Branches : RevokeBranchAccess(b)

\* The history of a request begins when the request does.
Observe ==
    denied' = [r \in Works |->
                  IF call'[r].at = "idle" THEN Checks ELSE denied[r] \ (Holds(r) \cup Holds(r)')]

AccessNext ==
    /\ \/ \E r \in Works : Work(r)
       \/ \E r \in Admins : AdministerAccess(r)
       \/ Manage
    /\ Observe

AccessSpec == AccessInit /\ [][AccessNext]_authorizationVars

------------------------------------------------------------------------------
(* Properties. *)

\* What was taken away before a request began is not used by it: when it comes
\* to write, the module, the branch access and the permission it needs were
\* each there at some moment since it began, whatever the session says and
\* whichever way they were taken: by the user, the role, the assignment, the
\* grant, the module or the branch (requirePermission and authorize).
RevocationHolds ==
    \A r \in Works : call[r].at = "write" => denied[r] = {}

==============================================================================
