------------------------------ MODULE Deployment ------------------------------
(***************************************************************************)
(* The commands that make a database ready: provisioning (migration role,  *)
(* migrations, security bootstrap, platform administrator, verification),  *)
(* the security bootstrap and the administrator seed on their own, the     *)
(* operator's one-time bootstrap and recovery, and the reference data.     *)
(* Each process runs one of them; two releases may be deployed at once,    *)
(* and a process may die at any statement and be started again.  Tenant    *)
(* users are saved and retired, and administrators appoint and dismiss     *)
(* others, while the commands run.                                         *)
(*                                                                         *)
(* Migrations are numbered in the order of the journal.  A transaction is  *)
(* one step when nothing that it read before can be changed by another     *)
(* process; the administrator seed and the operator's commands read in one *)
(* step and write in another, under locks of different keys.               *)
(***************************************************************************)
EXTENDS Integers, Sequences, FiniteSets

CONSTANTS
    Processes,
    Newest,     \* the migrations of the newest release are 1 .. Newest
    Oldest,     \* those of the oldest release are 1 .. Oldest
    Checked,    \* migrations whose presence in the schema can be recognised
    Exact,      \* of these, those that are compared in every detail
    Creating,   \* of these, those whose file fails over its own effects
    SelfCommitting, \* migrations whose file has a BEGIN and a COMMIT of its own
    Loosening,  \* migrations that grant what the security bootstrap revokes
    Tasks,      \* the commands that the processes of an instance carry out
    Usernames, Emails, \* the identifiers in the environment of the commands
    Users,      \* the identities of tenant users
    MaxRuns,    \* bound: how often a process is started
    MaxDismissals, \* bound: how many identities are dismissed
    Nobody      \* no process and no user

ASSUME DeploymentAssumption ==
    /\ Oldest \in Nat \ {0} /\ Newest \in Nat /\ Oldest <= Newest
    /\ MaxRuns \in Nat
    /\ Exact \subseteq Creating /\ Creating \subseteq Checked
    /\ Checked \cup SelfCommitting \cup Loosening \subseteq 1 .. Newest
    /\ 1 \in Creating \ Exact /\ Checked \cap SelfCommitting = {}
    /\ Nobody \notin Processes \cup Users /\ Processes \cap Users = {}
    /\ Usernames \cap Emails = {}
    /\ Tasks \subseteq {"provision", "secure", "seed", "reference", "bootstrap", "recover"}
    /\ MaxDismissals \in Nat

VARIABLES
    history,    \* how the migration table relates to the schema at first
    tracked,    \* the migrations recorded in __drizzle_migrations
    schema,     \* what the database has of each migration
    migrationRole, \* the role erp exists
    hardened,   \* the parts of the security contract that hold
    admins,     \* identities with an active platform membership
    dismissed,  \* those whose membership was suspended or revoked once
    login,      \* the rows of auth_login_identifiers
    used,       \* how often each operation of the operator was carried out
    seeded,     \* the reference rows that exist
    process     \* job, release, identifiers, position, migration, and what it read

deploymentVars == <<history, tracked, schema, migrationRole, hardened, admins, dismissed, login,
                    used, seeded, process>>
adminTables == <<admins, dismissed, login, used>>
migrationTables == <<tracked, schema>>

Migrations == 1 .. Newest
Commands == {"provision", "secure", "seed", "reference", "bootstrap", "recover"}
OperatorCommands == {"bootstrap", "recover"}
Contract == {"roles", "functions", "grants", "ownership", "rls"}

\* What the database has of a migration: nothing; not all objects by which it
\* is recognised; these objects, though the rest may differ; all of it.
Presence == {"absent", "partial", "similar", "complete"}

\* An identity that a command creates is named for its process.
AllIdentities == Processes \cup Users

\* A row of auth_login_identifiers: its identity, and the user whose saving
\* wrote it.  Without an owner there is no row.
Login == [owner : AllIdentities \cup {Nobody}, user : Users \cup {Nobody}, active : BOOLEAN]
NoLogin == [owner |-> Nobody, user |-> Nobody, active |-> FALSE]

\* The rows of the reference data, in the order in which they are written.
PlanRows == <<"plan">>
ModuleRows == <<"module">>
PermissionRows == <<"permission">>
ActionPermissionRows == <<"actionPermission">>
ManufacturingPermissionRows == <<"manufacturingPermission">>
WorkflowPermissionRows == <<"workflowPermission">>
PlatformRows == <<"platformPermission", "platformRole", "rolePermission">>
ReferenceRows ==
    PlanRows \o ModuleRows \o PermissionRows \o ActionPermissionRows
        \o ManufacturingPermissionRows \o WorkflowPermissionRows \o PlatformRows

AllRows == {ReferenceRows[i] : i \in DOMAIN ReferenceRows}

Process ==
    [job : Commands, release : {Oldest, Newest}, username : Usernames, email : Emails,
     runs : 0 .. MaxRuns,
     at : {"idle", "role", "createRole", "preflight", "lock", "migrate", "apply", "mark",
           "security", "seed", "seedWrite", "verify", "operate", "operateWrite", "rows",
           "done", "failed"},
     next : 1 .. Newest + 1, row : 1 .. Len(ReferenceRows) + 1,
     identity : AllIdentities \cup {Nobody}]

Sectioned == {"migrate", "apply", "mark"}
Seeding == {"seedWrite"}
Operating == {"operateWrite"}

DeploymentTypeOK ==
    /\ history \in {"intact", "edited", "lost", "foreign"}
    /\ tracked \subseteq Migrations \cup {0}
    /\ schema \in [Migrations -> Presence]
    /\ migrationRole \in BOOLEAN
    /\ hardened \subseteq Contract
    /\ admins \subseteq AllIdentities /\ dismissed \subseteq AllIdentities
    /\ login \in [Usernames \cup Emails -> Login]
    /\ used \in [OperatorCommands -> Nat]
    /\ seeded \subseteq AllRows
    /\ process \in [Processes -> Process]
    /\ \A p \in Processes : process[p].identity # Nobody => process[p].at \in Seeding \cup Operating
    /\ \A p \in Processes : process[p].next > 1 => process[p].at \in Sectioned

\* The first k migrations, of which e is there in the form s.
Schema(k, e, s) ==
    [m \in Migrations |-> IF m > k THEN "absent" ELSE IF m = e THEN s ELSE "complete"]

\* A new database, or one that an earlier release provisioned; one in which the
\* file of a migration was edited after it was recorded, so that the schema may
\* differ from the file; one whose migration table was lost, where one
\* migration may differ; one with the history of another journal.
SchemaInit ==
    \E k \in 0 .. Oldest :
       \/ /\ history = "intact" /\ tracked = 1 .. k
          /\ schema = Schema(k, 0, "complete")
       \/ \E e \in 1 .. k, s \in Presence \ {"absent"} :
             /\ schema = Schema(k, e, s)
             /\ \/ history = "edited" /\ tracked = (1 .. k \ {e}) \cup {0}
                \/ history = "lost" /\ tracked = {}
       \/ /\ history = "foreign" /\ tracked = {0}
          /\ \E s \in Presence : k = 1 /\ schema = Schema(1, 1, s)

DeploymentInit ==
    /\ SchemaInit
    /\ migrationRole = FALSE /\ hardened = {}
    /\ admins = {} \/ (schema[1] # "absent" /\ admins \in SUBSET Users)
    /\ dismissed = {} /\ login = [l \in Usernames \cup Emails |-> NoLogin]
    /\ used = [o \in OperatorCommands |-> 0]
    /\ seeded = {} \/ (tracked = 1 .. Oldest /\ seeded = AllRows)
    /\ process \in [Processes ->
          {[job |-> j, release |-> r, username |-> n, email |-> a, runs |-> 0, at |-> "idle",
            next |-> 1, row |-> 1, identity |-> Nobody] :
              j \in Tasks, r \in {Oldest, Newest}, n \in Usernames, a \in Emails}]
    /\ \A p \in Processes : process[p].job # "provision" => process[p].release = Newest

------------------------------------------------------------------------------
(* Positions.                                                              *)

Start == [provision |-> "role", secure |-> "security", seed |-> "seed",
          reference |-> "rows", bootstrap |-> "operate", recover |-> "operate"]

\* mutant: the administrator and the security bootstrap come before the migrations
SecurityFirst(at) ==
    CASE at = "role" -> "preflight" [] at = "preflight" -> "security"
      [] at = "security" -> "seed" [] at = "seed" -> "lock"
      [] at = "lock" -> "verify" [] OTHER -> "done"

\* provisionDatabase: the stages in order.
After(at) ==
    CASE at = "role" -> "preflight" [] at = "preflight" -> "lock"
      [] at = "lock" -> "security" [] at = "security" -> "seed"
      [] at = "seed" -> "verify" [] OTHER -> "done"

\* The process leaves stage at, to the next one when it provisions.
Finish(p, at) ==
    process' = [process EXCEPT
        ![p].at = IF process[p].job = "provision" THEN After(at) ELSE "done",
        ![p].next = 1, ![p].row = 1, ![p].identity = Nobody]

\* An error: what is open is rolled back, session locks end with the session.
Fail(p) ==
    process' = [process EXCEPT
        ![p].at = "failed", ![p].next = 1, ![p].row = 1, ![p].identity = Nobody]
Move(p, at) == process' = [process EXCEPT ![p].at = at]

Begin(p) ==
    /\ process[p].at \in {"idle", "failed", "done"} /\ process[p].runs < MaxRuns
    /\ process' = [process EXCEPT ![p].at = Start[process[p].job], ![p].runs = @ + 1]
    /\ UNCHANGED <<history, migrationTables, migrationRole, hardened, adminTables, seeded>>

\* The death of a process.
Die(p) ==
    /\ process[p].at \notin {"idle", "failed", "done"} /\ process[p].runs < MaxRuns
    /\ Fail(p)
    /\ UNCHANGED <<history, migrationTables, migrationRole, hardened, adminTables, seeded>>

------------------------------------------------------------------------------
(* The migration role and the preflight.                                   *)

\* The role is looked up ...
FindRole(p) ==
    /\ process[p].at = "role"
    /\ IF migrationRole THEN Finish(p, "role") ELSE Move(p, "createRole")
    /\ UNCHANGED <<history, migrationTables, migrationRole, hardened, adminTables, seeded>>

\* ... and created, unless another process did so meanwhile.
CreateMigrationRole(p) ==
    /\ process[p].at = "createRole"
    /\ migrationRole' = TRUE
    /\ IF migrationRole THEN Fail(p) ELSE Finish(p, "role")
    /\ UNCHANGED <<history, migrationTables, hardened, adminTables, seeded>>

\* The three endpoints answer and name one database.
Preflight(p) ==
    /\ process[p].at = "preflight"
    /\ Finish(p, "preflight")
    /\ UNCHANGED <<history, migrationTables, migrationRole, hardened, adminTables, seeded>>

------------------------------------------------------------------------------
(* Migrations.                                                             *)

\* mutant: no lock is taken
AnyoneMigrates(p) == TRUE

\* mutant: the lock is a row, which a process that died leaves behind
HeldByTheDead(p) == \A q \in Processes \ {p} : process[q].at \notin Sectioned \cup {"failed"}

\* The session lock of runMigrations is free.
MigrationLockFree(p) == \A q \in Processes \ {p} : process[q].at \notin Sectioned

\* migrationAlreadyTracked
Tracked(m) == m \in tracked

\* hasMigrationHistory
HasHistory == tracked # {}

\* runMigrations, up to its loop.
LockMigrations(p) ==
    /\ process[p].at = "lock"
    /\ MigrationLockFree(p)
    /\ IF ~Tracked(1) /\ HasHistory THEN Fail(p) ELSE Move(p, "migrate")
    /\ UNCHANGED <<history, migrationTables, migrationRole, hardened, adminTables, seeded>>

\* tableExists, functionExists and policyExists: an object of the migration.
ObjectExists(m) == schema[m] \in {"similar", "complete"}

\* mutant: the challenges table is only looked for
ChallengesExist(m) == ObjectExists(m)

\* pendingLoginChallengesMatchMigration: columns, constraints, indexes and
\* policies are those of the migration.
ChallengesMatch(m) == schema[m] = "complete"

\* migrationChecks
Present(m) ==
    m \in Checked /\ (IF m \in Exact THEN ChallengesMatch(m) ELSE ObjectExists(m))

\* markMigrationApplied
MarkApplied(m) == tracked' = tracked \cup {m}

\* One turn of the loop: skip what is tracked, record what is present, and
\* begin to apply the rest.
NextMigration(p) ==
    LET m == process[p].next
    IN  /\ process[p].at = "migrate"
        /\ \/ m > process[p].release /\ Finish(p, "lock") /\ UNCHANGED tracked
           \/ /\ m <= process[p].release /\ Tracked(m)
              /\ process' = [process EXCEPT ![p].next = m + 1]
              /\ UNCHANGED tracked
           \/ /\ m <= process[p].release /\ ~Tracked(m) /\ Present(m)
              /\ MarkApplied(m)
              /\ process' = [process EXCEPT ![p].next = m + 1]
           \/ /\ m <= process[p].release /\ ~Tracked(m) /\ ~Present(m)
              /\ Move(p, "apply")
              /\ UNCHANGED tracked
        /\ UNCHANGED <<history, schema, migrationRole, hardened, adminTables, seeded>>

\* applyMigrationFile: a migration that creates what exists fails.  The others
\* replace it, or leave a table that exists as it is, which may differ.
Applies(m) == m \in Creating => schema[m] = "absent"
Results(m) ==
    IF schema[m] \in {"absent", "complete"} THEN {"complete"} ELSE {"similar", "complete"}

\* BEGIN, the file, the record, COMMIT.  A file with a COMMIT of its own is
\* committed before it is recorded.
ApplyMigration(p) ==
    LET m == process[p].next
    IN  /\ process[p].at = "apply"
        /\ IF Applies(m)
           THEN /\ \E s \in Results(m) : schema' = [schema EXCEPT ![m] = s]
                /\ hardened' = IF m \in Loosening THEN hardened \ {"ownership"} ELSE hardened
                /\ IF m \in SelfCommitting
                   THEN Move(p, "mark") /\ UNCHANGED tracked
                   ELSE /\ MarkApplied(m)
                        /\ process' = [process EXCEPT ![p].at = "migrate", ![p].next = m + 1]
           ELSE Fail(p) /\ UNCHANGED <<migrationTables, hardened>>
        /\ UNCHANGED <<history, migrationRole, adminTables, seeded>>

RecordMigration(p) ==
    LET m == process[p].next
    IN  /\ process[p].at = "mark"
        /\ MarkApplied(m)
        /\ process' = [process EXCEPT ![p].at = "migrate", ![p].next = m + 1]
        /\ UNCHANGED <<history, schema, migrationRole, hardened, adminTables, seeded>>

------------------------------------------------------------------------------
(* The security bootstrap.                                                 *)

\* verifyPlatformSecurity, part by part.
RolesHardened(h) == migrationRole /\ "roles" \in h
FunctionsOwned(h) == "functions" \in h
GrantsRevoked(h) == "grants" \in h
NothingOwned(h) == "ownership" \in h
RowSecurityForced(h) == "rls" \in h

VerifyPlatformSecurity(h) ==
    /\ RolesHardened(h) /\ FunctionsOwned(h) /\ GrantsRevoked(h)
    /\ NothingOwned(h) /\ RowSecurityForced(h)

\* Whether statements that use the objects of the baseline succeed: they may,
\* or may not, when it differs from its file.
Serves == IF schema[1] \in {"absent", "complete"} THEN {schema[1] = "complete"} ELSE BOOLEAN

\* platform-security.sql establishes what the schema has the objects for.
ScriptEstablishes(ok) ==
    {"roles", "grants", "ownership"} \cup (IF ok THEN {"functions", "rls"} ELSE {})

\* The script and its verification in one transaction.
BootstrapSecurity(p) ==
    /\ process[p].at = "security"
    /\ \E ok \in Serves :
         IF VerifyPlatformSecurity(ScriptEstablishes(ok))
         THEN hardened' = ScriptEstablishes(ok) /\ Finish(p, "security")
         ELSE UNCHANGED hardened /\ Fail(p)
    /\ UNCHANGED <<history, migrationTables, migrationRole, adminTables, seeded>>

------------------------------------------------------------------------------
(* The platform administrator.                                             *)

\* mutant: the seed takes no advisory lock
AnyoneSeeds(p) == TRUE

\* pg_advisory_xact_lock('platform-admin-seed-v1')
SeedLockFree(p) == \A q \in Processes \ {p} : process[q].at \notin Seeding

\* The row that a command writes for identity i.
Own(i) == [owner |-> i, user |-> Nobody, active |-> TRUE]

\* The identity of the username, whoever it is, is to be the administrator; one
\* is created for a username without a row when there is no administrator.
SeedFinds(p) ==
    LET name == login[process[p].username]
        mail == login[process[p].email]
        i    == IF name.active THEN name.owner ELSE p
    IN  /\ process[p].at = "seed"
        /\ SeedLockFree(p)
        /\ \E ok \in Serves :
             IF /\ ok
                /\ name.active \/ (admins = {} /\ name.owner = Nobody)
                /\ mail.active => mail.owner = i
             THEN process' = [process EXCEPT ![p].at = "seedWrite", ![p].identity = i]
             ELSE Fail(p)
        /\ UNCHANGED <<history, migrationTables, migrationRole, hardened, adminTables, seeded>>

\* The identity gets the username if it is new, the e-mail whoever has it now,
\* an active membership and the role, which is created when it is missing.
SeedWrites(p) ==
    LET i == process[p].identity
    IN  /\ process[p].at = "seedWrite"
        /\ login' = [login EXCEPT
               ![process[p].username] = IF @.owner = Nobody THEN Own(i) ELSE @,
               ![process[p].email] = Own(i)]
        /\ admins' = admins \cup {i}
        /\ seeded' = seeded \cup {"platformRole"}
        /\ Finish(p, "seed")
        /\ UNCHANGED <<history, migrationTables, migrationRole, hardened, dismissed, used>>

\* verifyProvisionedDatabase
Provisioned ==
    tracked # {} /\ "roles" \in hardened /\ admins # {} /\ "rls" \in hardened

Verify(p) ==
    /\ process[p].at = "verify"
    /\ IF Provisioned THEN Finish(p, "verify") ELSE Fail(p)
    /\ UNCHANGED <<history, migrationTables, migrationRole, hardened, adminTables, seeded>>

------------------------------------------------------------------------------
(* The operator's commands.                                                *)

\* pg_advisory_lock('platform-admin-bootstrap-v1')
OperatorLockFree(p) == \A q \in Processes \ {p} : process[q].at \notin Operating

\* The command is refused when it was used, when there is an administrator to
\* bootstrap, and when nobody has the e-mail to recover.
OperatorFinds(p) ==
    LET o    == process[p].job
        mail == login[process[p].email]
    IN  /\ process[p].at = "operate"
        /\ OperatorLockFree(p)
        /\ \E ok \in Serves :
             IF /\ ok /\ used[o] = 0
                /\ IF o = "bootstrap" THEN admins = {} ELSE mail.active
             THEN process' = [process EXCEPT ![p].at = "operateWrite",
                                  ![p].identity = IF o = "bootstrap" THEN p ELSE mail.owner]
             ELSE Fail(p)
        /\ UNCHANGED <<history, migrationTables, migrationRole, hardened, adminTables, seeded>>

\* The bootstrap takes the e-mail over; both activate a membership with the
\* role, which has to exist, and record the use.
OperatorWrites(p) ==
    LET o == process[p].job
        i == process[p].identity
    IN  /\ process[p].at = "operateWrite"
        /\ IF "platformRole" \in seeded
           THEN /\ login' = IF o = "bootstrap"
                            THEN [login EXCEPT ![process[p].email].owner = i,
                                               ![process[p].email].active = TRUE]
                            ELSE login
                /\ admins' = admins \cup {i}
                /\ used' = [used EXCEPT ![o] = @ + 1]
                /\ Finish(p, "operate")
                /\ UNCHANGED dismissed
           ELSE Fail(p) /\ UNCHANGED adminTables
        /\ UNCHANGED <<history, migrationTables, migrationRole, hardened, seeded>>

------------------------------------------------------------------------------
(* Tenant users and administrators, who use the application meanwhile.     *)

\* The row of username n is locked by a seed.
LockedName(n) == \E q \in Processes : process[q].at \in Seeding /\ process[q].username = n

\* sync_auth_login_identifiers: an active user takes identifier l over, whoever
\* had it.
SaveUser(u, l) ==
    /\ ObjectExists(1) /\ ~LockedName(l)
    /\ login' = [login EXCEPT ![l] = [owner |-> u, user |-> u, active |-> TRUE]]
    /\ UNCHANGED <<history, migrationTables, migrationRole, hardened, admins, dismissed, used,
                   seeded, process>>

\* The user is deactivated or deleted: all rows that saving it wrote end.
RetireUser(u) ==
    /\ \A l \in Usernames : login[l].user = u => ~LockedName(l)
    /\ \E l \in Usernames \cup Emails : login[l].user = u /\ login[l].active
    /\ login' = [l \in Usernames \cup Emails |->
                    [login[l] EXCEPT !.active = @ /\ login[l].user # u]]
    /\ UNCHANGED <<history, migrationTables, migrationRole, hardened, admins, dismissed, used,
                   seeded, process>>

\* POST /platform/members, or PATCH with the status active: by an administrator.
Appoint(i) ==
    /\ admins # {} /\ i \in (Users \cup dismissed) \ admins
    /\ admins' = admins \cup {i}
    /\ UNCHANGED <<history, migrationTables, migrationRole, hardened, dismissed, login, used,
                   seeded, process>>

\* PATCH with the status suspended or revoked, also of the last administrator.
\* (That a seed holds the row of one administrator is left out.)
Dismiss(i) ==
    /\ i \in admins /\ (i \in dismissed \/ Cardinality(dismissed) < MaxDismissals)
    /\ admins' = admins \ {i}
    /\ dismissed' = dismissed \cup {i}
    /\ UNCHANGED <<history, migrationTables, migrationRole, hardened, login, used, seeded, process>>

------------------------------------------------------------------------------
(* The reference data: a statement for every row, ON CONFLICT DO NOTHING.  *)

\* The owner's permissions are joined from the role and the permissions.
Joins(r) == r = "rolePermission" => {"platformRole", "platformPermission"} \subseteq seeded

SeedRow(p) ==
    LET r == ReferenceRows[process[p].row]
    IN  /\ process[p].at = "rows" /\ process[p].row <= Len(ReferenceRows)
        /\ \E ok \in Serves :
             IF ok
             THEN /\ seeded' = seeded \cup IF Joins(r) THEN {r} ELSE {}
                  /\ process' = [process EXCEPT ![p].row = @ + 1]
             ELSE Fail(p) /\ UNCHANGED seeded
        /\ UNCHANGED <<history, migrationTables, migrationRole, hardened, adminTables>>

SeedReferenceData(p) ==
    /\ process[p].at = "rows" /\ process[p].row > Len(ReferenceRows)
    /\ Finish(p, "rows")
    /\ UNCHANGED <<history, migrationTables, migrationRole, hardened, adminTables, seeded>>

Run(p) ==
    \/ FindRole(p) \/ CreateMigrationRole(p) \/ Preflight(p)
    \/ LockMigrations(p) \/ NextMigration(p) \/ ApplyMigration(p) \/ RecordMigration(p)
    \/ BootstrapSecurity(p) \/ SeedFinds(p) \/ SeedWrites(p) \/ Verify(p)
    \/ OperatorFinds(p) \/ OperatorWrites(p) \/ SeedRow(p) \/ SeedReferenceData(p)

DeploymentNext ==
    \/ \E p \in Processes : Begin(p) \/ Die(p) \/ Run(p)
    \/ \E u \in Users : (\E l \in Usernames \cup Emails : SaveUser(u, l)) \/ RetireUser(u)
    \/ \E i \in AllIdentities : Appoint(i) \/ Dismiss(i)

\* A running process goes on; nothing says that it is started or dies.  A lock
\* that others take and release is granted in the end, its queue is fair.
DeploymentFairness == \A p \in Processes : SF_deploymentVars(Run(p))

DeploymentSpec == DeploymentInit /\ [][DeploymentNext]_deploymentVars /\ DeploymentFairness

------------------------------------------------------------------------------
(* Properties.                                                             *)

\* There is what migration m describes.  Where the schema or the files were
\* changed behind the migration table, only the objects that are looked for are
\* known to be there, but for a migration that is compared in every detail.
There(m) ==
    schema[m] = "complete" \/ (history # "intact" /\ m \notin Exact /\ schema[m] = "similar")

\* A migration that is recorded is in the schema: as its file describes it in a
\* database whose files and table were left alone; at least the objects by which
\* it is recognised when it was recorded without being applied, or applied over
\* what an earlier form of its file left (runMigrations, migrationChecks).
RecordedIsThere ==
    \A m \in tracked \ {0} : There(m)

\* Two releases, crashes and files that commit themselves never make a
\* migration run over the effects of a later one, as long as the migration
\* table belongs to the schema.
NeverBehindALaterOne ==
    [][\A p \in Processes :
          history = "intact" /\ process[p].at = "apply" /\ process'[p].at # "failed"
             /\ process' # process /\ process[p] # process'[p]
          => \A m \in Migrations : m > process[p].next => schema[m] = "absent"]_deploymentVars

\* A command that succeeded leaves what it is for: provisioning, every
\* migration of its release, an administrator and, when no other release is
\* ahead of it, the whole security contract; the reference data, every row
\* and the owner's permissions.
ReadyWhenDone ==
    \A p \in Processes : process[p].at = "done" =>
        /\ process[p].job = "provision" =>
              /\ \A m \in 1 .. process[p].release : Tracked(m) /\ There(m)
              /\ admins \cup dismissed # {}
              /\ process[p].release = Newest => hardened = Contract
        /\ process[p].job = "reference" =>
              seeded = AllRows

\* Whatever is deployed at the same time, under whatever usernames and e-mails,
\* the seeds create no administrator beside one that they created before and
\* that nobody dismissed; and each of the operator's commands, once it
\* succeeded, never does so again.  (Identities that were there before are
\* another matter: the seed makes an administrator of whoever has its username.)
AdministratorsMadeOnce ==
    /\ Cardinality({p \in (admins \cap Processes) \ dismissed :
                       process[p].job \in {"provision", "seed"}}) <= 1
    /\ \A o \in OperatorCommands : used[o] <= 1

\* A command that runs ends, whatever the others do and wherever they die.
CommandsEnd ==
    \A p \in Processes : process[p].at \notin {"idle", "done", "failed"}
                            ~> process[p].at \in {"done", "failed"}
==============================================================================
