---------------------------- MODULE MCDeployment ----------------------------
(***************************************************************************)
(* Two processes, of two instances.  Deployments: provisioning, security   *)
(* bootstrap and reference data, with five migrations (the baseline, one   *)
(* that is recognised by a table, the challenges table, a file that        *)
(* commits itself and, in the newest release, one that grants too much).   *)
(* Administration: seeds and the operator's commands under two usernames,  *)
(* with a tenant user who takes and loses them, and other administrators.  *)
(***************************************************************************)
EXTENDS Deployment

CONSTANTS p1, p2, n1, e1

Deploying == \E p \in Processes : process[p].job \in {"provision", "secure", "reference"}

\* Which process, username and e-mail is which does not matter: one of the states
\* that differ in that only.
Place == [provision |-> 1, secure |-> 2, reference |-> 3,
          seed |-> 4, bootstrap |-> 5, recover |-> 6]
Representative ==
    /\ process[p1].username = n1 /\ process[p1].email = e1
    /\ Place[process[p1].job] <= Place[process[p2].job]
    /\ process[p1].job = process[p2].job => process[p1].release <= process[p2].release

\* Deployments have one username and e-mail, and one at least is of the newest release.
\* Where files were edited or the table was lost, the database had every migration of
\* the oldest release; reference data then depend on the baseline only.
ProvisioningInit ==
    /\ \A p \in Processes : /\ process[p].job \in {"provision", "secure", "reference"}
                            /\ process[p].username = n1 /\ process[p].email = e1
    /\ admins = {} /\ \E p \in Processes : process[p].release = Newest
    /\ history \in {"edited", "lost"} =>
          /\ schema[Oldest] # "absent"
          /\ schema[1] # "complete" \/ \A p \in Processes : process[p].job # "reference"

\* A database that is as its files describe it, or not made yet; who
\* administers has a role of the reference data.
AdministratorsInit ==
    /\ \A p \in Processes : process[p].job \in OperatorCommands \cup {"seed"}
    /\ history = "intact" /\ (schema[1] # "absent" => schema[Oldest] # "absent")
    /\ seeded = {} => admins = {}

InstanceInit ==
    /\ DeploymentInit /\ Representative
    /\ \/ Deploying /\ ProvisioningInit
       \/ ~Deploying /\ AdministratorsInit

\* Users and administrators act in the second instance only.
InstanceNext ==
    \/ \E p \in Processes : Begin(p) \/ Die(p) \/ Run(p)
    \/ /\ ~Deploying
       /\ \/ \E u \in Users : (\E l \in Usernames \cup Emails : SaveUser(u, l)) \/ RetireUser(u)
          \/ \E i \in AllIdentities : Appoint(i) \/ Dismiss(i)

InstanceSpec == InstanceInit /\ [][InstanceNext]_deploymentVars /\ DeploymentFairness
==============================================================================
