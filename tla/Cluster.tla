------------------------------- MODULE Cluster -------------------------------
(***************************************************************************)
(* The objects that the control plane provider's controllers share: the     *)
(* KThreesControlPlane and its Machines in the management cluster, and the   *)
(* nodes and the embedded etcd of the workload cluster; and the actions of   *)
(* everybody else who changes them (users, Cluster API's machine and health  *)
(* check controllers, the infrastructure, k3s).                             *)
(*                                                                         *)
(* Machines are numbered in the order of their creation, so the oldest of a  *)
(* set is its least element and the newest its greatest.  A machine, its     *)
(* Node and its etcd member share the number.                               *)
(*                                                                         *)
(* Simplifications: the infrastructure, the cluster endpoint and the etcd CA *)
(* are there (IsEtcdManaged is true); the control plane is not deleted; the  *)
(* cluster defines no failure domains; an etcd member is a voter as soon as  *)
(* it joins, and etcd elects a leader as soon as it can.                    *)
(***************************************************************************)
EXTENDS Integers, FiniteSets

CONSTANTS
  MaxMachines,  \* bound: machines ever created
  InitMachines, \* machines of the initial, healthy control plane (0: none yet)
  Replicas,     \* values spec.replicas may take
  MaxFailures,  \* bound: hosts that fail or do not start in time
  UserRequests, \* what users do: any of "scale", "upgrade", "annotate", "delete"
  MaxUserOps    \* bound: requests of users

Machine == 1 .. MaxMachines
None == 0

ASSUME ClusterAssumption ==
  /\ MaxMachines \in Nat
  /\ InitMachines \in 0 .. MaxMachines
  /\ Replicas \subseteq Nat
  /\ MaxFailures \in Nat
  /\ UserRequests \subseteq {"scale", "upgrade", "annotate", "delete"}
  /\ MaxUserOps \in Nat

VARIABLES
  \* Machine objects owned by the control plane, in the API server.
  machines,    \* the machines that exist
  deleting,    \* with a deletion timestamp
  hook,        \* with the pre-terminate hook annotation of this provider
  noderef,     \* with Status.NodeRef
  unhealthy,   \* marked by a MachineHealthCheck for remediation by the owner
  outdated,    \* not matching the control plane's spec
  deleteAnn,   \* annotated by a user to be deleted first
  remFor,      \* RemediationFor: the machine a machine replaces, or None
  lastId,      \* number of the newest machine ever created
  \* The KThreesControlPlane object.
  replicas,    \* Spec.Replicas
  initialized, \* Status.Initialized
  rip,         \* RemediationInProgress: the machine being remediated, or None
  \* The workload cluster.
  nodes,       \* Node objects of control plane nodes
  running,     \* hosts that are up
  members,     \* etcd members
  leader,      \* the etcd leader, or None
  removeReq,   \* nodes with the annotation that asks k3s to remove the member
  \* The environment's history.
  userDeleted, \* machines whose deletion a user ever asked for
  lateNode,    \* machines whose node was found only after their deletion began
  failures, userOps

machineVars == <<machines, deleting, hook, noderef, unhealthy, outdated, deleteAnn,
                 remFor, lastId>>
kcpVars == <<replicas, initialized, rip>>
workloadVars == <<nodes, running, members, leader, removeReq>>
envVars == <<userDeleted, lateNode, failures, userOps>>
clusterVars == <<machineVars, kcpVars, workloadVars, envVars>>

ClusterTypeOK ==
  /\ machines \subseteq Machine
  /\ deleting \subseteq machines
  /\ hook \subseteq machines
  /\ noderef \subseteq machines
  /\ unhealthy \subseteq machines
  /\ outdated \subseteq machines
  /\ deleteAnn \subseteq machines
  /\ remFor \in [Machine -> {None} \cup Machine]
  /\ lastId \in {None} \cup Machine
  /\ replicas \in Replicas
  /\ initialized \in BOOLEAN
  /\ rip \in {None} \cup Machine
  /\ nodes \subseteq Machine
  /\ running \subseteq nodes
  /\ members \subseteq Machine
  /\ leader \in {None} \cup Machine
  /\ removeReq \subseteq Machine
  /\ userDeleted \subseteq Machine
  /\ lateNode \subseteq Machine
  /\ failures \in Nat
  /\ userOps \in Nat

\* Either nothing has been created yet, or a healthy control plane of
\* InitMachines machines is up.
ClusterInit ==
  /\ machines = 1 .. InitMachines
  /\ noderef = 1 .. InitMachines
  /\ nodes = 1 .. InitMachines
  /\ running = 1 .. InitMachines
  /\ members = 1 .. InitMachines
  /\ leader \in (IF InitMachines = 0 THEN {None} ELSE 1 .. InitMachines)
  /\ lastId = InitMachines
  /\ replicas \in Replicas
  /\ InitMachines > 0 => replicas = InitMachines
  /\ initialized = (InitMachines > 0)
  /\ deleting = {} /\ hook = {} /\ unhealthy = {} /\ outdated = {}
  /\ deleteAnn = {} /\ userDeleted = {} /\ lateNode = {} /\ removeReq = {}
  /\ remFor = [m \in Machine |-> None]
  /\ rip = None
  /\ failures = 0 /\ userOps = 0

-----------------------------------------------------------------------------

Oldest(S) == CHOOSE m \in S : \A n \in S : m <= n
Newest(S) == CHOOSE m \in S : \A n \in S : n <= m

HasQuorum(mem, up) == 2 * Cardinality(mem \cap up) > Cardinality(mem)

\* The API of the workload cluster answers while its etcd has a quorum.
Reachable == HasQuorum(members, running)

\* etcd keeps its leader while the leader is a running member of a quorum, and
\* elects any running member when it has to.
Elect(mem, up) ==
  leader' \in IF ~HasQuorum(mem, up) THEN {None}
              ELSE IF leader \in mem \cap up THEN {leader} ELSE mem \cap up

-----------------------------------------------------------------------------
(* Infrastructure, Cluster API and k3s.                                     *)

\* A host comes up and k3s starts: the first server of a cluster that is not
\* initialized forms a new etcd, every other one joins the etcd that is there.
\* Nothing stops a host whose Machine is already being deleted.
Join(m) ==
  /\ m \in machines \ nodes
  /\ \/ ~initialized /\ members \cap running = {} /\ members' = {m}
     \/ Reachable /\ members' = members \cup {m}
  /\ nodes' = nodes \cup {m}
  /\ running' = running \cup {m}
  /\ Elect(members', running')
  /\ UNCHANGED <<machineVars, kcpVars, removeReq, envVars>>

\* Cluster API finds the Node of a machine, also of one that is being deleted.
SetNodeRef(m) ==
  /\ m \in (machines \cap nodes) \ noderef
  /\ Reachable
  /\ noderef' = noderef \cup {m}
  /\ lateNode' = IF m \in deleting THEN lateNode \cup {m} ELSE lateNode
  /\ UNCHANGED <<machines, deleting, hook, unhealthy, outdated, deleteAnn, remFor,
                 lastId, kcpVars, workloadVars, userDeleted, failures, userOps>>

\* A host fails.
Fail(m) ==
  /\ m \in running
  /\ failures < MaxFailures
  /\ failures' = failures + 1
  /\ running' = running \ {m}
  /\ Elect(members, running')
  /\ UNCHANGED <<machineVars, kcpVars, nodes, members, removeReq, userDeleted, lateNode, userOps>>

\* A MachineHealthCheck marks a machine whose node is down, ...
MarkUnhealthy(m) ==
  /\ m \in noderef \ (running \cup unhealthy)
  /\ unhealthy' = unhealthy \cup {m}
  /\ UNCHANGED <<machines, deleting, hook, noderef, outdated, deleteAnn, remFor, lastId,
                 kcpVars, workloadVars, envVars>>

\* ... or a machine that has no node after the startup timeout, though it may
\* still get one.
StartupTimeout(m) ==
  /\ m \in machines \ (noderef \cup unhealthy)
  /\ failures < MaxFailures
  /\ failures' = failures + 1
  /\ unhealthy' = unhealthy \cup {m}
  /\ UNCHANGED <<machines, deleting, hook, noderef, outdated, deleteAnn, remFor, lastId,
                 kcpVars, workloadVars, userDeleted, lateNode, userOps>>

\* A MachineHealthCheck takes the mark back from a machine that is up after all.
MarkHealthy(m) ==
  /\ m \in unhealthy \cap noderef \cap running
  /\ unhealthy' = unhealthy \ {m}
  /\ UNCHANGED <<machines, deleting, hook, noderef, outdated, deleteAnn, remFor, lastId,
                 kcpVars, workloadVars, envVars>>

\* Cluster API deletes the host, the Node and the Machine of a machine with a
\* deletion timestamp, once its pre-terminate hook is gone.
Terminate(m) ==
  /\ m \in deleting \ hook
  /\ machines' = machines \ {m}
  /\ deleting' = deleting \ {m}
  /\ noderef' = noderef \ {m}
  /\ unhealthy' = unhealthy \ {m}
  /\ outdated' = outdated \ {m}
  /\ deleteAnn' = deleteAnn \ {m}
  /\ remFor' = [remFor EXCEPT ![m] = None]
  /\ nodes' = nodes \ {m}
  /\ running' = running \ {m}
  /\ removeReq' = removeReq \ {m}
  /\ Elect(members, running')
  /\ UNCHANGED <<hook, lastId, kcpVars, members, envVars>>

\* k3s removes the member of an annotated node (and reports it removed).
K3sRemovesMember(m) ==
  /\ m \in removeReq \cap members
  /\ Reachable
  /\ members' = members \ {m}
  /\ Elect(members', running)
  /\ UNCHANGED <<machineVars, kcpVars, nodes, running, removeReq, envVars>>

-----------------------------------------------------------------------------
(* Users.                                                                   *)

UserOp(request) ==
  /\ request \in UserRequests
  /\ userOps < MaxUserOps
  /\ userOps' = userOps + 1

ScaleTo(r) ==
  /\ UserOp("scale")
  /\ replicas' = r
  /\ r # replicas
  /\ UNCHANGED <<machineVars, initialized, rip, workloadVars, userDeleted, lateNode, failures>>

\* A change of the spec (or rolloutAfter) makes every machine outdated.
Upgrade ==
  /\ UserOp("upgrade")
  /\ outdated # machines
  /\ outdated' = machines
  /\ UNCHANGED <<machines, deleting, hook, noderef, unhealthy, deleteAnn, remFor, lastId,
                 kcpVars, workloadVars, userDeleted, lateNode, failures>>

AnnotateForDeletion(m) ==
  /\ UserOp("annotate")
  /\ m \in machines \ deleteAnn
  /\ deleteAnn' = deleteAnn \cup {m}
  /\ UNCHANGED <<machines, deleting, hook, noderef, unhealthy, outdated, remFor, lastId,
                 kcpVars, workloadVars, userDeleted, lateNode, failures>>

UserDeletes(m) ==
  /\ UserOp("delete")
  /\ m \in machines \ deleting
  /\ deleting' = deleting \cup {m}
  /\ userDeleted' = userDeleted \cup {m}
  /\ UNCHANGED <<machines, hook, noderef, unhealthy, outdated, deleteAnn, remFor, lastId,
                 kcpVars, workloadVars, lateNode, failures>>
=============================================================================
