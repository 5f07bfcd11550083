------------------------- MODULE KThreesControlPlane -------------------------
(***************************************************************************)
(* KThreesControlPlaneReconciler: one reconcile of a KThreesControlPlane.    *)
(*                                                                         *)
(* A reconcile reads the KThreesControlPlane from the informer's cache and   *)
(* its machines from the API server, and then acts on what it has read in a  *)
(* sequence of calls.  Every call, or group of reads, is a step, so the      *)
(* users, the infrastructure, Cluster API and the machine reconciler act     *)
(* between the reads and the writes.  The workqueue never runs two           *)
(* reconciles of the same object at once.  A reconcile can be cut short by   *)
(* a failing call, or by the end of the process.                            *)
(***************************************************************************)
EXTENDS Cluster

CONSTANTS
  CacheLag,  \* whether the cached KThreesControlPlane may be out of date
  MaxFaults  \* bound: failing calls and restarts of the controller

ASSUME ControllerAssumption == CacheLag \in BOOLEAN /\ MaxFaults \in Nat

VARIABLES
  cache,  \* the KThreesControlPlane in the informer's cache
  pc,     \* the next call of the reconcile
  kcp,    \* the KThreesControlPlane as read
  ann,    \* the RemediationInProgress annotation of the copy in memory
  seen,   \* the machines as read, and the health conditions put on them
  todo,   \* the operation chosen
  faults

controllerVars == <<cache, pc, kcp, ann, seen, todo, faults>>
vars == <<clusterVars, controllerVars>>

Steps == {"idle", "list", "conditions", "members", "decide", "forward", "hook", "delete",
          "mark", "create", "patch"}
Operations == {"none", "init", "scaleUp", "scaleDown", "remediate"}

KCP == [replicas : Replicas \cup {0}, initialized : BOOLEAN, rip : {None} \cup Machine]
Seen == [machines : SUBSET Machine, deleting : SUBSET Machine, noderef : SUBSET Machine,
         unhealthy : SUBSET Machine, outdated : SUBSET Machine,
         annotated : SUBSET Machine, healthy : SUBSET Machine]
Todo == [op : Operations, target : {None} \cup Machine, hasNode : BOOLEAN,
         candidate : {None} \cup Machine]

NothingRead == [replicas |-> 0, initialized |-> FALSE, rip |-> None]
NothingSeen == [machines |-> {}, deleting |-> {}, noderef |-> {}, unhealthy |-> {},
                outdated |-> {}, annotated |-> {}, healthy |-> {}]
NothingToDo == [op |-> "none", target |-> None, hasNode |-> FALSE, candidate |-> None]

ControllerTypeOK ==
  /\ cache \in KCP
  /\ pc \in Steps
  /\ kcp \in KCP
  /\ ann \in {None} \cup Machine
  /\ seen \in Seen
  /\ todo \in Todo
  /\ faults \in Nat

Stored == [replicas |-> replicas, initialized |-> initialized, rip |-> rip]

ControllerInit ==
  /\ cache = Stored
  /\ pc = "idle"
  /\ kcp = NothingRead
  /\ ann = None
  /\ seen = NothingSeen
  /\ todo = NothingToDo
  /\ faults = 0

\* The informer catches up.
DeliverKCP ==
  /\ CacheLag
  /\ cache # Stored
  /\ cache' = Stored
  /\ UNCHANGED <<clusterVars, pc, kcp, ann, seen, todo, faults>>

-----------------------------------------------------------------------------
(* Reading.                                                                 *)

\* Reconcile reads the KThreesControlPlane.
Start ==
  /\ pc = "idle"
  /\ pc' = "list"
  /\ kcp' = IF CacheLag THEN cache ELSE Stored
  /\ ann' = kcp'.rip
  /\ UNCHANGED <<clusterVars, cache, seen, todo, faults>>

\* reconcile lists the machines, without a cache.
ListMachines ==
  /\ pc = "list"
  /\ pc' = "conditions"
  /\ seen' = [machines |-> machines, deleting |-> deleting, noderef |-> noderef,
              unhealthy |-> unhealthy, outdated |-> outdated,
              annotated |-> deleteAnn, healthy |-> {}]
  /\ UNCHANGED <<clusterVars, cache, kcp, ann, todo, faults>>

\* UpdateAgentConditions: the machine's node is there and ready.
AgentHealthy == seen.noderef \cap nodes \cap running

\* updateManagedEtcdConditions: the etcd on the machine's node answers and has
\* itself among its members.
EtcdMemberHealthy == seen.noderef \cap nodes \cap running \cap members

\* The machines with both conditions true.  Before the control plane is
\* initialized no machine has the conditions; when the nodes cannot be listed
\* they are unknown, and on a machine that is being deleted they are false.
HealthyMachines ==
  IF kcp.initialized /\ Reachable
  THEN (AgentHealthy \cap EtcdMemberHealthy) \ seen.deleting
  ELSE {}

\* syncMachines and reconcileControlPlaneConditions.  Updating a machine that
\* has gone since it was listed is an error, unless there is nothing to update.
UpdateConditions ==
  /\ pc = "conditions"
  /\ \/ pc' = "members"
     \/ ~(seen.machines \subseteq machines) /\ pc' = "patch"
  /\ seen' = [seen EXCEPT !.healthy = HealthyMachines]
  /\ UNCHANGED <<clusterVars, cache, kcp, ann, todo, faults>>

\* Bug: a machine without a node is ignored, so its member has no machine.
BugProvisioningIgnored ==
  IF Reachable /\ seen.noderef \cap nodes \cap running \cap members # {}
  THEN members \ seen.noderef
  ELSE {}

\* Bug: members without a machine stay.
BugOrphansStay == {}

\* There are machines, and all of them have a node.
NodesKnown == seen.machines # {} /\ seen.machines \subseteq seen.noderef

\* Members whose node belongs to no machine; none as long as a machine has no
\* node yet, or when no machine's etcd answers.
OrphanedMembers ==
  IF /\ NodesKnown
     /\ Reachable
     /\ seen.machines \cap nodes \cap running \cap members # {}
  THEN members \ seen.machines
  ELSE {}

\* removeMemberForNonExistingNode does not touch the etcd of a single node
\* (ErrControlPlaneMinNodes).
RemovalRefused == OrphanedMembers # {} /\ Cardinality(nodes) < 2

\* reconcileEtcdMembers.  A workload cluster that does not answer is an error if
\* the client for it cannot be made, and passed over by every call after that.
\* With EtcdClusterHealthy true there are no orphans and nothing is done.
ReconcileEtcdMembers ==
  /\ pc = "members"
  /\ members' = IF RemovalRefused THEN members ELSE members \ OrphanedMembers
  /\ \/ ~RemovalRefused /\ pc' = "decide"
     \/ (RemovalRefused \/ (NodesKnown /\ ~Reachable)) /\ pc' = "patch"
  /\ Elect(members', running)
  /\ UNCHANGED <<machineVars, kcpVars, nodes, running, removeReq, envVars,
                 cache, kcp, ann, seen, todo, faults>>

-----------------------------------------------------------------------------
(* Deciding what to do, from what has been read.                            *)

\* getMachineToBeRemediated.
ToBeRemediated ==
  LET withoutNode == seen.unhealthy \ seen.noderef
  IN  Oldest(IF withoutNode # {} THEN withoutNode ELSE seen.unhealthy)

\* Bug: a remediation does not wait for a machine that is being deleted.
BugRemediationIgnoresDeleting ==
  /\ seen.unhealthy # {}
  /\ ToBeRemediated \notin seen.deleting
  /\ kcp.rip = None
  /\ kcp.initialized =>
       /\ Cardinality(seen.machines) > 1
       /\ seen.machines \ seen.unhealthy \subseteq seen.noderef

\* Remediation gets past the checks that need no workload cluster.  Before the
\* control plane is initialized, only the first three of them apply.
RemediationDue ==
  /\ seen.unhealthy # {}
  /\ ToBeRemediated \notin seen.deleting
  /\ kcp.rip = None
  /\ kcp.initialized =>
       /\ Cardinality(seen.machines) > 1
       /\ seen.machines \ seen.unhealthy \subseteq seen.noderef
       /\ seen.deleting = {}

\* canSafelyRemoveEtcdMember: the members that stay, of which at least a
\* quorum must be healthy as far as the machines' conditions tell.
CanSafelyRemove(m) ==
  LET target == members \ ({m} \cap seen.noderef)
      quorum == Cardinality(target) \div 2 + 1
  IN  Cardinality(target \cap seen.healthy) >= quorum

LeaderCandidates == seen.machines \ seen.unhealthy

\* The retry limits can refuse a machine that replaces a remediated one; see
\* checkRetryLimits.
RemediationSkipped ==
  RemediationDue =>
    \/ remFor[ToBeRemediated] # None
    \/ /\ kcp.initialized
       /\ Reachable
       /\ ~CanSafelyRemove(ToBeRemediated) \/ LeaderCandidates = {}

MachinesNeedingRollout == seen.outdated \ seen.deleting

\* Bug: a machine without health conditions is taken for a healthy one.
BugMissingConditionsPass(excluded) ==
  \/ seen.machines = {}
  \/ seen.deleting = {} /\ (kcp.initialized => seen.machines \ excluded \subseteq seen.healthy)

\* No machine is being deleted and all but the excluded ones are healthy.
PreflightChecks(excluded) ==
  \/ seen.machines = {}
  \/ seen.deleting = {} /\ seen.machines \ excluded \subseteq seen.healthy

\* Bug: a rollout scales up however many machines there are.
BugUnboundedSurge ==
  \/ MachinesNeedingRollout # {}
  \/ seen.machines # {} /\ Cardinality(seen.machines) < kcp.replicas

\* Bug: off by one.
BugScaleDownTooFar == Cardinality(seen.machines) >= kcp.replicas

WantsInit == MachinesNeedingRollout = {} /\ seen.machines = {} /\ kcp.replicas > 0
WantsScaleUp ==
  \/ MachinesNeedingRollout # {} /\ Cardinality(seen.machines) <= kcp.replicas
  \/ seen.machines # {} /\ Cardinality(seen.machines) < kcp.replicas
WantsScaleDown == Cardinality(seen.machines) > kcp.replicas

\* A user's choice among the outdated machines, among all, an outdated machine,
\* any machine: the oldest of the first of these that has one.
SelectMachineForScaleDown ==
  LET outdatedOnes == MachinesNeedingRollout
  IN  Oldest(IF outdatedOnes \cap seen.annotated # {} THEN outdatedOnes \cap seen.annotated
             ELSE IF seen.annotated # {} THEN seen.annotated
             ELSE IF outdatedOnes # {} THEN outdatedOnes
             ELSE seen.machines)

\* Go on with an operation.  What was read of the machines is not used again,
\* except for the nodes of the machine to delete and of the candidate leader.
Begin(step, op, target, candidate) ==
  /\ pc' = step
  /\ todo' = [op |-> op, target |-> target, hasNode |-> target \in seen.noderef,
              candidate |-> IF candidate \in seen.noderef THEN candidate ELSE None]
  /\ seen' = NothingSeen
  /\ UNCHANGED <<clusterVars, cache, kcp, ann, faults>>

RemediateInitialized ==
  /\ pc = "decide"
  /\ RemediationDue
  /\ kcp.initialized
  /\ Reachable
  /\ CanSafelyRemove(ToBeRemediated)
  /\ LeaderCandidates # {}
  /\ Begin("forward", "remediate", ToBeRemediated, Newest(LeaderCandidates))

RemediateUninitialized ==
  /\ pc = "decide"
  /\ RemediationDue
  /\ ~kcp.initialized
  /\ Begin("delete", "remediate", ToBeRemediated, None)

\* The members cannot be listed.
RemediationFails ==
  /\ pc = "decide"
  /\ RemediationDue
  /\ kcp.initialized
  /\ ~Reachable
  /\ Begin("patch", "none", None, None)

InitializeControlPlane ==
  /\ pc = "decide"
  /\ RemediationSkipped
  /\ WantsInit
  /\ Begin("create", "init", None, None)

ScaleUpControlPlane ==
  /\ pc = "decide"
  /\ RemediationSkipped
  /\ WantsScaleUp
  /\ PreflightChecks({})
  /\ Begin("create", "scaleUp", None, None)

\* Bug: the leadership goes to the oldest machine.
BugOldestLeads ==
  /\ pc = "decide"
  /\ RemediationSkipped
  /\ WantsScaleDown
  /\ PreflightChecks({SelectMachineForScaleDown})
  /\ Begin("forward", "scaleDown", SelectMachineForScaleDown, Oldest(seen.machines))

ScaleDownControlPlane ==
  /\ pc = "decide"
  /\ RemediationSkipped
  /\ WantsScaleDown
  /\ PreflightChecks({SelectMachineForScaleDown})
  /\ Begin("forward", "scaleDown", SelectMachineForScaleDown, Newest(seen.machines))

\* The control plane is as wanted, or not stable enough to change it.
Wait ==
  /\ pc = "decide"
  /\ RemediationSkipped
  /\ ~WantsInit
  /\ ~(WantsScaleUp /\ PreflightChecks({}))
  /\ ~(WantsScaleDown /\ PreflightChecks({SelectMachineForScaleDown}))
  /\ Begin("patch", "none", None, None)

-----------------------------------------------------------------------------
(* Doing it.                                                                *)

Goto(step) ==
  /\ pc' = step
  /\ UNCHANGED <<cache, kcp, ann, seen, todo, faults>>

\* ForwardEtcdLeadership.  Asking etcd to move the leadership to the leader
\* itself succeeds and changes nothing.
ForwardEtcdLeadership ==
  /\ pc = "forward"
  /\ LET t == todo.target
         c == todo.candidate
     IN  \/ ~todo.hasNode /\ Goto("hook") /\ UNCHANGED leader
         \/ /\ todo.hasNode /\ c # None /\ Reachable
            /\ leader = t => c \in members \cap running
            /\ leader' = IF leader = t THEN c ELSE leader
            /\ Goto("hook")
         \/ /\ todo.hasNode
            /\ c = None \/ ~Reachable \/ (leader = t /\ c \notin members \cap running)
            /\ Goto("patch")
            /\ UNCHANGED leader
  /\ UNCHANGED <<machineVars, kcpVars, nodes, running, members, removeReq, envVars>>

\* The pre-terminate hook goes on the machine before its deletion is asked for.
AddPreTerminateHook ==
  /\ pc = "hook"
  /\ IF todo.target \in machines
     THEN hook' = hook \cup {todo.target} /\ Goto("delete")
     ELSE UNCHANGED hook /\ Goto("patch")
  /\ UNCHANGED <<machines, deleting, noderef, unhealthy, outdated, deleteAnn, remFor, lastId,
                 kcpVars, workloadVars, envVars>>

\* A machine that is gone is an error for a remediation and fine for a scale
\* down.  A remediation is recorded in the annotation, in memory for now.
DeleteMachine ==
  /\ pc = "delete"
  /\ deleting' = deleting \cup ({todo.target} \cap machines)
  /\ pc' = IF todo.op = "remediate" THEN "mark" ELSE "patch"
  /\ ann' = IF todo.op = "remediate" /\ todo.target \in machines THEN todo.target ELSE ann
  /\ UNCHANGED <<machines, hook, noderef, unhealthy, outdated, deleteAnn, remFor, lastId,
                 kcpVars, workloadVars, envVars, cache, kcp, seen, todo, faults>>

\* Bug: the patch of a machine that is gone creates it again.
BugPatchGoneMachine ==
  /\ pc = "mark"
  /\ hook' = IF kcp.initialized THEN hook \cup {todo.target} ELSE hook
  /\ Goto("patch")
  /\ UNCHANGED <<machines, deleting, noderef, unhealthy, outdated, deleteAnn, remFor, lastId,
                 kcpVars, workloadVars, envVars>>

\* The deferred patch of reconcileUnhealthyMachines compares with the machine
\* as it was before it got the hook, so it writes the hook once more.
PatchRemediatedMachine ==
  /\ pc = "mark"
  /\ hook' = IF kcp.initialized THEN hook \cup ({todo.target} \cap machines) ELSE hook
  /\ Goto("patch")
  /\ UNCHANGED <<machines, deleting, noderef, unhealthy, outdated, deleteAnn, remFor, lastId,
                 kcpVars, workloadVars, envVars>>

\* cloneConfigsAndGenerateMachine; the first machine is created only if an
\* uncached list still finds none.  The new machine carries the data of the
\* remediation it completes.  Beyond MaxMachines a creation fails.
CreateMachine ==
  /\ pc = "create"
  /\ IF (todo.op = "init" /\ machines # {}) \/ lastId = MaxMachines
     THEN UNCHANGED <<machines, lastId, remFor, ann>>
     ELSE /\ lastId' = lastId + 1
          /\ machines' = machines \cup {lastId'}
          /\ remFor' = [remFor EXCEPT ![lastId'] = ann]
          /\ ann' = None
  /\ pc' = "patch"
  /\ UNCHANGED <<deleting, hook, noderef, unhealthy, outdated, deleteAnn, kcpVars,
                 workloadVars, envVars, cache, kcp, seen, todo, faults>>

\* The end of a reconcile: the controller keeps nothing in memory.
Forget ==
  /\ pc' = "idle"
  /\ kcp' = NothingRead
  /\ ann' = None
  /\ seen' = NothingSeen
  /\ todo' = NothingToDo

\* updateStatus: a control plane whose API serves is initialized, and stays so.
InitializedStatus == initialized \/ Reachable

\* updateStatus and the patch of the KThreesControlPlane, which carries only the
\* differences from the copy that was read.
PatchKThreesControlPlane ==
  /\ pc = "patch"
  /\ initialized' = InitializedStatus
  /\ rip' = IF ann # kcp.rip THEN ann ELSE rip
  /\ Forget
  /\ UNCHANGED <<machineVars, replicas, workloadVars, envVars, cache, faults>>

-----------------------------------------------------------------------------
(* Faults.                                                                  *)

Fault == faults < MaxFaults /\ faults' = faults + 1

\* A call fails: the reconcile goes on with its deferred patches.
CallFails ==
  /\ Fault
  /\ pc \notin {"idle", "patch"}
  /\ pc' = IF todo.op = "remediate" /\ pc \in {"hook", "delete"} THEN "mark" ELSE "patch"
  /\ UNCHANGED <<clusterVars, cache, kcp, ann, seen, todo>>

\* The controller restarts, or its last patch fails: nothing more is written.
Restart ==
  /\ Fault
  /\ pc # "idle"
  /\ Forget
  /\ UNCHANGED <<clusterVars, cache>>

ReconcileStep ==
  \/ ListMachines
  \/ UpdateConditions
  \/ ReconcileEtcdMembers
  \/ RemediateInitialized
  \/ RemediateUninitialized
  \/ RemediationFails
  \/ InitializeControlPlane
  \/ ScaleUpControlPlane
  \/ ScaleDownControlPlane
  \/ Wait
  \/ ForwardEtcdLeadership
  \/ AddPreTerminateHook
  \/ DeleteMachine
  \/ PatchRemediatedMachine
  \/ CreateMachine
  \/ PatchKThreesControlPlane

ControllerNext == Start \/ ReconcileStep \/ DeliverKCP \/ CallFails \/ Restart
=============================================================================
