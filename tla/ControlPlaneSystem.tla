------------------------- MODULE ControlPlaneSystem -------------------------
(***************************************************************************)
(* The control plane provider at work: the KThreesControlPlane controller    *)
(* and the machine reconciler, over a cluster that users, Cluster API, the   *)
(* infrastructure and k3s change as well.                                   *)
(***************************************************************************)
EXTENDS KThreesControlPlane, MachineReconciler

Init == ClusterInit /\ ControllerInit

EnvironmentStep(m) ==
  \/ Join(m)
  \/ SetNodeRef(m)
  \/ MarkUnhealthy(m)
  \/ MarkHealthy(m)
  \/ Terminate(m)
  \/ K3sRemovesMember(m)

MachineReconcilerStep(m) == RequestEtcdRemoval(m) \/ RemoveHook(m)

UserStep ==
  \/ Upgrade
  \/ \E r \in Replicas : ScaleTo(r)
  \/ \E m \in Machine : AnnotateForDeletion(m) \/ UserDeletes(m)

Next ==
  \/ ControllerNext
  \/ /\ \/ \E m \in Machine :
             \/ MachineReconcilerStep(m)
             \/ EnvironmentStep(m)
             \/ Fail(m)
             \/ StartupTimeout(m)
        \/ UserStep
     /\ UNCHANGED controllerVars

Spec == Init /\ [][Next]_vars

\* The workqueue retries every reconcile that does not end in the wanted state,
\* and Cluster API, the infrastructure and k3s do their part.
Fairness ==
  /\ WF_vars(Start)
  /\ WF_vars(ReconcileStep)
  /\ WF_vars(DeliverKCP)
  /\ \A m \in Machine :
       /\ WF_vars(MachineReconcilerStep(m) /\ UNCHANGED controllerVars)
       /\ WF_vars(EnvironmentStep(m) /\ UNCHANGED controllerVars)

FairSpec == Spec /\ Fairness

-----------------------------------------------------------------------------
(* Safety.                                                                  *)

\* Every variable has its type, and no set of machines names one that is gone:
\* neither a late patch nor a late reconcile brings a terminated machine back.
TypeOK == ClusterTypeOK /\ ControllerTypeOK

\* The controller never has two machines in deletion at once, whatever users
\* delete meanwhile: every operation that deletes a machine (scale down,
\* rollout, remediation) waits until the one deleted before is gone.
OneDeletionAtATime ==
  \A m, n \in deleting \ userDeleted : m = n

\* A rollout surges by at most one machine over the wanted replicas, even when
\* the controller works from an outdated KThreesControlPlane.
SurgeBound ==
  \A r \in Replicas : (\A s \in Replicas : s <= r) => Cardinality(machines) <= r + 1

\* As long as users delete no machine, a reconcile that finds the control plane
\* initialized never asks for the deletion of the last machine that is not being
\* deleted yet: neither a scale down nor a remediation does, however the machines
\* changed since it listed them.
NeverTheLastMachine ==
  [][kcp.initialized /\ userDeleted' = {} /\ deleting' # deleting
       => machines \ deleting' # {}]_vars

\* Until the control plane is initialized it has at most one machine, so there
\* is no second server that could form an etcd cluster of its own.
InitializesOneMachine ==
  ~initialized => \A m, n \in machines : m = n

\* One failing host does not cost the etcd cluster its quorum, neither during a
\* rollout nor during the remediation that follows.
QuorumKept == initialized => Reachable

\* An etcd member is taken out only when its machine is gone, or on its way out
\* with the removal asked for: reconcileEtcdMembers never takes a member of a
\* machine that is still joining for one without a machine.
LiveMemberNotRemoved ==
  [][\A m \in members \ members' : m \notin machines \/ m \in deleting \cap removeReq]_vars

\* A machine that the controller deletes is not terminated while its host holds
\* an etcd member that other machines depend on; this is what the pre-terminate
\* hook is for.
MemberLeavesBeforeHost ==
  [][\A m \in machines \ machines' :
       m \in (members \cap noderef) \ (userDeleted \cup lateNode)
         => machines \ deleting = {}]_vars

\* A machine whose deletion the controller asks for is not the etcd leader at
\* that time, as long as no failure made etcd elect another leader and users only
\* scale and upgrade. (The leadership goes to the newest machine, which is the one
\* to be deleted if a user annotated it for deletion: scale.go:137.)
LeaderForwarded ==
  [][\A m \in (deleting' \ deleting) \ userDeleted' : failures = 0 => m # leader]_vars

-----------------------------------------------------------------------------
(* Liveness.                                                                *)

Settled ==
  /\ Cardinality(machines) = replicas
  /\ deleting = {} /\ outdated = {} /\ unhealthy = {}
  /\ members = machines /\ machines \subseteq running

\* After a failure, a rollout and a restart in any order, the control plane ends
\* up with the wanted number of up-to-date, running machines, and with exactly
\* their members in etcd.
Convergence == <>[]Settled

-----------------------------------------------------------------------------
(* The inductive invariant, whatever the cache shows.                       *)

\* What a reconcile that starts now reads.
Readable == IF CacheLag THEN cache ELSE Stored

\* The control plane stays initialized, so nobody reads that it is before it is,
\* and every reconcile after the first that reads it does.
ReadTrails ==
  /\ Readable.initialized => initialized
  /\ kcp.initialized => Readable.initialized

\* As long as no reconcile has read that the control plane is initialized, there
\* is one machine at most: the other ones are made by scaling up, which waits for
\* a machine with health conditions.
AloneUntilKnown ==
  ~Readable.initialized \/ (pc # "idle" /\ ~kcp.initialized)
    => \A m, n \in machines : m = n

\* Nobody but the controller creates machines, and apart from users nobody but
\* the controller deletes them, so the list covers the machines there are.
ListCovers ==
  pc \in {"conditions", "members", "decide"} =>
    /\ machines \subseteq seen.machines
    /\ deleting \ userDeleted \subseteq seen.deleting
    /\ seen.outdated \subseteq seen.machines
    /\ seen.healthy # {} => kcp.initialized

\* An operation has started with no deletion of the controller's own under way.
OperationAlone ==
  /\ pc \in {"forward", "hook", "delete"} /\ kcp.initialized => deleting \ userDeleted = {}
  /\ pc = "create" /\ todo.op # "init" => kcp.initialized /\ deleting \ userDeleted = {}

\* The hook is on the machine before its deletion is asked for, and only a
\* user's deletion lets the machine reconciler take it off again.
HookFirst ==
  pc = "delete" /\ kcp.initialized /\ todo.target \in machines
    => todo.target \in hook \cup userDeleted

\* The hook stays as long as there is a member to remove.
HookGuards ==
  \A m \in deleting \ (userDeleted \cup lateNode) :
    m \in noderef \cap members => m \in hook \/ machines \ deleting = {}

\* A removal is asked for only for machines that are being deleted, and a node
\* that was found stays until its machine is terminated.
NodeFacts == removeReq \subseteq deleting /\ noderef \subseteq nodes

IInv ==
  /\ TypeOK
  /\ OneDeletionAtATime
  /\ InitializesOneMachine
  /\ ReadTrails
  /\ AloneUntilKnown
  /\ ListCovers
  /\ OperationAlone
  /\ HookFirst
  /\ HookGuards
  /\ NodeFacts

-----------------------------------------------------------------------------
(* What bounds a rollout, whatever the cache shows.                          *)

\* The wanted replicas that the controller has read were asked for at some time.
ReplicasRead ==
  /\ cache.replicas \in Replicas
  /\ pc # "idle" => kcp.replicas \in Replicas

\* Nobody but the controller creates machines: when it does, there are still no
\* more than it counted.
RoomForOne ==
  /\ pc \in {"conditions", "members", "decide"} => machines \subseteq seen.machines
  /\ pc = "create" /\ todo.op # "init" => Cardinality(machines) <= kcp.replicas

SurgeInv == TypeOK /\ ReplicasRead /\ RoomForOne /\ SurgeBound

-----------------------------------------------------------------------------
(* What keeps the last machine, whatever the cache shows.                     *)

\* While users delete nothing, machines that were listed and not being deleted
\* stay, and an operation that deletes one leaves another.
AnotherStays ==
  userDeleted = {} =>
    /\ pc \in {"conditions", "members", "decide"} =>
         deleting \subseteq seen.deleting /\ seen.machines \ seen.deleting \subseteq machines
    /\ pc \in {"forward", "hook", "delete"} /\ kcp.initialized =>
         deleting = {} /\ \E m \in machines : m # todo.target

LastInv == TypeOK /\ ReplicasRead /\ AnotherStays
-----------------------------------------------------------------------------
(* What keeps the quorum and moves the leader, as long as users neither       *)
(* delete machines nor choose them for deletion.                             *)

\* Machines are created in the order of their numbers, and a new one only when
\* all others have a node; an upgrade finds the older machines outdated first.
InOrder ==
  /\ userDeleted = {} /\ deleteAnn = {}
  /\ nodes \subseteq machines
  /\ \A m \in machines :
       m <= lastId /\ (m = lastId \/ m \in noderef)
  /\ \A m \in outdated, n \in machines : n < m => n \in outdated
  /\ pc = "create" /\ todo.op # "init" => machines \subseteq noderef

\* The same of what a reconcile has listed, and of what has happened since.
ListInOrder ==
  pc \in {"conditions", "members", "decide"} =>
    /\ seen.annotated = {}
    /\ deleting \subseteq seen.deleting
    /\ seen.noderef \cap machines \subseteq noderef
    /\ seen.healthy \subseteq seen.noderef
    /\ \A m \in seen.machines :
         m <= lastId /\ (m = lastId \/ m \in seen.noderef)
    /\ \A m \in seen.outdated, n \in seen.machines : n < m => n \in seen.outdated

OrderInv == IInv /\ ReplicasRead /\ InOrder /\ ListInOrder

\* The members that are there to stay.
Stay == (machines \cap members) \ deleting

\* A quorum of the wanted machines that survives all failures.
Tolerant == 2 * MaxFailures + 1

\* Each failure hits one machine; the machines that were hit account for every
\* host that is down, for every mark of a health check, and for every machine
\* whose host may end without having left etcd.
HitBy(H) ==
  /\ H \subseteq Machine /\ Cardinality(H) <= failures
  /\ (members \cup nodes) \ running \subseteq H
  /\ unhealthy \cup lateNode \subseteq H
  /\ deleting \ noderef \subseteq H
  /\ pc \in {"conditions", "members", "decide"} => seen.unhealthy \subseteq H
  /\ pc \in {"forward", "hook", "delete"} /\ todo.target \in machines =>
       todo.target \in noderef \cup H

\* Apart from them there are enough members, those that a reconcile is about to
\* delete not counted.
EnoughStay(H) ==
  /\ Cardinality(Stay \cup H) >= Tolerant
  /\ pc \in {"members", "decide"} => seen.healthy \subseteq Stay \cup H
  /\ pc \in {"forward", "hook", "delete"} =>
       \/ todo.target \in H
       \/ Cardinality((Stay \cup H) \ {todo.target}) >= Tolerant

FailuresAbsorbed == \E H \in SUBSET Machine : HitBy(H) /\ EnoughStay(H)

\* Everything is read and found initialized from the start.
AlwaysInitialized ==
  initialized /\ Readable.initialized /\ failures <= MaxFailures
    /\ (pc # "idle" => kcp.initialized)

QuorumInv == OrderInv /\ AlwaysInitialized /\ FailuresAbsorbed

\* etcd has a leader as long as it has a quorum.
LeaderKnown ==
  /\ leader # None => leader \in members \cap running
  /\ Reachable => leader # None
  /\ failures = 0 => nodes \subseteq running /\ unhealthy = {}
  /\ failures = 0 /\ pc \in {"conditions", "members", "decide"} => seen.unhealthy = {}

\* From the choice of a machine to delete, the next leader is another one.
LeaderMoved ==
  failures = 0 =>
    /\ pc = "forward" =>
         kcp.initialized /\ todo.hasNode /\ todo.target \notin {None, todo.candidate}
    /\ pc \in {"hook", "delete"} => kcp.initialized /\ todo.target \notin {None, leader}

LeaderInv == OrderInv /\ LeaderKnown /\ LeaderMoved
=============================================================================
