-------------------------- MODULE MachineReconciler --------------------------
(***************************************************************************)
(* MachineReconciler: when Cluster API has drained a machine that is being   *)
(* deleted and waits for its pre-terminate hook, it has k3s remove the       *)
(* machine's etcd member and then takes the hook off.                       *)
(*                                                                         *)
(* It keeps no state; a reconcile ends with at most one write.              *)
(***************************************************************************)
EXTENDS Cluster

\* The machine is being deleted and held by the hook.  Cluster API asks for the
\* hook to be resolved (PreTerminateDeleteHookSucceeded is false) once the machine
\* is drained; that it takes its time is left to the interleaving.
Held(m) == m \in deleting \cap hook

\* Bug: the member is left to the machine's end.
BugMemberNotRemoved(m) == FALSE

\* There is a node, and the machine is not the last one.
IsRemoveEtcdMemberNeeded(m) == m \in noderef /\ machines \ deleting # {}

\* removeMemberForNode refuses to act on the last node, and needs the API.
CanRemoveMember == Reachable /\ Cardinality(nodes) >= 2

\* Bug: having asked is taken for having it done.
BugRequestedIsRemoved(m) == m \notin nodes \/ m \in removeReq

\* The node is gone, or k3s reports that it has removed its member.
MemberRemoved(m) == m \notin nodes \/ m \in removeReq \ members

\* Ask k3s to remove the member, by annotating the node, and look again later.
RequestEtcdRemoval(m) ==
  /\ Held(m)
  /\ IsRemoveEtcdMemberNeeded(m)
  /\ CanRemoveMember
  /\ ~MemberRemoved(m)
  /\ m \notin removeReq
  /\ removeReq' = removeReq \cup {m}
  /\ UNCHANGED <<machineVars, kcpVars, nodes, running, members, leader, envVars>>

RemoveHook(m) ==
  /\ Held(m)
  /\ IsRemoveEtcdMemberNeeded(m) => CanRemoveMember /\ MemberRemoved(m)
  /\ hook' = hook \ {m}
  /\ UNCHANGED <<machines, deleting, noderef, unhealthy, outdated, deleteAnn, remFor, lastId,
                 kcpVars, workloadVars, envVars>>
=============================================================================
