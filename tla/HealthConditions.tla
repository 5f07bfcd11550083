--------------------------- MODULE HealthConditions ---------------------------
(***************************************************************************)
(* reconcileControlPlaneConditions: what the controller reports about its    *)
(* machines (AgentHealthy, EtcdMemberHealthy) and about the control plane    *)
(* (ControlPlaneComponentsHealthy, EtcdClusterHealthy), call by call, while  *)
(* nodes and etcd members change.  A condition that an inspection does not   *)
(* set keeps the value an earlier one gave it; preflight checks, remediation *)
(* and the reconciliation of members decide on what is left at the end.      *)
(*                                                                         *)
(* Machine m's node is m itself once its node is known; a machine that is    *)
(* gone may have left its node.  Nodes, kubelets and etcd are external; etcd *)
(* members are named after their nodes.                                      *)
(***************************************************************************)
EXTENDS Naturals, FiniteSets

CONSTANTS
  Machines,    \* machines of the control plane
  MaxChanges,  \* bound: changes of nodes, members and machines
  MaxFaults    \* bound: failing calls

ASSUME HealthAssumption ==
  IsFiniteSet(Machines) /\ MaxChanges \in Nat /\ MaxFaults \in Nat

Statuses == {"none", "True", "False", "Unknown"}
None == [members |-> {}, cluster |-> "none"]

VARIABLES
  machine, \* per machine, in the API server: [exists, ref, deleting, agent, etcd]
  kcp,     \* the control plane's conditions: [components, etcd]
  node,    \* per machine, its node: [there, ready, unreachable]
  etcd,    \* per machine, its member: [answers, members, alarm, cluster]
  pc,
  view,    \* the machines as the inspection has them
  listed,  \* the nodes it listed: the unreachable ones among them
  todo,    \* nodes left to look at
  kcpErrors,
  baseline, \* what the first member to answer reported: [members, cluster]
  calm,     \* nothing changed and no call failed since the inspection began
  changes, faults

env == <<node, etcd>>
local == <<listed, todo, kcpErrors, baseline>>
vars == <<machine, kcp, node, etcd, pc, view, local, calm, changes, faults>>

MachineStates == [exists : BOOLEAN, ref : BOOLEAN, deleting : BOOLEAN, agent : Statuses, etcd : Statuses]

(* Every condition has one of the four statuses, and an inspection looks only *)
(* at nodes it listed.                                                       *)
TypeOK ==
  /\ machine \in [Machines -> MachineStates] /\ view \in [Machines -> MachineStates]
  /\ kcp \in [components : Statuses, etcd : Statuses]
  /\ node \in [Machines -> [there : BOOLEAN, ready : BOOLEAN, unreachable : BOOLEAN]]
  /\ etcd \in [Machines -> [answers : BOOLEAN, members : SUBSET Machines,
                            alarm : BOOLEAN, cluster : {"a", "b"}]]
  /\ pc \in {"idle", "agentList", "agent", "etcdList", "etcd", "patch"}
  /\ listed \in [all : SUBSET Machines, unreachable : SUBSET Machines]
  /\ listed.unreachable \subseteq listed.all /\ todo \subseteq listed.all
  /\ kcpErrors \in BOOLEAN /\ calm \in BOOLEAN
  /\ baseline \in [members : SUBSET Machines, cluster : {"none", "a", "b"}]
  /\ changes \in 0 .. MaxChanges /\ faults \in 0 .. MaxFaults

Nothing == [all |-> {}, unreachable |-> {}]

\* A healthy control plane that was inspected before or not, with machines that
\* are still being provisioned and with a node that a machine left behind.
Init ==
  /\ \E up \in SUBSET Machines, s \in {"none", "True"} : \E left \in {{}} \cup {{m} : m \in up} :
       /\ machine = [m \in Machines |->
                       [exists |-> m \notin left, ref |-> m \in up, deleting |-> FALSE,
                        agent |-> IF m \in up THEN s ELSE "none",
                        etcd |-> IF m \in up THEN s ELSE "none"]]
       /\ kcp = [components |-> IF up = {} THEN "none" ELSE s, etcd |-> IF up = {} THEN "none" ELSE s]
       /\ node = [m \in Machines |-> [there |-> m \in up, ready |-> m \in up, unreachable |-> FALSE]]
       /\ etcd = [m \in Machines |-> [answers |-> m \in up, members |-> up \cup {m},
                                      alarm |-> FALSE, cluster |-> "a"]]
  /\ pc = "idle"
  /\ view = machine
  /\ listed = Nothing /\ todo = {} /\ kcpErrors = FALSE /\ baseline = None
  /\ calm = FALSE
  /\ changes = 0 /\ faults = 0

-----------------------------------------------------------------------------
(* Nodes, members and machines change.                                       *)

Change == changes < MaxChanges /\ changes' = changes + 1 /\ calm' = FALSE

NodeChanges(m) ==
  /\ Change
  /\ \E s \in {[there |-> TRUE, ready |-> TRUE, unreachable |-> FALSE],
               [there |-> TRUE, ready |-> FALSE, unreachable |-> FALSE],
               [there |-> TRUE, ready |-> FALSE, unreachable |-> TRUE],
               [there |-> FALSE, ready |-> FALSE, unreachable |-> FALSE]} :
       s # node[m] /\ node' = [node EXCEPT ![m] = s]
  /\ UNCHANGED <<machine, kcp, etcd, pc, view, local, faults>>

MemberChanges(m) ==
  /\ Change
  /\ \/ etcd' = [etcd EXCEPT ![m].answers = ~@]
     \/ \E n \in Machines : etcd' = [etcd EXCEPT ![m].members = @ \cup {n}]
     \/ \E n \in Machines : etcd[m].members # {n} /\ etcd' = [etcd EXCEPT ![m].members = @ \ {n}]
     \/ etcd' = [etcd EXCEPT ![m].alarm = ~@]
     \/ etcd' = [etcd EXCEPT ![m].cluster = "b"]
  /\ etcd' # etcd
  /\ UNCHANGED <<machine, kcp, node, pc, view, local, faults>>

MachineChanges(m) ==
  /\ Change
  /\ machine[m].exists
  /\ \/ /\ ~machine[m].ref /\ node[m].there
        /\ machine' = [machine EXCEPT ![m].ref = TRUE]
     \/ ~machine[m].deleting /\ machine' = [machine EXCEPT ![m].deleting = TRUE]
     \/ machine[m].deleting /\ machine' = [machine EXCEPT ![m].exists = FALSE]
  /\ UNCHANGED <<kcp, env, pc, view, local, faults>>

Fault == faults < MaxFaults /\ faults' = faults + 1 /\ calm' = FALSE

-----------------------------------------------------------------------------

\* aggregateFromMachinesToKCP: errors first, then one machine that is well, then
\* one that is unknown; otherwise the condition stays.
Aggregate(statuses, errors, old) ==
  CASE errors \/ "False" \in statuses -> "False"
    [] ~errors /\ "False" \notin statuses /\ "True" \in statuses -> "True"
    [] ~errors /\ statuses \cap {"True", "False"} = {} /\ "Unknown" \in statuses -> "Unknown"
    [] OTHER -> old

\* The machines of the control plane, those with a node, and those still without.
Owned == {m \in Machines : view[m].exists}
WithNode == {m \in Owned : view[m].ref}
HasProvisioningMachine == Owned \ WithNode # {}

StartInspection ==
  /\ pc = "idle"
  /\ pc' = "agentList"
  /\ view' = machine
  /\ calm' = TRUE
  /\ UNCHANGED <<machine, kcp, env, local, changes, faults>>

GetControlPlaneNodes ==
  LET there == {m \in Machines : node[m].there}
  IN  /\ listed' = [all |-> there, unreachable |-> {m \in there : node[m].unreachable}]
      /\ todo' = there
      /\ kcpErrors' = FALSE

AgentList ==
  /\ pc = "agentList"
  /\ GetControlPlaneNodes
  /\ pc' = "agent"
  /\ UNCHANGED <<machine, kcp, env, view, baseline, calm, changes, faults>>

AgentListFails ==
  /\ pc = "agentList"
  /\ Fault
  /\ view' = [m \in Machines |-> IF m \in Owned THEN [view[m] EXCEPT !.agent = "Unknown"] ELSE view[m]]
  /\ kcp' = [kcp EXCEPT !.components = "Unknown"]
  /\ pc' = "etcdList"
  /\ UNCHANGED <<machine, env, local, changes>>

\* Bug: the taint is not looked at.
BugAgentStatus(m) ==
  CASE view[m].deleting -> "False"
    [] ~view[m].deleting /\ node[m].ready -> "True"
    [] OTHER -> view[m].agent

\* What one node says about its machine.  A kubelet that is not ready and not
\* (yet) tainted changes nothing.
AgentStatus(m) ==
  CASE view[m].deleting -> "False"
    [] ~view[m].deleting /\ m \in listed.unreachable -> "Unknown"
    [] ~view[m].deleting /\ m \notin listed.unreachable /\ node[m].ready -> "True"
    [] OTHER -> view[m].agent

\* A deleting machine and an unreachable node are decided without a second call.
NeedsGet(m) == m \in WithNode /\ ~view[m].deleting /\ m \notin listed.unreachable

AgentNode(m) ==
  /\ pc = "agent" /\ m \in todo
  /\ NeedsGet(m) => node[m].there
  /\ todo' = todo \ {m}
  /\ IF m \in WithNode
     THEN view' = [view EXCEPT ![m].agent = AgentStatus(m)] /\ UNCHANGED kcpErrors
     ELSE kcpErrors' = (kcpErrors \/ ~HasProvisioningMachine) /\ UNCHANGED view
  /\ UNCHANGED <<machine, kcp, env, pc, listed, baseline, calm, changes, faults>>

\* The node is gone, or cannot be read: the inspection of the agents ends here.
AgentNodeMissing(m) ==
  /\ pc = "agent" /\ m \in todo
  /\ NeedsGet(m) /\ ~node[m].there
  /\ view' = [view EXCEPT ![m].agent = "False"]
  /\ pc' = "etcdList"
  /\ UNCHANGED <<machine, kcp, env, local, calm, changes, faults>>

AgentNodeFails(m) ==
  /\ pc = "agent" /\ m \in todo
  /\ NeedsGet(m)
  /\ Fault
  /\ view' = [view EXCEPT ![m].agent = "Unknown"]
  /\ pc' = "etcdList"
  /\ UNCHANGED <<machine, kcp, env, local, changes>>

AgentRest ==
  /\ pc = "agent" /\ todo = {}
  /\ view' = [m \in Machines |->
                IF m \in WithNode \ listed.all
                THEN [view[m] EXCEPT !.agent = "False"] ELSE view[m]]
  /\ kcp' = [kcp EXCEPT !.components = Aggregate({view'[m].agent : m \in Owned}, kcpErrors, @)]
  /\ pc' = "etcdList"
  /\ UNCHANGED <<machine, env, local, calm, changes, faults>>

-----------------------------------------------------------------------------

EtcdList ==
  /\ pc = "etcdList"
  /\ GetControlPlaneNodes
  /\ pc' = "etcd"
  /\ UNCHANGED <<machine, kcp, env, view, baseline, calm, changes, faults>>

EtcdListFails ==
  /\ pc = "etcdList"
  /\ Fault
  /\ view' = [m \in Machines |-> IF m \in Owned THEN [view[m] EXCEPT !.etcd = "Unknown"] ELSE view[m]]
  /\ kcp' = [kcp EXCEPT !.etcd = "Unknown"]
  /\ pc' = "patch"
  /\ UNCHANGED <<machine, env, local, changes>>

\* The lists are compared with the first one, then the member must be in it, have
\* no alarm and be of the same cluster as the first that got this far.
Agrees(m, members) == etcd[m].members = members

\* Bug: every member is its own baseline.
BugMemberStatus(m) ==
  IF m \in etcd[m].members /\ ~etcd[m].alarm THEN "True" ELSE "False"

MemberStatus(m) ==
  LET first == IF baseline.members = {} THEN etcd[m].members ELSE baseline.members
  IN  IF /\ Agrees(m, first)
         /\ m \in etcd[m].members
         /\ ~etcd[m].alarm
         /\ baseline.cluster \in {"none", etcd[m].cluster}
      THEN "True" ELSE "False"

\* What later members are compared with once m answered.
NextBaseline(m) ==
  LET first == IF baseline.members = {} THEN etcd[m].members ELSE baseline.members
  IN  [members |-> first,
       cluster |-> IF /\ baseline.cluster = "none"
                      /\ Agrees(m, first) /\ m \in etcd[m].members /\ ~etcd[m].alarm
                   THEN etcd[m].cluster ELSE baseline.cluster]

\* getCurrentEtcdMembers for node m answers.
EtcdNode(m) ==
  /\ pc = "etcd" /\ m \in todo
  /\ m \in WithNode /\ ~view[m].deleting => etcd[m].answers
  /\ todo' = todo \ {m}
  /\ \/ /\ m \notin WithNode
        /\ kcpErrors' = (kcpErrors \/ ~HasProvisioningMachine)
        /\ UNCHANGED <<view, baseline>>
     \/ /\ m \in WithNode /\ view[m].deleting
        /\ view' = [view EXCEPT ![m].etcd = "False"]
        /\ UNCHANGED <<kcpErrors, baseline>>
     \/ /\ m \in WithNode /\ ~view[m].deleting
        /\ view' = [view EXCEPT ![m].etcd = MemberStatus(m)]
        /\ baseline' = NextBaseline(m)
        /\ UNCHANGED kcpErrors
  /\ UNCHANGED <<machine, kcp, env, pc, listed, calm, changes, faults>>

\* No connection, errors in the member's status, or no list.
EtcdNodeFails(m) ==
  /\ pc = "etcd" /\ m \in todo
  /\ m \in WithNode /\ ~view[m].deleting
  /\ \/ ~etcd[m].answers /\ UNCHANGED <<calm, faults>>
     \/ etcd[m].answers /\ Fault
  /\ todo' = todo \ {m}
  /\ view' = [view EXCEPT ![m].etcd = "False"]
  /\ UNCHANGED <<machine, kcp, env, pc, listed, kcpErrors, baseline, changes>>

\* compareMachinesAndMembers: the machines that have no member, and whether a
\* member has no machine; nothing if no list is known.
WithoutMember ==
  IF baseline.members = {} THEN {} ELSE WithNode \ baseline.members
MemberWithoutMachine == ~(baseline.members \subseteq WithNode)

EtcdRest ==
  /\ pc = "etcd" /\ todo = {}
  /\ view' = [m \in Machines |->
                IF m \in WithoutMember THEN [view[m] EXCEPT !.etcd = "False"] ELSE view[m]]
  /\ kcp' = [kcp EXCEPT !.etcd = Aggregate({view'[m].etcd : m \in Owned},
                                           kcpErrors \/ MemberWithoutMachine, @)]
  /\ pc' = "patch"
  /\ UNCHANGED <<machine, env, local, calm, changes, faults>>

-----------------------------------------------------------------------------

\* PatchMachines writes every machine's conditions; one that cannot be written
\* does not keep the others from being written.
Patched(failed) ==
  [m \in Machines |->
     IF m \in failed \/ m \notin Owned THEN machine[m]
     ELSE [machine[m] EXCEPT !.agent = view[m].agent, !.etcd = view[m].etcd]]

Finish ==
  /\ pc' = "idle"
  /\ view' = machine'
  /\ listed' = Nothing /\ todo' = {} /\ kcpErrors' = FALSE /\ baseline' = None

PatchMachines ==
  /\ pc = "patch"
  /\ machine' = Patched({})
  /\ Finish
  /\ calm' = FALSE
  /\ UNCHANGED <<kcp, env, changes, faults>>

PatchMachinesFails ==
  /\ pc = "patch"
  /\ Fault
  /\ \E failed \in SUBSET Machines \ {{}} : machine' = Patched(failed)
  /\ Finish
  /\ UNCHANGED <<kcp, env, changes>>

Environment == \E m \in Machines : NodeChanges(m) \/ MemberChanges(m) \/ MachineChanges(m)

Inspect ==
  \/ StartInspection
  \/ AgentList \/ AgentListFails \/ AgentRest
  \/ \E m \in Machines : AgentNode(m) \/ AgentNodeMissing(m) \/ AgentNodeFails(m)
  \/ EtcdList \/ EtcdListFails \/ EtcdRest
  \/ \E m \in Machines : EtcdNode(m) \/ EtcdNodeFails(m)
  \/ PatchMachines \/ PatchMachinesFails

Next == Inspect \/ Environment

Spec == Init /\ [][Next]_vars

-----------------------------------------------------------------------------
\* An inspection that nothing disturbed is over.
Inspected == pc = "patch" /\ calm

(* After an undisturbed inspection no machine whose node is gone or            *)
(* unreachable, and none that is being deleted with a node, counts as healthy  *)
(* (workload_cluster.go 219-309), whatever earlier inspections said.           *)
LostNodesNotHealthy ==
  Inspected =>
    \A m \in WithNode :
      (~node[m].there \/ node[m].unreachable \/ view[m].deleting)
        => view[m].agent # "True"

\* Machines whose member was asked.
Asked == {m \in WithNode : node[m].there /\ ~view[m].deleting}

(* EtcdClusterHealthy, on which reconcileEtcdMembers relies, is true after an  *)
(* undisturbed inspection only if all members that were asked answered with    *)
(* the same list, belong to one cluster and have no alarm, and the list holds  *)
(* the machines' members and no other: in whichever order they were asked.     *)
EtcdHealthyMeansConsistent ==
  Inspected /\ kcp.etcd = "True" /\ Asked # {} =>
    /\ \A m \in Asked : etcd[m].answers /\ ~etcd[m].alarm
    /\ \A m, n \in Asked : etcd[m].members = etcd[n].members /\ etcd[m].cluster = etcd[n].cluster
    /\ \A m \in Asked : etcd[m].members = WithNode

-----------------------------------------------------------------------------
(* What the conditions rest on, at each point of an undisturbed inspection.    *)

Lost(m) == ~node[m].there \/ node[m].unreachable \/ view[m].deleting

\* A member's list is never empty, so a baseline that is set stays.
MembersKnown ==
  /\ \A m \in Machines : etcd[m].members # {}
  /\ pc \notin {"etcd", "patch"} => baseline = None

\* What was listed is what there is.
ListedNow ==
  calm /\ pc \in {"agent", "etcd"} =>
    \A m \in Machines :
      /\ m \in listed.all <=> node[m].there
      /\ m \in listed.all => (m \in listed.unreachable <=> node[m].unreachable)

\* Lost machines are marked when their node is looked at, or after the last one.
AgentsMarked ==
  /\ calm /\ pc = "agent" =>
       \A m \in WithNode : m \in listed.all \ todo /\ Lost(m) => view[m].agent # "True"
  /\ calm /\ pc \in {"etcdList", "etcd", "patch"} =>
       \A m \in WithNode : Lost(m) => view[m].agent # "True"

\* A member that was found well agrees with the baseline, whichever came first.
Consistent(m) ==
  /\ etcd[m].answers /\ ~etcd[m].alarm
  /\ etcd[m].members = baseline.members
  /\ etcd[m].cluster = baseline.cluster

MembersMarked ==
  calm /\ pc = "etcd" =>
    \A m \in Asked \ todo :
      /\ view[m].etcd \in {"True", "False"}
      /\ view[m].etcd = "True" => Consistent(m)

IInv ==
  /\ TypeOK /\ MembersKnown /\ ListedNow /\ AgentsMarked /\ MembersMarked
  /\ EtcdHealthyMeansConsistent
=============================================================================
