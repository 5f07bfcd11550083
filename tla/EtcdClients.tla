----------------------------- MODULE EtcdClients -----------------------------
(***************************************************************************)
(* The etcd client generator of a workload cluster: it finds the proxy pod   *)
(* of a node, opens a client through it, and finds the leader by asking any  *)
(* node that answers.  Pods are recycled, nodes go down and come back, and   *)
(* the leadership moves between any two of its calls.                        *)
(*                                                                         *)
(* A generator belongs to one Workload, that is, to one reconcile.  A pod is *)
(* the number of its incarnation on its node, 0 when there is none.  A       *)
(* member has the name of its node (NodeNameFromMember).                     *)
(***************************************************************************)
EXTENDS Naturals, FiniteSets

CONSTANTS
  Nodes,      \* control plane nodes, one etcd member each
  Nobody,     \* no leader; no node
  MaxChanges  \* bound: changes of pods, nodes and leadership

ASSUME ConstantsAssumption ==
  /\ IsFiniteSet(Nodes) /\ Nodes # {}
  /\ Nobody \notin Nodes
  /\ MaxChanges \in Nat

NoMap == [n \in {} |-> 0]

VARIABLES
  pod,     \* the proxy pod of each node
  up,      \* nodes whose etcd answers
  leader,  \* the member that leads
  changes, \* changes of the three so far
  podMap,  \* etcdPodMap; NoMap stands for nil
  open,    \* etcd clients that have not been closed
  pc,      \* where the current call is
  asked,   \* the nodeNames of the call
  todo,    \* those it has not tried
  target,  \* the node it connects to
  temp,    \* the temporary client of getLeaderClient
  gone     \* history: pods that were dialled when they did not exist any more

world == <<pod, up, leader, changes>>
vars == <<pod, up, leader, changes, podMap, open, pc, asked, todo, target, temp, gone>>

\* A client: the node it is connected to and the LeaderID that it was told.
Clients == [node : Nodes, leader : Nodes \cup {Nobody}]
NoClient == [node |-> Nobody, leader |-> Nobody]

TypeOK ==
  /\ pod \in [Nodes -> 0 .. MaxChanges + 1]
  /\ up \subseteq Nodes
  /\ leader \in Nodes \cup {Nobody}
  /\ changes \in 0 .. MaxChanges
  /\ DOMAIN podMap \subseteq Nodes
  /\ \A n \in DOMAIN podMap : podMap[n] \in 1 .. MaxChanges + 1
  /\ open \subseteq Clients \X {"temp", "leader"}
  /\ pc \in {"idle", "next", "find", "dial", "members", "findLeader", "dialLeader", "use"}
  /\ todo \subseteq asked /\ asked \subseteq Nodes
  /\ target \in Nodes \cup {Nobody}
  /\ temp \in Clients \cup {NoClient}

Init ==
  /\ pod = [n \in Nodes |-> 1]
  /\ up = Nodes
  /\ leader \in Nodes
  /\ changes = 0
  /\ podMap = NoMap
  /\ open = {}
  /\ pc = "idle"
  /\ asked = {} /\ todo = {} /\ target = Nobody /\ temp = NoClient
  /\ gone = {}

\* The call is over with an error; getLeaderClient has closed its temporary client.
Done ==
  /\ pc' = "idle"
  /\ open' = open \ {<<temp, "temp">>}
  /\ asked' = {} /\ todo' = {} /\ target' = Nobody /\ temp' = NoClient

\* Bug: the generator outlives the reconcile, and its pod map with it.
BugGetWorkloadCluster == pc = "idle" /\ UNCHANGED vars

\* The next reconcile has a generator of its own.
GetWorkloadCluster ==
  /\ pc = "idle" /\ podMap # NoMap
  /\ podMap' = NoMap
  /\ UNCHANGED <<open, pc, asked, todo, target, temp, world, gone>>

\* ForwardEtcdLeadership, EtcdMembers: forLeader with the control plane's nodes.
StartForLeader ==
  /\ pc = "idle"
  /\ pc' = "next" /\ asked' = Nodes /\ todo' = Nodes
  /\ UNCHANGED <<podMap, open, target, temp, world, gone>>

\* One round of the loop in forLeader; out of nodes, the call fails.
NextNode ==
  /\ pc = "next"
  /\ \/ /\ todo = {} /\ Done
     \/ \E n \in todo :
          /\ target' = n /\ todo' = todo \ {n} /\ pc' = "find"
          /\ UNCHANGED <<open, asked, temp>>
  /\ UNCHANGED <<podMap, world, gone>>

\* A failure to connect: fatal for the leader's node, otherwise the next is tried.
ConnectionFailed ==
  \/ pc \in {"findLeader", "dialLeader"} /\ Done
  \/ /\ pc \in {"find", "dial"}
     /\ pc' = "next"
     /\ UNCHANGED <<open, asked, todo, target, temp>>

Pods == [n \in {m \in Nodes : pod[m] # 0} |-> pod[n]]

\* List the proxy pods unless they are known, and look the node up.  The list is
\* an API call of its own, which may fail; without any pod there is no map.
findEtcdProxyPod ==
  /\ pc \in {"find", "findLeader"}
  /\ \/ podMap = NoMap /\ ConnectionFailed /\ UNCHANGED podMap
     \/ \E map \in {IF podMap = NoMap THEN Pods ELSE podMap} :
          /\ podMap' = map
          /\ \/ target \notin DOMAIN map /\ ConnectionFailed
             \/ /\ target \in DOMAIN map
                /\ pc' = IF pc = "find" THEN "dial" ELSE "dialLeader"
                /\ UNCHANGED <<open, asked, todo, target, temp>>
  /\ UNCHANGED <<world, gone>>

Answers == target \in up /\ podMap[target] = pod[target]

\* Bug: a pod map that led nowhere is kept.
BugCreateClientKeepsMap ==
  /\ pc \in {"dial", "dialLeader"}
  /\ ~Answers
  /\ ConnectionFailed
  /\ gone' = IF podMap[target] # pod[target] THEN gone \cup {<<target, podMap[target]>>} ELSE gone
  /\ UNCHANGED <<podMap, world>>

\* createClient fails: the pod does not exist any more, or its etcd does not
\* answer the status request, and the client that was dialled is closed again.
CreateClientFails ==
  /\ pc \in {"dial", "dialLeader"}
  /\ ~Answers
  /\ podMap' = NoMap
  /\ ConnectionFailed
  /\ gone' = IF podMap[target] # pod[target] THEN gone \cup {<<target, podMap[target]>>} ELSE gone
  /\ UNCHANGED world

\* createClient succeeds, with the leader as the node's etcd reports it.
CreateTemporaryClient ==
  /\ pc = "dial"
  /\ Answers
  /\ temp' = [node |-> target, leader |-> leader]
  /\ open' = open \cup {<<temp', "temp">>}
  /\ pc' = "members"
  /\ UNCHANGED <<podMap, asked, todo, target, world, gone>>

\* Bug: the deferred Close takes the variable, which holds the leader's client by then.
BugCloseReassigned ==
  /\ pc = "dialLeader"
  /\ Answers
  /\ open' = open \cup {<<[node |-> target, leader |-> leader], "leader">>}
  /\ pc' = "use"
  /\ temp' = NoClient
  /\ UNCHANGED <<podMap, asked, todo, target, world, gone>>

\* The leader's client is returned, and the temporary one closed.
CreateLeaderClient ==
  /\ pc = "dialLeader"
  /\ Answers
  /\ open' = {<<[node |-> target, leader |-> leader], "leader">>}
  /\ pc' = "use"
  /\ temp' = NoClient
  /\ UNCHANGED <<podMap, asked, todo, target, world, gone>>

\* The list of members goes through the quorum.
Quorum == 2 * Cardinality(up) > Cardinality(Nodes)

\* Members fails: the temporary client is closed and the next node is tried.
MembersFail ==
  /\ pc = "members"
  /\ temp.node \notin up \/ ~Quorum
  /\ open' = open \ {<<temp, "temp">>}
  /\ temp' = NoClient
  /\ pc' = "next"
  /\ UNCHANGED <<podMap, asked, todo, target, world, gone>>

\* The leader among the members, which has to be one of the nodes.
FindLeader ==
  /\ pc = "members"
  /\ temp.node \in up /\ Quorum
  /\ \/ temp.leader \notin asked /\ Done
     \/ /\ temp.leader \in asked
        /\ target' = temp.leader /\ pc' = "findLeader"
        /\ UNCHANGED <<open, asked, todo, temp>>
  /\ UNCHANGED <<podMap, world, gone>>

\* The caller is through with the client; its deferred Close runs.
CloseClient ==
  /\ pc = "use"
  /\ pc' = "idle"
  /\ open' = {c \in open : c[2] # "leader"}
  /\ asked' = {} /\ todo' = {} /\ target' = Nobody /\ temp' = NoClient
  /\ UNCHANGED <<podMap, world, gone>>

-----------------------------------------------------------------------------
(* The workload cluster.                                                     *)

Change == changes < MaxChanges /\ changes' = changes + 1
generator == <<podMap, open, pc, asked, todo, target, temp, gone>>

\* Incarnations are numbered by the change that made them.
PodRecycled(n) ==
  /\ Change
  /\ pod' = [pod EXCEPT ![n] = IF @ = 0 THEN changes + 2 ELSE 0]
  /\ UNCHANGED <<up, leader, generator>>

NodeChanges(n) ==
  /\ Change
  /\ up' = IF n \in up THEN up \ {n} ELSE up \cup {n}
  /\ leader' = IF leader \in up' THEN leader ELSE Nobody
  /\ UNCHANGED <<pod, generator>>

\* An election, or the leadership handed over; an election needs no change.
Elected(n) ==
  /\ Quorum /\ n \in up /\ n # leader
  /\ IF leader = Nobody THEN UNCHANGED changes ELSE Change
  /\ leader' = n
  /\ UNCHANGED <<pod, up, generator>>

Generator ==
  \/ StartForLeader \/ NextNode \/ findEtcdProxyPod \/ CreateClientFails
  \/ CreateTemporaryClient \/ CreateLeaderClient \/ MembersFail \/ FindLeader \/ CloseClient

Next ==
  \/ GetWorkloadCluster
  \/ Generator
  \/ \E n \in Nodes : PodRecycled(n) \/ NodeChanges(n) \/ Elected(n)

Spec == Init /\ [][Next]_vars

\* Reconciles go on and each has its own generator; listing pods works in the
\* end; a quorum without a leader elects one.
FairSpec ==
  /\ Spec
  /\ WF_vars(Generator)
  /\ SF_vars(GetWorkloadCluster)
  /\ SF_vars(findEtcdProxyPod /\ pc' \in {"dial", "dialLeader"})
  /\ WF_vars(\E n \in Nodes : leader = Nobody /\ Elected(n))

-----------------------------------------------------------------------------
(* Every client is closed by the end of the call that opened it, whichever of *)
(* its steps failed, and the caller gets one client (etcd_client_generator.go *)
(* 164-203, with its deferred Close and its reassigned variable).              *)
ClientsClosed ==
  /\ pc = "idle" => open = {}
  /\ pc = "next" => open = {}
  /\ pc = "use" => Cardinality(open) = 1

(* A pod that turned out to be gone is not dialled again: a failed connection  *)
(* makes the next attempt list the pods anew ("in case the pod was recycled    *)
(* between the list and the connection attempt", etcd_client_generator.go 120).*)
RecycledPodsForgotten ==
  pc \in {"dial", "dialLeader"} => <<target, podMap[target]>> \notin gone

Healthy == up = Nodes /\ \A n \in Nodes : pod[n] # 0

(* When the cluster is healthy for good, the leader's client is found again    *)
(* and again, whatever the generators saw before                               *)
(* (management_cluster.go 79-121).                                             *)
LeaderReached == <>[]Healthy => []<>(pc = "use")

-----------------------------------------------------------------------------
(* What the two invariants rest on: which clients are open at each point of a  *)
(* call, and that a pod which is gone never comes back, since what replaces it *)
(* is another one.                                                           *)

\* The clients that the code has opened and not closed when it gets here.
ClientsInPlace ==
  /\ pc \in {"idle", "next", "find", "dial"} => open = {} /\ temp = NoClient
  /\ pc \in {"members", "findLeader", "dialLeader"} => temp \in Clients /\ open = {<<temp, "temp">>}
  /\ pc = "use" => \E c \in Clients : open = {<<c, "leader">>}

\* A pod is dialled only if the pod map names it.
DialsWhatIsKnown == pc \in {"dial", "dialLeader"} => target \in DOMAIN podMap

\* The pods that are or were: the next one to be made is not among them.
PodsNumbered ==
  /\ \A n \in Nodes : pod[n] <= changes + 1
  /\ \A n \in DOMAIN podMap : podMap[n] <= changes + 1

\* A pod that is gone neither exists nor is expected to.
GoneForGood ==
  /\ gone \subseteq Nodes \X (1 .. changes + 1)
  /\ \A n \in Nodes : <<n, pod[n]>> \notin gone
  /\ \A n \in DOMAIN podMap : <<n, podMap[n]>> \notin gone

IInv == TypeOK /\ ClientsInPlace /\ DialsWhatIsKnown /\ PodsNumbered /\ GoneForGood
=============================================================================
