------------------------ MODULE HealthConditions_proofs ------------------------
(***************************************************************************)
(* The conditions that an inspection of the control plane reports, for any   *)
(* number of machines, changes and failing calls.                            *)
(***************************************************************************)
EXTENDS HealthConditions, TLAPS

-----------------------------------------------------------------------------
(* The type invariant in parts, by the variables they are about.              *)

NodeStates == [there : BOOLEAN, ready : BOOLEAN, unreachable : BOOLEAN]
MemberStates == [answers : BOOLEAN, members : SUBSET Machines, alarm : BOOLEAN, cluster : {"a", "b"}]
Baselines == [members : SUBSET Machines, cluster : {"none", "a", "b"}]

MachinePart == machine \in [Machines -> MachineStates]
ViewPart == view \in [Machines -> MachineStates]
KcpPart == kcp \in [components : Statuses, etcd : Statuses]

EnvPart ==
  /\ node \in [Machines -> NodeStates]
  /\ etcd \in [Machines -> MemberStates]
  /\ \A m \in Machines : etcd[m].members # {}

LocalPart ==
  /\ pc \in {"idle", "agentList", "agent", "etcdList", "etcd", "patch"}
  /\ listed \in [all : SUBSET Machines, unreachable : SUBSET Machines]
  /\ listed.unreachable \subseteq listed.all /\ todo \subseteq listed.all
  /\ kcpErrors \in BOOLEAN /\ calm \in BOOLEAN
  /\ baseline \in Baselines
  /\ pc \notin {"etcd", "patch"} => baseline = None

CountPart == changes \in 0 .. MaxChanges /\ faults \in 0 .. MaxFaults

Types == MachinePart /\ ViewPart /\ KcpPart /\ EnvPart /\ LocalPart /\ CountPart

Marks == ListedNow /\ AgentsMarked /\ MembersMarked /\ EtcdHealthyMeansConsistent

LEMMA Parts == IInv <=> Types /\ Marks
BY DEF IInv, Types, Marks, TypeOK, MembersKnown, MachinePart, ViewPart, KcpPart, EnvPart, LocalPart,
       CountPart, NodeStates, MemberStates, Baselines

LEMMA PartsNext == Types' /\ Marks' => IInv'
BY DEF IInv, Types, Marks, TypeOK, MembersKnown, MachinePart, ViewPart, KcpPart, EnvPart, LocalPart,
       CountPart, NodeStates, MemberStates, Baselines

\* A disturbed inspection promises nothing.
LEMMA Disturbed ==
  ASSUME calm' = FALSE
  PROVE  Marks'
BY DEF Marks, ListedNow, AgentsMarked, MembersMarked, EtcdHealthyMeansConsistent, Inspected

-----------------------------------------------------------------------------
(* What the operators return.                                                 *)

LEMMA MachineFields ==
  ASSUME NEW s \in MachineStates
  PROVE  /\ s.exists \in BOOLEAN /\ s.ref \in BOOLEAN /\ s.deleting \in BOOLEAN
         /\ s.agent \in Statuses /\ s.etcd \in Statuses
BY DEF MachineStates

\* A control plane condition that says healthy, when some machine's condition is
\* known to be good or bad, hides nothing that is bad.
LEMMA AggregateHealthy ==
  ASSUME NEW S \in SUBSET Statuses, NEW errors \in BOOLEAN, NEW old \in Statuses
  PROVE  /\ Aggregate(S, errors, old) \in Statuses
         /\ Aggregate(S, errors, old) = "True" /\ S \cap {"True", "False"} # {}
              => ~errors /\ "False" \notin S
<1>1. CASE errors \/ "False" \in S
  BY <1>1 DEF Aggregate, Statuses
<1>2. CASE ~errors /\ "False" \notin S
  <2>1. CASE "True" \in S
    BY <1>2, <2>1 DEF Aggregate, Statuses
  <2>2. CASE "True" \notin S /\ "Unknown" \in S
    BY <1>2, <2>2 DEF Aggregate, Statuses
  <2>3. CASE "True" \notin S /\ "Unknown" \notin S
    <3>1. Aggregate(S, errors, old) = old
      BY <1>2, <2>3 DEF Aggregate
    <3>2. QED
      BY <1>2, <2>3, <3>1
  <2>4. QED
    BY <2>1, <2>2, <2>3
<1>3. QED
  BY <1>1, <1>2

\* A lost machine whose node was listed is not reported healthy.
LEMMA AgentStatusIsStatus ==
  ASSUME Types, NEW m \in Machines
  PROVE  /\ AgentStatus(m) \in Statuses
         /\ view[m].deleting \/ m \in listed.unreachable => AgentStatus(m) # "True"
<1>1. view[m].deleting \in BOOLEAN /\ view[m].agent \in Statuses /\ node[m].ready \in BOOLEAN
  BY MachineFields DEF Types, ViewPart, EnvPart, NodeStates
<1>2. CASE view[m].deleting
  BY <1>2 DEF AgentStatus, Statuses
<1>3. CASE ~view[m].deleting /\ m \in listed.unreachable
  BY <1>3 DEF AgentStatus, Statuses
<1>4. CASE ~view[m].deleting /\ m \notin listed.unreachable /\ node[m].ready
  BY <1>4 DEF AgentStatus, Statuses
<1>5. CASE ~view[m].deleting /\ m \notin listed.unreachable /\ ~node[m].ready
  <2>1. AgentStatus(m) = view[m].agent
    BY <1>5 DEF AgentStatus
  <2>2. QED
    BY <1>1, <1>5, <2>1
<1>6. QED
  BY <1>1, <1>2, <1>3, <1>4, <1>5

-----------------------------------------------------------------------------
(* What an inspection does to its view of the machines.                        *)

\* Which machines there are does not change while an inspection runs.
SameMachines ==
  \A m \in Machines :
    /\ view'[m].exists = view[m].exists /\ view'[m].ref = view[m].ref
    /\ view'[m].deleting = view[m].deleting

LEMMA SameSets ==
  ASSUME SameMachines
  PROVE  Owned' = Owned /\ WithNode' = WithNode
<1>1. Owned' = Owned
  BY DEF SameMachines, Owned
<1>2. QED
  BY <1>1 DEF SameMachines, WithNode, Owned

LEMMA AgentsSet ==
  ASSUME ViewPart, NEW S \in SUBSET Machines, NEW s \in Statuses,
         view' = [m \in Machines |-> IF m \in S THEN [view[m] EXCEPT !.agent = s] ELSE view[m]]
  PROVE  /\ ViewPart' /\ SameMachines
         /\ \A m \in Machines : view'[m].etcd = view[m].etcd
         /\ \A m \in Machines : view'[m].agent = IF m \in S THEN s ELSE view[m].agent
<1>1. \A m \in Machines :
        /\ view[m] \in MachineStates
        /\ view'[m] = IF m \in S THEN [view[m] EXCEPT !.agent = s] ELSE view[m]
  BY DEF ViewPart
<1>2. \A m \in Machines :
        LET t == [view[m] EXCEPT !.agent = s]
        IN  /\ t \in MachineStates /\ t.exists = view[m].exists /\ t.ref = view[m].ref
            /\ t.deleting = view[m].deleting /\ t.etcd = view[m].etcd /\ t.agent = s
  BY <1>1 DEF MachineStates
<1>3. ViewPart'
  <2>1. \A m \in Machines : view'[m] \in MachineStates
    BY <1>1, <1>2
  <2>2. QED
    BY <2>1 DEF ViewPart
<1>4. QED
  BY <1>1, <1>2, <1>3 DEF SameMachines

LEMMA EtcdsSet ==
  ASSUME ViewPart, NEW S \in SUBSET Machines, NEW s \in Statuses,
         view' = [m \in Machines |-> IF m \in S THEN [view[m] EXCEPT !.etcd = s] ELSE view[m]]
  PROVE  /\ ViewPart' /\ SameMachines
         /\ \A m \in Machines : view'[m].agent = view[m].agent
         /\ \A m \in Machines : view'[m].etcd = IF m \in S THEN s ELSE view[m].etcd
<1>1. \A m \in Machines :
        /\ view[m] \in MachineStates
        /\ view'[m] = IF m \in S THEN [view[m] EXCEPT !.etcd = s] ELSE view[m]
  BY DEF ViewPart
<1>2. \A m \in Machines :
        LET t == [view[m] EXCEPT !.etcd = s]
        IN  /\ t \in MachineStates /\ t.exists = view[m].exists /\ t.ref = view[m].ref
            /\ t.deleting = view[m].deleting /\ t.agent = view[m].agent /\ t.etcd = s
  BY <1>1 DEF MachineStates
<1>3. ViewPart'
  <2>1. \A m \in Machines : view'[m] \in MachineStates
    BY <1>1, <1>2
  <2>2. QED
    BY <2>1 DEF ViewPart
<1>4. QED
  BY <1>1, <1>2, <1>3 DEF SameMachines

LEMMA AgentSet ==
  ASSUME ViewPart, NEW n \in Machines, NEW s \in Statuses, view' = [view EXCEPT ![n].agent = s]
  PROVE  /\ ViewPart' /\ SameMachines
         /\ \A m \in Machines : view'[m].etcd = view[m].etcd
         /\ \A m \in Machines : view'[m].agent = IF m = n THEN s ELSE view[m].agent
<1>1. view' = [m \in Machines |-> IF m \in {n} THEN [view[m] EXCEPT !.agent = s] ELSE view[m]]
  BY DEF ViewPart
<1>2. QED
  BY <1>1, AgentsSet

LEMMA EtcdSet ==
  ASSUME ViewPart, NEW n \in Machines, NEW s \in Statuses, view' = [view EXCEPT ![n].etcd = s]
  PROVE  /\ ViewPart' /\ SameMachines
         /\ \A m \in Machines : view'[m].agent = view[m].agent
         /\ view'[n].etcd = s /\ \A m \in Machines \ {n} : view'[m].etcd = view[m].etcd
<1>1. view' = [m \in Machines |-> IF m \in {n} THEN [view[m] EXCEPT !.etcd = s] ELSE view[m]]
  BY DEF ViewPart
<1>2. QED
  BY <1>1, EtcdsSet

-----------------------------------------------------------------------------
(* Nodes, members and machines change.                                        *)

LEMMA ChangeCounts ==
  ASSUME Types, Change, faults' = faults
  PROVE  CountPart' /\ calm' = FALSE
BY HealthAssumption DEF Types, CountPart, Change

LEMMA FaultCounts ==
  ASSUME Types, Fault, changes' = changes
  PROVE  CountPart' /\ calm' = FALSE
BY HealthAssumption DEF Types, CountPart, Fault

LEMMA NodeStep ==
  ASSUME Types, NEW m \in Machines, NodeChanges(m)
  PROVE  Types' /\ Marks'
<1>1. CountPart' /\ calm' = FALSE
  BY ChangeCounts DEF NodeChanges
<1>2. PICK s \in NodeStates : node' = [node EXCEPT ![m] = s]
  BY DEF NodeChanges, NodeStates
<1>3. node' \in [Machines -> NodeStates]
  BY <1>2 DEF Types, EnvPart
<1>4. Types'
  BY <1>1, <1>3 DEF NodeChanges, local, Types, MachinePart, ViewPart, KcpPart, EnvPart, LocalPart
<1>5. QED
  BY <1>1, <1>4, Disturbed

LEMMA MemberStep ==
  ASSUME Types, NEW m \in Machines, MemberChanges(m)
  PROVE  Types' /\ Marks'
<1>1. CountPart' /\ calm' = FALSE
  BY ChangeCounts DEF MemberChanges
<1> DEFINE e == etcd[m]
<1>2. e \in MemberStates /\ e.members # {} /\ e.members \subseteq Machines
  BY DEF Types, EnvPart, MemberStates
<1>3. ASSUME NEW t \in MemberStates, t.members # {}, etcd' = [etcd EXCEPT ![m] = t]
      PROVE  EnvPart'
  <2>1. etcd' \in [Machines -> MemberStates]
    BY <1>3 DEF Types, EnvPart
  <2>2. \A n \in Machines : etcd'[n] = IF n = m THEN t ELSE etcd[n]
    BY <1>3 DEF Types, EnvPart
  <2>3. QED
    BY <1>3, <2>1, <2>2 DEF Types, EnvPart, MemberChanges
<1>4. ASSUME etcd' = [etcd EXCEPT ![m].answers = ~@]
      PROVE  EnvPart'
  <2>1. [e EXCEPT !.answers = ~@] \in MemberStates /\ [e EXCEPT !.answers = ~@].members = e.members
    BY <1>2 DEF MemberStates
  <2>2. QED
    BY <1>2, <1>3, <1>4, <2>1
<1>5. ASSUME NEW n \in Machines, etcd' = [etcd EXCEPT ![m].members = @ \cup {n}]
      PROVE  EnvPart'
  <2> DEFINE t == [e EXCEPT !.members = @ \cup {n}]
  <2>1. t \in MemberStates /\ t.members = e.members \cup {n}
    BY <1>2 DEF MemberStates
  <2>2. etcd' = [etcd EXCEPT ![m] = t]
    BY <1>5
  <2>3. QED
    BY <1>2, <1>3, <2>1, <2>2
<1>6. ASSUME NEW n \in Machines, e.members # {n}, etcd' = [etcd EXCEPT ![m].members = @ \ {n}]
      PROVE  EnvPart'
  <2> DEFINE t == [e EXCEPT !.members = @ \ {n}]
  <2>1. t \in MemberStates /\ t.members = e.members \ {n}
    BY <1>2 DEF MemberStates
  <2>2. t.members # {}
    BY <1>2, <1>6, <2>1
  <2>3. etcd' = [etcd EXCEPT ![m] = t]
    BY <1>6
  <2>4. QED
    BY <1>3, <2>1, <2>2, <2>3
<1>7. ASSUME etcd' = [etcd EXCEPT ![m].alarm = ~@]
      PROVE  EnvPart'
  <2>1. [e EXCEPT !.alarm = ~@] \in MemberStates /\ [e EXCEPT !.alarm = ~@].members = e.members
    BY <1>2 DEF MemberStates
  <2>2. QED
    BY <1>2, <1>3, <1>7, <2>1
<1>8. ASSUME etcd' = [etcd EXCEPT ![m].cluster = "b"]
      PROVE  EnvPart'
  <2>1. [e EXCEPT !.cluster = "b"] \in MemberStates /\ [e EXCEPT !.cluster = "b"].members = e.members
    BY <1>2 DEF MemberStates
  <2>2. QED
    BY <1>2, <1>3, <1>8, <2>1
<1>9. EnvPart'
  BY <1>4, <1>5, <1>6, <1>7, <1>8 DEF MemberChanges
<1>10. Types'
  BY <1>1, <1>9 DEF MemberChanges, local, Types, MachinePart, ViewPart, KcpPart, LocalPart
<1>11. QED
  BY <1>1, <1>10, Disturbed

LEMMA MachineStep ==
  ASSUME Types, NEW m \in Machines, MachineChanges(m)
  PROVE  Types' /\ Marks'
<1>1. CountPart' /\ calm' = FALSE
  BY ChangeCounts DEF MachineChanges
<1> DEFINE s == machine[m]
<1>2. s \in MachineStates
  BY DEF Types, MachinePart
<1>3. /\ [s EXCEPT !.ref = TRUE] \in MachineStates
      /\ [s EXCEPT !.deleting = TRUE] \in MachineStates
      /\ [s EXCEPT !.exists = FALSE] \in MachineStates
  BY <1>2 DEF MachineStates
<1>4. \/ machine' = [machine EXCEPT ![m] = [s EXCEPT !.ref = TRUE]]
      \/ machine' = [machine EXCEPT ![m] = [s EXCEPT !.deleting = TRUE]]
      \/ machine' = [machine EXCEPT ![m] = [s EXCEPT !.exists = FALSE]]
  BY DEF MachineChanges
<1>5. MachinePart'
  BY <1>3, <1>4 DEF Types, MachinePart
<1>6. Types'
  BY <1>1, <1>5 DEF MachineChanges, local, env, Types, ViewPart, KcpPart, EnvPart, LocalPart
<1>7. QED
  BY <1>1, <1>6, Disturbed

-----------------------------------------------------------------------------
(* The inspection of the agents.                                              *)

LEMMA StartStep ==
  ASSUME Types, StartInspection
  PROVE  Types' /\ Marks'
<1>1. Types'
  BY DEF StartInspection, local, env, Types, MachinePart, ViewPart, KcpPart, EnvPart, LocalPart,
         CountPart
<1>2. Marks'
  BY DEF StartInspection, Marks, ListedNow, AgentsMarked, MembersMarked,
         EtcdHealthyMeansConsistent, Inspected
<1>3. QED
  BY <1>1, <1>2

\* What GetControlPlaneNodes lists is what there is.
LEMMA NodesListed ==
  ASSUME Types, GetControlPlaneNodes, node' = node
  PROVE  /\ listed' \in [all : SUBSET Machines, unreachable : SUBSET Machines]
         /\ listed'.unreachable \subseteq listed'.all /\ todo' = listed'.all
         /\ kcpErrors' = FALSE
         /\ \A m \in Machines :
              /\ m \in listed'.all <=> node[m].there
              /\ m \in listed'.all => (m \in listed'.unreachable <=> node[m].unreachable)
<1> DEFINE there == {m \in Machines : node[m].there}
           unreachable == {m \in there : node[m].unreachable}
<1>1. listed' = [all |-> there, unreachable |-> unreachable] /\ todo' = there /\ kcpErrors' = FALSE
  BY DEF GetControlPlaneNodes
<1>2. there \subseteq Machines /\ unreachable \subseteq there
  OBVIOUS
<1>3. \A m \in Machines :
        /\ m \in there <=> node[m].there
        /\ m \in there => (m \in unreachable <=> node[m].unreachable)
  OBVIOUS
<1> HIDE DEF there, unreachable
<1>4. listed'.all = there /\ listed'.unreachable = unreachable
  BY <1>1
<1>5. QED
  BY <1>1, <1>2, <1>3, <1>4

LEMMA AgentListStep ==
  ASSUME Types, AgentList
  PROVE  Types' /\ Marks'
<1>1. /\ pc' = "agent" /\ baseline' = None /\ calm' = calm /\ node' = node
      /\ UNCHANGED <<machine, kcp, etcd, view, changes, faults>>
  BY DEF AgentList, env, Types, LocalPart
<1>2. LocalPart'
  BY <1>1, NodesListed DEF AgentList, Types, LocalPart
<1>3. Types'
  BY <1>1, <1>2 DEF Types, MachinePart, ViewPart, KcpPart, EnvPart, CountPart
<1>4. ListedNow'
  BY <1>1, NodesListed DEF AgentList, ListedNow
<1>5. AgentsMarked'
  BY <1>1, NodesListed DEF AgentList, AgentsMarked
<1>6. QED
  BY <1>1, <1>3, <1>4, <1>5 DEF Marks, MembersMarked, EtcdHealthyMeansConsistent, Inspected

LEMMA AgentListFailsStep ==
  ASSUME Types, AgentListFails
  PROVE  Types' /\ Marks'
<1>1. CountPart' /\ calm' = FALSE
  BY FaultCounts DEF AgentListFails
<1>2. Owned \in SUBSET Machines /\ "Unknown" \in Statuses
  BY DEF Owned, Statuses
<1>3. ViewPart'
  BY <1>2, AgentsSet DEF AgentListFails, Types
<1>4. KcpPart'
  BY <1>2 DEF AgentListFails, Types, KcpPart
<1>5. Types'
  BY <1>1, <1>3, <1>4 DEF AgentListFails, env, local, Types, MachinePart, EnvPart, LocalPart
<1>6. QED
  BY <1>1, <1>5, Disturbed

LEMMA AgentNodeStep ==
  ASSUME Types, Marks, NEW m \in Machines, AgentNode(m)
  PROVE  Types' /\ Marks'
<1>1. /\ pc = "agent" /\ pc' = "agent" /\ todo' = todo \ {m} /\ m \in todo
      /\ UNCHANGED <<machine, kcp, node, etcd, listed, baseline, calm, changes, faults>>
  BY DEF AgentNode, env
<1>2. kcpErrors' \in BOOLEAN
  BY DEF AgentNode, Types, LocalPart
<1>3. /\ ViewPart' /\ SameMachines
      /\ \A n \in Machines :
           view'[n].agent = IF n = m /\ m \in WithNode THEN AgentStatus(m) ELSE view[n].agent
  <2>1. CASE m \in WithNode
    BY <2>1, AgentSet, AgentStatusIsStatus DEF AgentNode, Types
  <2>2. CASE m \notin WithNode
    BY <2>2 DEF AgentNode, Types, ViewPart, SameMachines
  <2>3. QED
    BY <2>1, <2>2
<1>4. Types'
  BY <1>1, <1>2, <1>3 DEF Types, MachinePart, KcpPart, EnvPart, LocalPart, CountPart
<1>5. ListedNow'
  BY <1>1 DEF Marks, ListedNow
<1>6. AgentsMarked'
  <2> SUFFICES ASSUME calm, NEW n \in WithNode, n \in listed.all \ todo', Lost(n)
               PROVE  view'[n].agent # "True"
    BY <1>1, <1>3, SameSets DEF AgentsMarked, Lost, SameMachines, WithNode, Owned
  <2>1. n \in Machines
    BY DEF WithNode, Owned
  <2>2. CASE n = m
    <3>1. view[m].deleting \/ m \in listed.unreachable
      BY <1>1, <2>1, <2>2 DEF Lost, Marks, ListedNow
    <3>2. QED
      BY <1>3, <2>2, <3>1, AgentStatusIsStatus
  <2>3. CASE n # m
    BY <1>1, <1>3, <2>1, <2>3 DEF Marks, AgentsMarked
  <2>4. QED
    BY <2>2, <2>3
<1>7. QED
  BY <1>1, <1>4, <1>5, <1>6 DEF Marks, MembersMarked, EtcdHealthyMeansConsistent, Inspected

\* A node that was listed goes missing only when something changed.
LEMMA AgentNodeMissingStep ==
  ASSUME Types, Marks, NEW m \in Machines, AgentNodeMissing(m)
  PROVE  Types' /\ Marks'
<1>1. /\ pc = "agent" /\ pc' = "etcdList" /\ m \in todo /\ ~node[m].there
      /\ UNCHANGED <<machine, kcp, node, etcd, listed, todo, kcpErrors, baseline, calm, changes,
                     faults>>
  BY DEF AgentNodeMissing, env, local
<1>2. m \in listed.all
  BY <1>1 DEF Types, LocalPart
<1>3. calm' = FALSE
  BY <1>1, <1>2 DEF Marks, ListedNow, Types, LocalPart
<1>4. ViewPart'
  BY AgentSet DEF AgentNodeMissing, Types, Statuses
<1>5. Types'
  BY <1>1, <1>4 DEF Types, MachinePart, KcpPart, EnvPart, LocalPart, CountPart
<1>6. QED
  BY <1>3, <1>5, Disturbed

LEMMA AgentNodeFailsStep ==
  ASSUME Types, NEW m \in Machines, AgentNodeFails(m)
  PROVE  Types' /\ Marks'
<1>1. CountPart' /\ calm' = FALSE
  BY FaultCounts DEF AgentNodeFails
<1>2. ViewPart'
  BY AgentSet DEF AgentNodeFails, Types, Statuses
<1>3. Types'
  BY <1>1, <1>2 DEF AgentNodeFails, env, local, Types, MachinePart, KcpPart, EnvPart, LocalPart
<1>4. QED
  BY <1>1, <1>3, Disturbed

LEMMA AgentRestStep ==
  ASSUME Types, Marks, AgentRest
  PROVE  Types' /\ Marks'
<1>1. /\ pc = "agent" /\ pc' = "etcdList" /\ todo = {}
      /\ UNCHANGED <<machine, node, etcd, listed, todo, kcpErrors, baseline, calm, changes, faults>>
  BY DEF AgentRest, env, local
<1> DEFINE gone == WithNode \ listed.all
<1>2. /\ gone \in SUBSET Machines /\ "False" \in Statuses
      /\ view' = [m \in Machines |->
                   IF m \in gone THEN [view[m] EXCEPT !.agent = "False"] ELSE view[m]]
  BY DEF WithNode, Owned, Statuses, AgentRest
<1> HIDE DEF gone
<1>3. /\ ViewPart' /\ SameMachines
      /\ \A m \in Machines :
           view'[m].agent = IF m \in gone THEN "False" ELSE view[m].agent
  BY <1>2, AgentsSet DEF Types
<1>4. KcpPart'
  <2> DEFINE S == {view'[m].agent : m \in Owned}
  <2>1. S \in SUBSET Statuses
    BY <1>3, MachineFields DEF ViewPart, Owned
  <2>2. kcpErrors \in BOOLEAN /\ kcp.components \in Statuses
    BY DEF Types, LocalPart, KcpPart
  <2> HIDE DEF S
  <2>3. Aggregate(S, kcpErrors, kcp.components) \in Statuses
    BY <2>1, <2>2, AggregateHealthy
  <2>4. kcp' = [kcp EXCEPT !.components = Aggregate(S, kcpErrors, kcp.components)]
    BY DEF AgentRest, S
  <2>5. QED
    BY <2>3, <2>4 DEF Types, KcpPart
<1>5. Types'
  BY <1>1, <1>3, <1>4 DEF Types, MachinePart, EnvPart, LocalPart, CountPart
<1>6. AgentsMarked'
  <2> SUFFICES ASSUME calm, NEW n \in WithNode, Lost(n)
               PROVE  view'[n].agent # "True"
    BY <1>1, <1>3, SameSets DEF AgentsMarked, Lost, SameMachines, WithNode, Owned
  <2>1. n \in Machines
    BY DEF WithNode, Owned
  <2>2. QED
    BY <1>1, <1>3, <2>1 DEF Marks, AgentsMarked, gone
<1>7. QED
  BY <1>1, <1>5, <1>6 DEF Marks, ListedNow, MembersMarked, EtcdHealthyMeansConsistent, Inspected

-----------------------------------------------------------------------------
(* The inspection of the etcd members.                                        *)

LEMMA EtcdListStep ==
  ASSUME Types, Marks, EtcdList
  PROVE  Types' /\ Marks'
<1>1. /\ pc = "etcdList" /\ pc' = "etcd" /\ calm' = calm /\ node' = node
      /\ UNCHANGED <<machine, kcp, etcd, view, baseline, changes, faults>>
  BY DEF EtcdList, env
<1>2. LocalPart'
  BY <1>1, NodesListed DEF EtcdList, Types, LocalPart
<1>3. Types'
  BY <1>1, <1>2 DEF Types, MachinePart, ViewPart, KcpPart, EnvPart, CountPart
<1>4. ListedNow'
  BY <1>1, NodesListed DEF EtcdList, ListedNow
<1>5. WithNode' = WithNode /\ Asked' = Asked
  BY <1>1 DEF WithNode, Owned, Asked
<1>6. AgentsMarked'
  BY <1>1, <1>5 DEF Marks, AgentsMarked, Lost
<1>7. MembersMarked'
  <2>1. Asked' \subseteq listed'.all /\ todo' = listed'.all
    BY <1>1, <1>5, NodesListed DEF EtcdList, Asked, WithNode, Owned
  <2>2. QED
    BY <1>1, <2>1 DEF MembersMarked
<1>8. QED
  BY <1>1, <1>3, <1>4, <1>6, <1>7 DEF Marks, EtcdHealthyMeansConsistent, Inspected

LEMMA EtcdListFailsStep ==
  ASSUME Types, EtcdListFails
  PROVE  Types' /\ Marks'
<1>1. CountPart' /\ calm' = FALSE
  BY FaultCounts DEF EtcdListFails
<1>2. Owned \in SUBSET Machines /\ "Unknown" \in Statuses
  BY DEF Owned, Statuses
<1>3. ViewPart'
  BY <1>2, EtcdsSet DEF EtcdListFails, Types
<1>4. KcpPart'
  BY <1>2 DEF EtcdListFails, Types, KcpPart
<1>5. Types'
  BY <1>1, <1>3, <1>4 DEF EtcdListFails, env, local, Types, MachinePart, EnvPart, LocalPart
<1>6. QED
  BY <1>1, <1>5, Disturbed

\* A member found well agrees with the baseline that it leaves, and a baseline
\* that some member agreed with is left as it is.
LEMMA MemberCompared ==
  ASSUME Types, NEW m \in Machines
  PROVE  /\ MemberStatus(m) \in {"True", "False"}
         /\ NextBaseline(m) \in Baselines
         /\ MemberStatus(m) = "True" =>
              /\ ~etcd[m].alarm
              /\ etcd[m].members = NextBaseline(m).members
              /\ etcd[m].cluster = NextBaseline(m).cluster
         /\ \A n \in Machines :
              etcd[n].members = baseline.members /\ etcd[n].cluster = baseline.cluster
                => NextBaseline(m) = baseline
<1> DEFINE first == IF baseline.members = {} THEN etcd[m].members ELSE baseline.members
           ok == Agrees(m, first) /\ m \in etcd[m].members /\ ~etcd[m].alarm
           c == IF baseline.cluster = "none" /\ ok THEN etcd[m].cluster ELSE baseline.cluster
<1>1. /\ etcd[m].members \subseteq Machines /\ etcd[m].cluster \in {"a", "b"}
      /\ baseline.members \subseteq Machines /\ baseline.cluster \in {"none", "a", "b"}
      /\ \A n \in Machines : etcd[n].members # {} /\ etcd[n].cluster \in {"a", "b"}
  BY DEF Types, EnvPart, LocalPart, MemberStates, Baselines
<1>2. NextBaseline(m) = [members |-> first, cluster |-> c]
  BY DEF NextBaseline
<1>3. MemberStatus(m) =
        IF ok /\ baseline.cluster \in {"none", etcd[m].cluster} THEN "True" ELSE "False"
  BY DEF MemberStatus
<1>4. first \subseteq Machines /\ c \in {"none", "a", "b"}
  BY <1>1
<1>5. NextBaseline(m) \in Baselines
  BY <1>2, <1>4 DEF Baselines
<1>6. NextBaseline(m).members = first /\ NextBaseline(m).cluster = c
  BY <1>2
<1>7. MemberStatus(m) \in {"True", "False"}
  BY <1>3
<1>8. ASSUME MemberStatus(m) = "True"
      PROVE  ~etcd[m].alarm /\ etcd[m].members = first /\ etcd[m].cluster = c
  <2>1. ok /\ baseline.cluster \in {"none", etcd[m].cluster}
    BY <1>3, <1>8
  <2>2. QED
    BY <2>1 DEF Agrees
<1>9. ASSUME NEW n \in Machines, etcd[n].members = baseline.members,
             etcd[n].cluster = baseline.cluster
      PROVE  NextBaseline(m) = baseline
  <2>1. baseline.members # {} /\ baseline.cluster # "none"
    BY <1>1, <1>9
  <2>2. first = baseline.members /\ c = baseline.cluster
    BY <2>1
  <2>3. baseline = [members |-> baseline.members, cluster |-> baseline.cluster]
    BY DEF Types, LocalPart, Baselines
  <2>4. QED
    BY <1>2, <2>2, <2>3
<1>10. QED
  BY <1>5, <1>6, <1>7, <1>8, <1>9

\* One member is looked at: s is what it is given, and b the baseline it leaves.
LEMMA MemberLookedAt ==
  ASSUME Types, Marks, NEW m \in Machines, pc = "etcd", pc' = "etcd", todo' = todo \ {m},
         UNCHANGED <<machine, kcp, node, etcd, listed, calm, changes, faults>>,
         kcpErrors' \in BOOLEAN, baseline' \in Baselines,
         ViewPart', SameMachines, \A n \in Machines : view'[n].agent = view[n].agent,
         \A n \in Machines \ {m} : view'[n].etcd = view[n].etcd,
         \A n \in Machines :
           etcd[n].members = baseline.members /\ etcd[n].cluster = baseline.cluster
             => baseline' = baseline,
         m \in Asked => /\ view'[m].etcd \in {"True", "False"}
                        /\ view'[m].etcd = "True" => Consistent(m)'
  PROVE  Types' /\ Marks'
<1>1. WithNode' = WithNode /\ Asked' = Asked
  BY SameSets DEF Asked, SameMachines, WithNode, Owned
<1>2. Types'
  BY DEF Types, MachinePart, KcpPart, EnvPart, LocalPart, CountPart
<1>3. ListedNow'
  BY DEF Marks, ListedNow
<1>4. AgentsMarked'
  BY <1>1 DEF Marks, AgentsMarked, Lost, SameMachines, WithNode, Owned
<1>5. MembersMarked'
  <2> SUFFICES ASSUME calm, NEW n \in Asked \ todo'
               PROVE  /\ view'[n].etcd \in {"True", "False"}
                      /\ view'[n].etcd = "True" => Consistent(n)'
    BY <1>1 DEF MembersMarked
  <2>1. n \in Machines
    BY DEF Asked, WithNode, Owned
  <2>2. CASE n # m
    <3>1. view[n].etcd \in {"True", "False"} /\ (view[n].etcd = "True" => Consistent(n))
      BY <2>2 DEF Marks, MembersMarked
    <3>2. Consistent(n) => Consistent(n)'
      BY <2>1 DEF Consistent
    <3>3. QED
      BY <2>1, <2>2, <3>1, <3>2
  <2>3. QED
    BY <2>2
<1>6. QED
  BY <1>2, <1>3, <1>4, <1>5 DEF Marks, EtcdHealthyMeansConsistent, Inspected

LEMMA EtcdNodeStep ==
  ASSUME Types, Marks, NEW m \in Machines, EtcdNode(m)
  PROVE  Types' /\ Marks'
<1>1. /\ pc = "etcd" /\ pc' = "etcd" /\ todo' = todo \ {m}
      /\ UNCHANGED <<machine, kcp, node, etcd, listed, calm, changes, faults>>
  BY DEF EtcdNode, env
<1>2. CASE /\ m \notin WithNode
           /\ kcpErrors' = (kcpErrors \/ ~HasProvisioningMachine)
           /\ UNCHANGED <<view, baseline>>
  <2>1. kcpErrors' \in BOOLEAN /\ baseline' \in Baselines /\ ViewPart' /\ SameMachines
    BY <1>2 DEF Types, LocalPart, ViewPart, SameMachines
  <2>2. m \notin Asked
    BY <1>2 DEF Asked
  <2>3. QED
    BY <1>1, <1>2, <2>1, <2>2, MemberLookedAt
<1>3. CASE /\ m \in WithNode /\ view[m].deleting
           /\ view' = [view EXCEPT ![m].etcd = "False"]
           /\ UNCHANGED <<kcpErrors, baseline>>
  <2>1. /\ ViewPart' /\ SameMachines /\ \A n \in Machines : view'[n].agent = view[n].agent
        /\ \A n \in Machines \ {m} : view'[n].etcd = view[n].etcd
    BY <1>3, EtcdSet DEF Types, Statuses
  <2>2. kcpErrors' \in BOOLEAN /\ baseline' \in Baselines
    BY <1>3 DEF Types, LocalPart
  <2>3. m \notin Asked
    BY <1>3 DEF Asked
  <2>4. QED
    BY <1>1, <1>3, <2>1, <2>2, <2>3, MemberLookedAt
<1>4. CASE /\ m \in WithNode /\ ~view[m].deleting
           /\ view' = [view EXCEPT ![m].etcd = MemberStatus(m)]
           /\ baseline' = NextBaseline(m)
           /\ UNCHANGED kcpErrors
  <2>1. MemberStatus(m) \in Statuses
    BY MemberCompared DEF Statuses
  <2>2. /\ ViewPart' /\ SameMachines /\ \A n \in Machines : view'[n].agent = view[n].agent
        /\ \A n \in Machines \ {m} : view'[n].etcd = view[n].etcd
        /\ view'[m].etcd = MemberStatus(m)
    BY <1>4, <2>1, EtcdSet DEF Types
  <2>3. kcpErrors' \in BOOLEAN /\ baseline' \in Baselines
    BY <1>4, MemberCompared DEF Types, LocalPart
  <2>4. etcd[m].answers
    BY <1>4 DEF EtcdNode
  <2>5. view'[m].etcd \in {"True", "False"} /\ (view'[m].etcd = "True" => Consistent(m)')
    BY <1>1, <1>4, <2>2, <2>4, MemberCompared DEF Consistent
  <2>6. \A n \in Machines :
          etcd[n].members = baseline.members /\ etcd[n].cluster = baseline.cluster
            => baseline' = baseline
    BY <1>4, MemberCompared
  <2>7. QED
    BY <1>1, <2>2, <2>3, <2>5, <2>6, MemberLookedAt
<1>5. QED
  BY <1>2, <1>3, <1>4 DEF EtcdNode

LEMMA EtcdNodeFailsStep ==
  ASSUME Types, Marks, NEW m \in Machines, EtcdNodeFails(m)
  PROVE  Types' /\ Marks'
<1>1. /\ pc = "etcd" /\ pc' = "etcd" /\ todo' = todo \ {m}
      /\ UNCHANGED <<machine, kcp, node, etcd, listed, kcpErrors, baseline, changes>>
  BY DEF EtcdNodeFails, env
<1>2. /\ ViewPart' /\ SameMachines /\ \A n \in Machines : view'[n].agent = view[n].agent
      /\ \A n \in Machines \ {m} : view'[n].etcd = view[n].etcd
      /\ view'[m].etcd = "False"
  BY EtcdSet DEF EtcdNodeFails, Types, Statuses
<1>3. kcpErrors' \in BOOLEAN /\ baseline' \in Baselines
  BY <1>1 DEF Types, LocalPart
<1>4. CASE UNCHANGED <<calm, faults>>
  BY <1>1, <1>2, <1>3, <1>4, MemberLookedAt
<1>5. CASE Fault
  <2>1. CountPart' /\ calm' = FALSE
    BY <1>1, <1>5, FaultCounts
  <2>2. Types'
    BY <1>1, <1>2, <2>1 DEF Types, MachinePart, KcpPart, EnvPart, LocalPart
  <2>3. QED
    BY <2>1, <2>2, Disturbed
<1>6. QED
  BY <1>4, <1>5 DEF EtcdNodeFails

LEMMA EtcdRestStep ==
  ASSUME Types, Marks, EtcdRest
  PROVE  Types' /\ Marks'
<1> DEFINE without == WithoutMember
           S == {view'[m].etcd : m \in Owned}
           errors == kcpErrors \/ MemberWithoutMachine
<1>1. /\ pc = "etcd" /\ pc' = "patch" /\ todo = {}
      /\ UNCHANGED <<machine, node, etcd, listed, todo, kcpErrors, baseline, calm, changes, faults>>
  BY DEF EtcdRest, env, local
<1>2. without \in SUBSET Machines /\ without \subseteq Owned /\ "False" \in Statuses
  BY DEF WithoutMember, WithNode, Owned, Statuses
<1>3. /\ view' = [m \in Machines |->
                   IF m \in without THEN [view[m] EXCEPT !.etcd = "False"] ELSE view[m]]
      /\ kcp' = [kcp EXCEPT !.etcd = Aggregate(S, errors, kcp.etcd)]
  BY DEF EtcdRest
<1> HIDE DEF without, S, errors
<1>4. /\ ViewPart' /\ SameMachines /\ \A m \in Machines : view'[m].agent = view[m].agent
      /\ \A m \in Machines : view'[m].etcd = IF m \in without THEN "False" ELSE view[m].etcd
  BY <1>2, <1>3, EtcdsSet DEF Types
<1>5. S \in SUBSET Statuses /\ errors \in BOOLEAN /\ kcp.etcd \in Statuses
  BY <1>4, MachineFields
  DEF S, errors, ViewPart, Owned, Types, LocalPart, KcpPart, MemberWithoutMachine
<1>6. Aggregate(S, errors, kcp.etcd) \in Statuses
  BY <1>5, AggregateHealthy
<1>7. KcpPart' /\ kcp'.etcd = Aggregate(S, errors, kcp.etcd)
  BY <1>3, <1>6 DEF Types, KcpPart
<1>8. Types'
  BY <1>1, <1>4, <1>7 DEF Types, MachinePart, EnvPart, LocalPart, CountPart
<1>9. WithNode' = WithNode /\ Asked' = Asked
  BY <1>1, <1>4, SameSets DEF Asked, SameMachines, WithNode, Owned
<1>10. AgentsMarked'
  BY <1>1, <1>4, <1>9 DEF Marks, AgentsMarked, Lost, SameMachines, WithNode, Owned
<1>11. EtcdHealthyMeansConsistent'
  <2> SUFFICES ASSUME calm, kcp'.etcd = "True", Asked # {}
               PROVE  /\ \A m \in Asked : etcd[m].answers /\ ~etcd[m].alarm
                      /\ \A m, n \in Asked :
                           etcd[m].members = etcd[n].members /\ etcd[m].cluster = etcd[n].cluster
                      /\ \A m \in Asked : etcd[m].members = WithNode
    BY <1>1, <1>9 DEF EtcdHealthyMeansConsistent, Inspected
  <2>1. \A m \in Asked : m \in Owned /\ m \in Machines /\ m \in WithNode
    BY DEF Asked, WithNode, Owned
  <2>2. \A m \in Asked : view'[m].etcd \in {"True", "False"} /\ view'[m].etcd \in S
    BY <1>1, <1>4, <2>1 DEF Marks, MembersMarked, S
  <2>3. ~errors /\ "False" \notin S
    BY <1>5, <1>7, <2>2, AggregateHealthy
  <2>4. \A m \in Asked : Consistent(m)
    BY <1>1, <1>4, <2>1, <2>2, <2>3 DEF Marks, MembersMarked
  <2>5. without = {}
    BY <1>2, <1>4, <2>3 DEF S
  <2>6. baseline.members # {}
    BY <2>1, <2>4 DEF Consistent, Types, EnvPart
  <2>7. WithNode = baseline.members
    BY <2>3, <2>5, <2>6 DEF without, WithoutMember, errors, MemberWithoutMachine
  <2>8. QED
    BY <2>4, <2>7 DEF Consistent
<1>12. QED
  BY <1>1, <1>8, <1>10, <1>11 DEF Marks, ListedNow, MembersMarked

-----------------------------------------------------------------------------
(* The patch, and the theorems.                                               *)

LEMMA PatchedMachines ==
  ASSUME Types, NEW failed \in SUBSET Machines
  PROVE  Patched(failed) \in [Machines -> MachineStates]
<1>1. ASSUME NEW m \in Machines
      PROVE  [machine[m] EXCEPT !.agent = view[m].agent, !.etcd = view[m].etcd] \in MachineStates
  <2>1. machine[m] \in MachineStates /\ view[m].agent \in Statuses /\ view[m].etcd \in Statuses
    BY MachineFields DEF Types, MachinePart, ViewPart
  <2>2. QED
    BY <2>1 DEF MachineStates
<1>2. QED
  BY <1>1 DEF Patched, Types, MachinePart

LEMMA FinishStep ==
  ASSUME Types, NEW failed \in SUBSET Machines, machine' = Patched(failed), Finish,
         kcp' = kcp, env' = env, CountPart', calm' = FALSE
  PROVE  Types' /\ Marks'
<1>1. MachinePart' /\ ViewPart'
  BY PatchedMachines DEF MachinePart, ViewPart, Finish
<1>2. None \in Baselines /\ Nothing \in [all : SUBSET Machines, unreachable : SUBSET Machines]
      /\ Nothing.unreachable = {} /\ Nothing.all = {}
  BY DEF None, Baselines, Nothing
<1>3. LocalPart'
  BY <1>2 DEF Finish, LocalPart
<1>4. Types'
  BY <1>1, <1>3 DEF Types, KcpPart, EnvPart, env
<1>5. QED
  BY <1>4, Disturbed

LEMMA InitHolds == Init => Types /\ Marks
<1> SUFFICES ASSUME Init PROVE Types /\ Marks
  OBVIOUS
<1>1. PICK up \in SUBSET Machines, s \in {"none", "True"}, left \in SUBSET Machines :
       /\ machine = [m \in Machines |->
                       [exists |-> m \notin left, ref |-> m \in up, deleting |-> FALSE,
                        agent |-> IF m \in up THEN s ELSE "none",
                        etcd |-> IF m \in up THEN s ELSE "none"]]
       /\ kcp = [components |-> IF up = {} THEN "none" ELSE s, etcd |-> IF up = {} THEN "none" ELSE s]
       /\ node = [m \in Machines |-> [there |-> m \in up, ready |-> m \in up, unreachable |-> FALSE]]
       /\ etcd = [m \in Machines |-> [answers |-> m \in up, members |-> up \cup {m},
                                      alarm |-> FALSE, cluster |-> "a"]]
  <2>1. PICK up \in SUBSET Machines, s \in {"none", "True"} :
          \E left \in {{}} \cup {{m} : m \in up} :
       /\ machine = [m \in Machines |->
                       [exists |-> m \notin left, ref |-> m \in up, deleting |-> FALSE,
                        agent |-> IF m \in up THEN s ELSE "none",
                        etcd |-> IF m \in up THEN s ELSE "none"]]
       /\ kcp = [components |-> IF up = {} THEN "none" ELSE s, etcd |-> IF up = {} THEN "none" ELSE s]
       /\ node = [m \in Machines |-> [there |-> m \in up, ready |-> m \in up, unreachable |-> FALSE]]
       /\ etcd = [m \in Machines |-> [answers |-> m \in up, members |-> up \cup {m},
                                      alarm |-> FALSE, cluster |-> "a"]]
    BY DEF Init
  <2>2. \A left \in {{}} \cup {{m} : m \in up} : left \in SUBSET Machines
    OBVIOUS
  <2>3. QED
    BY <2>1, <2>2
<1> DEFINE st(m) == IF m \in up THEN s ELSE "none"
<1>2. \A m \in Machines : st(m) \in Statuses
  BY DEF Statuses
<1>3. MachinePart
  <2>1. machine = [m \in Machines |-> [exists |-> m \notin left, ref |-> m \in up, deleting |-> FALSE,
                                       agent |-> st(m), etcd |-> st(m)]]
    BY <1>1
  <2> HIDE DEF st
  <2>2. QED
    BY <1>2, <2>1 DEF MachinePart, MachineStates
<1>4. KcpPart
  BY <1>1 DEF KcpPart, Statuses
<1>5. EnvPart
  <2>1. node \in [Machines -> NodeStates]
    BY <1>1 DEF NodeStates
  <2>2. \A m \in Machines : up \cup {m} \in SUBSET Machines
    OBVIOUS
  <2>3. etcd \in [Machines -> MemberStates]
    BY <1>1, <2>2 DEF MemberStates
  <2>4. \A m \in Machines : etcd[m].members # {}
    BY <1>1
  <2>5. QED
    BY <2>1, <2>3, <2>4 DEF EnvPart
<1>6. ViewPart
  BY <1>3 DEF Init, ViewPart, MachinePart
<1>7. None \in Baselines /\ Nothing \in [all : SUBSET Machines, unreachable : SUBSET Machines]
      /\ Nothing.unreachable = {} /\ Nothing.all = {}
  BY DEF None, Baselines, Nothing
<1>8. LocalPart
  BY <1>7 DEF Init, LocalPart
<1>9. CountPart
  BY HealthAssumption DEF Init, CountPart
<1>10. Marks
  BY DEF Init, Marks, ListedNow, AgentsMarked, MembersMarked, EtcdHealthyMeansConsistent, Inspected
<1>11. QED
  BY <1>3, <1>4, <1>5, <1>6, <1>8, <1>9, <1>10 DEF Types

LEMMA StepHolds ==
  ASSUME Types, Marks, [Next]_vars
  PROVE  Types' /\ Marks'
<1>1. CASE Environment
  BY <1>1, NodeStep, MemberStep, MachineStep DEF Environment
<1>2. CASE Inspect
  <2>1. CASE PatchMachines
    <3>1. {} \in SUBSET Machines /\ CountPart' /\ env' = env
      BY <2>1 DEF PatchMachines, Types, CountPart
    <3>2. QED
      BY <2>1, <3>1, FinishStep DEF PatchMachines
  <2>2. CASE PatchMachinesFails
    <3>1. CountPart' /\ calm' = FALSE
      BY <2>2, FaultCounts DEF PatchMachinesFails
    <3>2. QED
      BY <2>2, <3>1, FinishStep DEF PatchMachinesFails
  <2>3. ASSUME NEW m \in Machines, AgentNode(m) \/ AgentNodeMissing(m) \/ AgentNodeFails(m)
        PROVE  Types' /\ Marks'
    BY <2>3, AgentNodeStep, AgentNodeMissingStep, AgentNodeFailsStep
  <2>4. ASSUME NEW m \in Machines, EtcdNode(m) \/ EtcdNodeFails(m)
        PROVE  Types' /\ Marks'
    BY <2>4, EtcdNodeStep, EtcdNodeFailsStep
  <2>5. QED
    BY <1>2, <2>1, <2>2, <2>3, <2>4, StartStep, AgentListStep, AgentListFailsStep, AgentRestStep,
       EtcdListStep, EtcdListFailsStep, EtcdRestStep DEF Inspect
<1>3. CASE UNCHANGED vars
  <2>1. UNCHANGED <<machine, kcp, node, etcd, pc, view, listed, todo, kcpErrors, baseline, calm,
                    changes, faults>>
    BY <1>3 DEF vars, local
  <2>2. Types'
    BY <2>1 DEF Types, MachinePart, ViewPart, KcpPart, EnvPart, LocalPart, CountPart
  <2>3. Marks'
    BY <2>1 DEF Marks, ListedNow, AgentsMarked, MembersMarked, EtcdHealthyMeansConsistent, Inspected,
                Asked, Consistent, Lost, WithNode, Owned
  <2>4. QED
    BY <2>2, <2>3
<1>4. QED
  BY <1>1, <1>2, <1>3 DEF Next

LEMMA Inductive == Spec => []IInv
<1>1. Init => IInv
  BY InitHolds, Parts
<1>2. IInv /\ [Next]_vars => IInv'
  BY StepHolds, Parts, PartsNext
<1>3. QED
  BY <1>1, <1>2, PTL DEF Spec

(* Every condition has one of the four statuses, whatever changes and fails.   *)
THEOREM TypeCorrect == Spec => []TypeOK
<1>1. IInv => TypeOK
  BY DEF IInv
<1>2. QED
  BY <1>1, Inductive, PTL

(* After an undisturbed inspection no machine whose node is gone or            *)
(* unreachable, and none that is being deleted with a node, counts as healthy  *)
(* (workload_cluster.go 219-309), for any number of machines and whatever      *)
(* earlier inspections, changes and failing calls left behind.                 *)
THEOREM LostNodesAreNotHealthy == Spec => []LostNodesNotHealthy
<1>1. IInv => LostNodesNotHealthy
  BY DEF IInv, AgentsMarked, LostNodesNotHealthy, Inspected, Lost
<1>2. QED
  BY <1>1, Inductive, PTL

(* EtcdClusterHealthy is true after an undisturbed inspection only if the      *)
(* members that were asked agree on the list and the cluster, have no alarm,   *)
(* and the list is that of the machines with a node (workload_cluster.go       *)
(* 396-648), in whichever order they were asked.                               *)
THEOREM HealthyEtcdIsConsistent == Spec => []EtcdHealthyMeansConsistent
<1>1. IInv => EtcdHealthyMeansConsistent
  BY DEF IInv
<1>2. QED
  BY <1>1, Inductive, PTL
==============================================================================
