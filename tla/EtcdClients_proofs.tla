------------------------- MODULE EtcdClients_proofs -------------------------
(***************************************************************************)
(* The etcd client generator of EtcdClients, for every set of nodes and any  *)
(* number of changes of pods, nodes and leadership.                         *)
(***************************************************************************)
EXTENDS EtcdClients, FiniteSetTheorems, TLAPS

\* What the invariant says of the pods depends on these variables alone.
podVars == <<pod, changes, podMap, gone>>

LEMMA PodsUnchanged ==
  ASSUME IInv, UNCHANGED podVars
  PROVE  PodsNumbered' /\ GoneForGood'
BY DEF IInv, podVars, PodsNumbered, GoneForGood

\* A new pod map, or none, that names pods which exist.
LEMMA PodsListed ==
  ASSUME IInv, UNCHANGED <<pod, changes, gone>>,
         podMap' \in {podMap, NoMap, Pods}
  PROVE  /\ PodsNumbered' /\ GoneForGood'
         /\ DOMAIN podMap' \subseteq Nodes
         /\ \A n \in DOMAIN podMap' : podMap'[n] \in 1 .. MaxChanges + 1
<1>1. CASE podMap' = podMap
  BY <1>1, PodsUnchanged DEF podVars, IInv, TypeOK
<1>2. CASE podMap' = NoMap
  <2>1. DOMAIN podMap' = {}
    BY <1>2 DEF NoMap
  <2>2. QED
    BY <2>1 DEF IInv, PodsNumbered, GoneForGood
<1>3. CASE podMap' = Pods
  <2>1. DOMAIN podMap' = {m \in Nodes : pod[m] # 0}
    BY <1>3 DEF Pods
  <2>2. \A n \in DOMAIN podMap' : n \in Nodes /\ podMap'[n] = pod[n] /\ pod[n] # 0
    BY <1>3, <2>1 DEF Pods
  <2>3. \A n \in DOMAIN podMap' : podMap'[n] \in 1 .. MaxChanges + 1
    BY <2>2, ConstantsAssumption DEF IInv, TypeOK
  <2>4. QED
    BY <2>1, <2>2, <2>3 DEF IInv, PodsNumbered, GoneForGood
<1>4. QED
  BY <1>1, <1>2, <1>3

\* Whenever a call ends with an error, no client is left open.
LEMMA DoneClosesAll ==
  ASSUME IInv, Done, pc \in {"next", "members", "findLeader", "dialLeader"}
  PROVE  /\ open' = {} /\ ClientsInPlace' /\ DialsWhatIsKnown'
         /\ open' \subseteq Clients \X {"temp", "leader"}
         /\ pc' = "idle" /\ asked' = {} /\ todo' = {} /\ target' = Nobody /\ temp' = NoClient
<1>1. open' = {}
  BY DEF Done, IInv, ClientsInPlace
<1>2. QED
  BY <1>1 DEF Done, ClientsInPlace, DialsWhatIsKnown

\* The same for a failure to connect, which may go on with the next node.
LEMMA FailedConnection ==
  ASSUME IInv, ConnectionFailed
  PROVE  /\ ClientsInPlace' /\ DialsWhatIsKnown'
         /\ open' \subseteq Clients \X {"temp", "leader"}
         /\ pc' \in {"idle", "next"}
         /\ todo' \subseteq asked' /\ asked' \subseteq Nodes
         /\ target' \in Nodes \cup {Nobody}
         /\ temp' \in Clients \cup {NoClient}
<1>1. CASE pc \in {"findLeader", "dialLeader"} /\ Done
  BY <1>1, DoneClosesAll
<1>2. CASE /\ pc \in {"find", "dial"}
           /\ pc' = "next"
           /\ UNCHANGED <<open, asked, todo, target, temp>>
  BY <1>2 DEF IInv, TypeOK, ClientsInPlace, DialsWhatIsKnown
<1>3. QED
  BY <1>1, <1>2 DEF ConnectionFailed

-----------------------------------------------------------------------------

LEMMA InitHolds == Init => IInv
<1> SUFFICES ASSUME Init PROVE IInv
  OBVIOUS
<1>1. DOMAIN podMap = {}
  BY DEF Init, NoMap
<1>2. TypeOK
  BY <1>1, ConstantsAssumption DEF Init, TypeOK
<1>3. ClientsInPlace /\ DialsWhatIsKnown
  BY DEF Init, ClientsInPlace, DialsWhatIsKnown
<1>4. PodsNumbered /\ GoneForGood
  BY <1>1 DEF Init, PodsNumbered, GoneForGood
<1>5. QED
  BY <1>2, <1>3, <1>4 DEF IInv

LEMMA NextNodeStep == ASSUME IInv, NextNode PROVE IInv'
<1>1. PodsNumbered' /\ GoneForGood'
  BY PodsUnchanged DEF NextNode, podVars, world
<1>2. CASE todo = {} /\ Done
  BY <1>1, <1>2, DoneClosesAll DEF NextNode, world, IInv, TypeOK
<1>3. ASSUME NEW n \in todo,
             target' = n, todo' = todo \ {n}, pc' = "find", UNCHANGED <<open, asked, temp>>
      PROVE  IInv'
  BY <1>1, <1>3 DEF NextNode, world, IInv, TypeOK, ClientsInPlace, DialsWhatIsKnown
<1>4. QED
  BY <1>2, <1>3 DEF NextNode

LEMMA FindPodStep == ASSUME IInv, findEtcdProxyPod PROVE IInv'
<1> USE DEF findEtcdProxyPod
<1>1. podMap' \in {podMap, NoMap, Pods}
  OBVIOUS
<1>2. /\ PodsNumbered' /\ GoneForGood'
      /\ DOMAIN podMap' \subseteq Nodes
      /\ \A n \in DOMAIN podMap' : podMap'[n] \in 1 .. MaxChanges + 1
  BY <1>1, PodsListed DEF world
<1>3. CASE ConnectionFailed
  BY <1>2, <1>3, FailedConnection DEF world, IInv, TypeOK
<1>4. CASE /\ target \in DOMAIN podMap'
           /\ pc' = IF pc = "find" THEN "dial" ELSE "dialLeader"
           /\ UNCHANGED <<open, asked, todo, target, temp>>
  <2>1. TypeOK'
    BY <1>2, <1>4 DEF world, IInv, TypeOK
  <2>2. ClientsInPlace' /\ DialsWhatIsKnown'
    BY <1>4 DEF IInv, ClientsInPlace, DialsWhatIsKnown
  <2>3. QED
    BY <1>2, <2>1, <2>2 DEF IInv
<1>5. QED
  BY <1>3, <1>4

\* The pod that did not answer goes with the whole pod map.
LEMMA ClientFailsStep == ASSUME IInv, CreateClientFails PROVE IInv'
<1> USE DEF CreateClientFails
<1>1. DOMAIN podMap' = {}
  BY DEF NoMap
<1>2. target \in Nodes /\ target \in DOMAIN podMap /\ podMap[target] \in 1 .. changes + 1
  BY ConstantsAssumption DEF IInv, TypeOK, DialsWhatIsKnown, PodsNumbered
<1>3. gone' \subseteq Nodes \X (1 .. changes + 1)
  BY <1>2 DEF IInv, GoneForGood
<1>4. \A n \in Nodes : <<n, pod[n]>> \notin gone'
  BY DEF IInv, GoneForGood
<1>5. PodsNumbered' /\ GoneForGood'
  BY <1>1, <1>3, <1>4 DEF world, IInv, PodsNumbered, GoneForGood
<1>6. ClientsInPlace' /\ DialsWhatIsKnown'
  BY FailedConnection
<1>7. TypeOK'
  BY <1>1, FailedConnection DEF world, IInv, TypeOK
<1>8. QED
  BY <1>5, <1>6, <1>7 DEF IInv

\* A client is opened, for the node that is dialled.
LEMMA DialledClient ==
  ASSUME IInv, pc \in {"dial", "dialLeader"}
  PROVE  [node |-> target, leader |-> leader] \in Clients
BY DEF IInv, TypeOK, DialsWhatIsKnown, Clients

LEMMA TemporaryClientStep == ASSUME IInv, CreateTemporaryClient PROVE IInv'
<1> USE DEF CreateTemporaryClient
<1>1. temp' \in Clients
  BY DialledClient
<1>2. open' = {<<temp', "temp">>}
  BY DEF IInv, ClientsInPlace
<1>3. ClientsInPlace' /\ DialsWhatIsKnown'
  BY <1>1, <1>2 DEF ClientsInPlace, DialsWhatIsKnown
<1>4. PodsNumbered' /\ GoneForGood'
  BY PodsUnchanged DEF podVars, world
<1>5. TypeOK'
  BY <1>1, <1>2 DEF world, IInv, TypeOK
<1>6. QED
  BY <1>3, <1>4, <1>5 DEF IInv

LEMMA LeaderClientStep == ASSUME IInv, CreateLeaderClient PROVE IInv'
<1> USE DEF CreateLeaderClient
<1> DEFINE client == [node |-> target, leader |-> leader]
<1>1. client \in Clients
  BY DialledClient
<1>2. open' = {<<client, "leader">>}
  OBVIOUS
<1> HIDE DEF client
<1>3. ClientsInPlace' /\ DialsWhatIsKnown'
  BY <1>1, <1>2 DEF ClientsInPlace, DialsWhatIsKnown
<1>4. PodsNumbered' /\ GoneForGood'
  BY PodsUnchanged DEF podVars, world
<1>5. TypeOK'
  BY <1>1, <1>2 DEF world, IInv, TypeOK
<1>6. QED
  BY <1>3, <1>4, <1>5 DEF IInv

LEMMA MembersFailStep == ASSUME IInv, MembersFail PROVE IInv'
<1> USE DEF MembersFail
<1>1. open' = {}
  BY DEF IInv, ClientsInPlace
<1>2. PodsNumbered' /\ GoneForGood'
  BY PodsUnchanged DEF podVars, world
<1>3. QED
  BY <1>1, <1>2 DEF world, IInv, TypeOK, ClientsInPlace, DialsWhatIsKnown

LEMMA FindLeaderStep == ASSUME IInv, FindLeader PROVE IInv'
<1> USE DEF FindLeader
<1>1. PodsNumbered' /\ GoneForGood'
  BY PodsUnchanged DEF podVars, world
<1>2. CASE Done
  BY <1>1, <1>2, DoneClosesAll DEF world, IInv, TypeOK
<1>3. CASE /\ temp.leader \in asked
           /\ target' = temp.leader /\ pc' = "findLeader"
           /\ UNCHANGED <<open, asked, todo, temp>>
  BY <1>1, <1>3 DEF world, IInv, TypeOK, ClientsInPlace, DialsWhatIsKnown
<1>4. QED
  BY <1>2, <1>3

LEMMA CloseClientStep == ASSUME IInv, CloseClient PROVE IInv'
<1> USE DEF CloseClient
<1>1. open' = {}
  <2>1. PICK c \in Clients : open = {<<c, "leader">>}
    BY DEF IInv, ClientsInPlace
  <2>2. QED
    BY <2>1
<1>2. PodsNumbered' /\ GoneForGood'
  BY PodsUnchanged DEF podVars, world
<1>3. QED
  BY <1>1, <1>2 DEF world, IInv, TypeOK, ClientsInPlace, DialsWhatIsKnown

\* A pod goes, or another takes its place: a number that was never given before.
LEMMA PodRecycledStep ==
  ASSUME IInv, NEW n \in Nodes, PodRecycled(n)
  PROVE  IInv'
<1> USE DEF PodRecycled, Change, generator
<1>1. changes \in 0 .. MaxChanges /\ changes' \in 0 .. MaxChanges /\ changes' = changes + 1
  BY ConstantsAssumption DEF IInv, TypeOK
<1>2. /\ pod' \in [Nodes -> 0 .. MaxChanges + 1]
      /\ \A m \in Nodes : pod'[m] = pod[m] \/ pod'[m] = 0 \/ pod'[m] = changes + 2
  BY <1>1, ConstantsAssumption DEF IInv, TypeOK
<1>3. TypeOK'
  BY <1>1, <1>2 DEF IInv, TypeOK
<1>4. PodsNumbered'
  BY <1>1, <1>2, ConstantsAssumption DEF IInv, TypeOK, PodsNumbered
<1>5. gone' \subseteq Nodes \X (1 .. changes' + 1)
  <2>1. (1 .. changes + 1) \subseteq (1 .. changes' + 1)
    BY <1>1
  <2>2. QED
    BY <2>1 DEF IInv, GoneForGood
<1>6. ASSUME NEW m \in Nodes PROVE <<m, pod'[m]>> \notin gone
  <2>1. CASE pod'[m] = pod[m]
    BY <2>1 DEF IInv, GoneForGood
  <2>2. CASE pod'[m] \notin 1 .. changes + 1
    BY <2>2 DEF IInv, GoneForGood
  <2>3. QED
    BY <1>1, <1>2, <2>1, <2>2
<1>7. GoneForGood'
  BY <1>5, <1>6 DEF IInv, GoneForGood
<1>8. QED
  BY <1>3, <1>4, <1>7 DEF IInv, ClientsInPlace, DialsWhatIsKnown

\* A change of the nodes or of the leadership leaves the pods alone.
LEMMA OtherChangeStep ==
  ASSUME IInv, NEW n \in Nodes, NodeChanges(n) \/ Elected(n)
  PROVE  IInv'
<1>1. /\ changes \in Nat /\ changes' \in Nat
      /\ changes' \in 0 .. MaxChanges /\ changes <= changes'
  BY ConstantsAssumption DEF IInv, TypeOK, NodeChanges, Elected, Change
<1>2. UNCHANGED <<pod, podMap, open, pc, asked, todo, target, temp, gone>>
  BY DEF NodeChanges, Elected, generator
<1>3. up' \subseteq Nodes /\ leader' \in Nodes \cup {Nobody}
  BY DEF IInv, TypeOK, NodeChanges, Elected
<1>4. TypeOK'
  BY <1>1, <1>2, <1>3 DEF IInv, TypeOK
<1>5. PodsNumbered'
  BY <1>1, <1>2, ConstantsAssumption DEF IInv, TypeOK, PodsNumbered
<1>6. GoneForGood'
  <2>1. \A c, d \in Nat : c <= d => (1 .. c + 1) \subseteq (1 .. d + 1)
    OBVIOUS
  <2>2. gone' \subseteq Nodes \X (1 .. changes' + 1)
    BY <1>1, <1>2, <2>1 DEF IInv, GoneForGood
  <2>3. QED
    BY <1>2, <2>2 DEF IInv, GoneForGood
<1>7. QED
  BY <1>2, <1>4, <1>5, <1>6 DEF IInv, ClientsInPlace, DialsWhatIsKnown

LEMMA StepPreserves == IInv /\ [Next]_vars => IInv'
<1> SUFFICES ASSUME IInv, [Next]_vars PROVE IInv'
  OBVIOUS
<1>1. CASE GetWorkloadCluster
  <2>1. /\ PodsNumbered' /\ GoneForGood' /\ DOMAIN podMap' \subseteq Nodes
        /\ \A n \in DOMAIN podMap' : podMap'[n] \in 1 .. MaxChanges + 1
    BY <1>1, PodsListed DEF GetWorkloadCluster, world
  <2>2. QED
    BY <1>1, <2>1 DEF GetWorkloadCluster, world, IInv, TypeOK, ClientsInPlace, DialsWhatIsKnown
<1>2. CASE StartForLeader
  <2>1. PodsNumbered' /\ GoneForGood'
    BY <1>2, PodsUnchanged DEF StartForLeader, podVars, world
  <2>2. QED
    BY <1>2, <2>1 DEF StartForLeader, world, IInv, TypeOK, ClientsInPlace, DialsWhatIsKnown
<1>3. CASE Generator
  BY <1>2, <1>3, NextNodeStep, FindPodStep, ClientFailsStep, TemporaryClientStep,
     LeaderClientStep, MembersFailStep, FindLeaderStep, CloseClientStep DEF Generator
<1>4. CASE \E n \in Nodes : PodRecycled(n) \/ NodeChanges(n) \/ Elected(n)
  BY <1>4, PodRecycledStep, OtherChangeStep
<1>5. CASE UNCHANGED vars
  <2>1. PodsNumbered' /\ GoneForGood'
    BY <1>5, PodsUnchanged DEF vars, podVars
  <2>2. QED
    BY <1>5, <2>1 DEF vars, IInv, TypeOK, ClientsInPlace, DialsWhatIsKnown
<1>6. QED
  BY <1>1, <1>3, <1>4, <1>5 DEF Next

LEMMA Inductive == Spec => []IInv
BY InitHolds, StepPreserves, PTL DEF Spec

-----------------------------------------------------------------------------

(* The generator and the cluster it looks at stay within their types; above    *)
(* all, the pod map names pods of control plane nodes only.                    *)
THEOREM TypeCorrect == Spec => []TypeOK
<1>1. IInv => TypeOK
  BY DEF IInv
<1>2. QED
  BY <1>1, Inductive, PTL

(* Whichever step of getLeaderClient fails, and whatever happens to the nodes  *)
(* meanwhile, every etcd client is closed when the call is over, and a call    *)
(* that succeeds leaves one client to its caller (etcd_client_generator.go).   *)
THEOREM AllClientsClosed == Spec => []ClientsClosed
<1>1. IInv => ClientsClosed
  <2> SUFFICES ASSUME IInv, pc = "use" PROVE Cardinality(open) = 1
    BY DEF IInv, ClientsInPlace, ClientsClosed
  <2>1. PICK c \in Clients : open = {<<c, "leader">>}
    BY DEF IInv, ClientsInPlace
  <2>2. QED
    BY <2>1, FS_Singleton
<1>2. QED
  BY <1>1, Inductive, PTL

(* A pod that was found to be gone is never dialled again, however often the   *)
(* pods of the node are recycled (createClient resets the etcdPodMap).         *)
THEOREM GonePodsForgotten == Spec => []RecycledPodsForgotten
<1>1. IInv => RecycledPodsForgotten
  BY DEF IInv, DialsWhatIsKnown, GoneForGood, RecycledPodsForgotten
<1>2. QED
  BY <1>1, Inductive, PTL
=============================================================================
