------------------------ MODULE ControlPlane_proofs ------------------------
(***************************************************************************)
(* What holds of ControlPlaneSystem for every number of machines, replicas,  *)
(* failures, faults and requests.                                           *)
(***************************************************************************)
EXTENDS ControlPlaneSystem, FiniteSetTheorems, WellFoundedInduction, TLAPS

-----------------------------------------------------------------------------
(* The order of creation.                                                   *)

\* A set of numbers that is not empty has a least element.
LEMMA LeastExists ==
  ASSUME NEW S \in SUBSET Nat, S # {}
  PROVE  \E m \in S : \A n \in S : m <= n
<1> DEFINE R == {ss \in Nat \X Nat : ss[1] < ss[2]}
<1>1. IsWellFoundedOn(R, Nat)
  BY NatLessThanWellFounded DEF OpToRel
<1>2. PICK x \in S : \A y \in S : ~ (<<y, x>> \in R)
  <2> HIDE DEF R
  <2>1. S \subseteq Nat
    OBVIOUS
  <2>2. QED
    BY <1>1, <2>1, WFMin
<1>3. \A y \in S : x <= y
  <2> TAKE y \in S
  <2>1. x \in Nat /\ y \in Nat
    OBVIOUS
  <2>2. y < x => <<y, x>> \in R
    BY <2>1
  <2>3. QED
    BY <1>2, <2>1, <2>2
<1>4. QED
  BY <1>3

\* Machines.Oldest() returns one of the machines it is asked about.
LEMMA OldestMember ==
  ASSUME NEW S \in SUBSET Machine, S # {}
  PROVE  Oldest(S) \in S
<1>1. S \in SUBSET Nat
  BY DEF Machine
<1>2. \E m \in S : \A n \in S : m <= n
  BY <1>1, LeastExists
<1>3. QED
  BY <1>2, Zenon DEF Oldest

\* A machine that is selected for remediation was listed as unhealthy.
LEMMA ToBeRemediatedMember ==
  ASSUME seen \in Seen, seen.unhealthy # {}
  PROVE  ToBeRemediated \in seen.unhealthy
<1> DEFINE S == IF seen.unhealthy \ seen.noderef # {} THEN seen.unhealthy \ seen.noderef
                ELSE seen.unhealthy
<1>1. seen.unhealthy \in SUBSET Machine
  BY DEF Seen
<1>2. S \in SUBSET Machine /\ S # {} /\ S \subseteq seen.unhealthy
  BY <1>1
<1>3. ToBeRemediated = Oldest(S)
  BY Zenon DEF ToBeRemediated
<1> HIDE DEF S
<1>4. QED
  BY <1>2, <1>3, OldestMember

\* A control plane with more machines than wanted has a machine to scale down.
LEMMA ScaleDownSelects ==
  ASSUME seen \in Seen, kcp \in KCP, WantsScaleDown
  PROVE  SelectMachineForScaleDown \in Machine
<1> DEFINE A == MachinesNeedingRollout \cap seen.annotated
           S == IF A # {} THEN A
                ELSE IF seen.annotated # {} THEN seen.annotated
                ELSE IF MachinesNeedingRollout # {} THEN MachinesNeedingRollout
                ELSE seen.machines
<1>1. seen.machines # {}
  <2>1. SUFFICES ASSUME seen.machines = {} PROVE FALSE
    OBVIOUS
  <2>2. Cardinality(seen.machines) = 0
    BY <2>1, FS_EmptySet, Zenon
  <2>3. kcp.replicas \in Nat
    <3>1. Replicas \cup {0} \subseteq Nat
      BY ClusterAssumption DEF ClusterAssumption
    <3>2. kcp.replicas \in Replicas \cup {0}
      BY DEF KCP
    <3>3. QED
      BY <3>1, <3>2
  <2>4. QED
    BY <2>2, <2>3 DEF WantsScaleDown
<1>2. /\ seen.machines \in SUBSET Machine
      /\ seen.annotated \in SUBSET Machine
      /\ MachinesNeedingRollout \in SUBSET Machine
  BY DEF Seen, MachinesNeedingRollout
<1>3. S \in SUBSET Machine /\ S # {}
  BY <1>1, <1>2
<1>4. SelectMachineForScaleDown = Oldest(S)
  BY Zenon DEF SelectMachineForScaleDown
<1> HIDE DEF S
<1>5. QED
  BY <1>3, <1>4, OldestMember

-----------------------------------------------------------------------------
(* Types.                                                                   *)

\* The initial state has its types.
LEMMA TypeInit == Init => TypeOK
<1> SUFFICES ASSUME Init PROVE TypeOK
  OBVIOUS
<1>1. 1 .. InitMachines \subseteq Machine /\ InitMachines \in {None} \cup Machine
  BY ClusterAssumption DEF ClusterAssumption, Machine, None
<1>2. ClusterTypeOK
  <2>1. initialized \in BOOLEAN
    BY DEF Init, ClusterInit
  <2>2. leader \in {None} \cup Machine
    BY <1>1 DEF Init, ClusterInit
  <2>3. failures \in Nat /\ userOps \in Nat
    BY DEF Init, ClusterInit
  <2>4. QED
    BY <1>1, <2>1, <2>2, <2>3 DEF Init, ClusterInit, ClusterTypeOK
<1>3. ControllerTypeOK
  <2>1. Stored \in KCP /\ NothingRead \in KCP
    BY <1>2 DEF Stored, NothingRead, KCP, ClusterTypeOK
  <2>2. NothingSeen \in Seen
    BY DEF NothingSeen, Seen
  <2>3. NothingToDo \in Todo
    BY DEF NothingToDo, Todo, Operations
  <2>4. QED
    BY <2>1, <2>2, <2>3 DEF Init, ControllerInit, ControllerTypeOK, Steps
<1>4. QED
  BY <1>2, <1>3 DEF TypeOK

\* An election keeps the leader among the machines.
LEMMA ElectType ==
  ASSUME NEW mem \in SUBSET Machine, NEW up, leader \in {None} \cup Machine, Elect(mem, up)
  PROVE  leader' \in {None} \cup Machine
BY DEF Elect

\* Choosing an operation keeps the types, if its target has one.
LEMMA BeginType ==
  ASSUME TypeOK,
         NEW step \in Steps, NEW op \in Operations,
         NEW target \in {None} \cup Machine, NEW candidate,
         Begin(step, op, target, candidate)
  PROVE  TypeOK'
<1>1. seen.noderef \subseteq Machine
  BY DEF TypeOK, ControllerTypeOK, Seen
<1>2. todo' \in Todo
  <2>1. (target \in seen.noderef) \in BOOLEAN
    OBVIOUS
  <2>2. (IF candidate \in seen.noderef THEN candidate ELSE None) \in {None} \cup Machine
    BY <1>1
  <2>3. QED
    BY <2>1, <2>2 DEF Begin, Todo
<1>3. seen' \in Seen
  BY DEF Begin, NothingSeen, Seen
<1>4. ControllerTypeOK'
  BY <1>2, <1>3 DEF Begin, TypeOK, ControllerTypeOK
<1>5. ClusterTypeOK'
  BY DEF Begin, TypeOK, ClusterTypeOK, clusterVars, machineVars, kcpVars, workloadVars, envVars
<1>6. QED
  BY <1>4, <1>5 DEF TypeOK

\* The end of a reconcile has its types.
LEMMA ForgetType ==
  ASSUME Forget, cache \in KCP, cache' = cache, faults' \in Nat
  PROVE  ControllerTypeOK'
<1>1. kcp' \in KCP
  BY DEF Forget, NothingRead, KCP
<1>2. seen' \in Seen
  BY DEF Forget, NothingSeen, Seen
<1>3. todo' \in Todo
  BY DEF Forget, NothingToDo, Todo, Operations
<1>4. QED
  BY <1>1, <1>2, <1>3 DEF Forget, ControllerTypeOK, Steps

\* Every step of the environment and of the machine reconciler keeps the types.
LEMMA EnvironmentTypeStep ==
  ASSUME TypeOK, NEW m \in Machine,
         MachineReconcilerStep(m) \/ EnvironmentStep(m) \/ Fail(m) \/ StartupTimeout(m)
  PROVE  ClusterTypeOK'
<1> USE DEF TypeOK, ClusterTypeOK, machineVars, kcpVars, workloadVars, envVars
<1>1. CASE Join(m)
  <2>1. members' \in SUBSET Machine
    BY <1>1 DEF Join
  <2>2. leader' \in {None} \cup Machine
    BY <1>1, <2>1, ElectType DEF Join
  <2>3. QED
    BY <1>1, <2>1, <2>2 DEF Join
<1>2. CASE SetNodeRef(m)
  BY <1>2 DEF SetNodeRef
<1>3. CASE MarkUnhealthy(m)
  BY <1>3 DEF MarkUnhealthy
<1>4. CASE MarkHealthy(m)
  BY <1>4 DEF MarkHealthy
<1>5. CASE Terminate(m)
  <2>1. leader' \in {None} \cup Machine
    BY <1>5, ElectType DEF Terminate
  <2>2. remFor' \in [Machine -> {None} \cup Machine]
    BY <1>5 DEF Terminate
  <2>3. QED
    BY <1>5, <2>1, <2>2 DEF Terminate
<1>6. CASE K3sRemovesMember(m)
  <2>1. members' \in SUBSET Machine
    BY <1>6 DEF K3sRemovesMember
  <2>2. leader' \in {None} \cup Machine
    BY <1>6, <2>1, ElectType DEF K3sRemovesMember
  <2>3. QED
    BY <1>6, <2>1, <2>2 DEF K3sRemovesMember
<1>7. CASE RequestEtcdRemoval(m)
  BY <1>7 DEF RequestEtcdRemoval
<1>8. CASE RemoveHook(m)
  BY <1>8 DEF RemoveHook
<1>9. CASE Fail(m)
  <2>1. leader' \in {None} \cup Machine
    BY <1>9, ElectType DEF Fail
  <2>2. failures' \in Nat
    BY <1>9 DEF Fail
  <2>3. QED
    BY <1>9, <2>1, <2>2 DEF Fail
<1>10. CASE StartupTimeout(m)
  <2>1. failures' \in Nat
    BY <1>10 DEF StartupTimeout
  <2>2. QED
    BY <1>10, <2>1 DEF StartupTimeout
<1>11. QED
  BY <1>1, <1>2, <1>3, <1>4, <1>5, <1>6, <1>7, <1>8, <1>9, <1>10
     DEF MachineReconcilerStep, EnvironmentStep

\* Every request of a user keeps the types.
LEMMA UserTypeStep ==
  ASSUME TypeOK, UserStep
  PROVE  ClusterTypeOK'
<1> USE DEF TypeOK, ClusterTypeOK, machineVars, kcpVars, workloadVars, envVars
<1>1. ASSUME NEW request, UserOp(request) PROVE userOps' \in Nat
  BY <1>1 DEF UserOp
<1>2. CASE Upgrade
  <2>1. userOps' \in Nat
    BY <1>1, <1>2 DEF Upgrade
  <2>2. QED
    BY <1>2, <2>1 DEF Upgrade
<1>3. ASSUME NEW r \in Replicas, ScaleTo(r) PROVE ClusterTypeOK'
  <2>1. userOps' \in Nat
    BY <1>1, <1>3 DEF ScaleTo
  <2>2. QED
    BY <1>3, <2>1 DEF ScaleTo
<1>4. ASSUME NEW m \in Machine, AnnotateForDeletion(m) PROVE ClusterTypeOK'
  <2>1. userOps' \in Nat
    BY <1>1, <1>4 DEF AnnotateForDeletion
  <2>2. QED
    BY <1>4, <2>1 DEF AnnotateForDeletion
<1>5. ASSUME NEW m \in Machine, UserDeletes(m) PROVE ClusterTypeOK'
  <2>1. userOps' \in Nat
    BY <1>1, <1>5 DEF UserDeletes
  <2>2. QED
    BY <1>5, <2>1 DEF UserDeletes
<1>6. QED
  BY <1>2, <1>3, <1>4, <1>5 DEF UserStep

\* Every step of the controller keeps the types.
LEMMA ControllerTypeStep ==
  ASSUME TypeOK, ControllerNext
  PROVE  TypeOK'
<1> USE DEF TypeOK, clusterVars, machineVars, kcpVars, workloadVars, envVars, Goto
<1>a. /\ seen \in Seen /\ kcp \in KCP /\ todo \in Todo /\ cache \in KCP
      /\ Stored \in KCP
  BY DEF ControllerTypeOK, ClusterTypeOK, Stored, KCP
<1>b. seen.unhealthy \subseteq Machine
  BY <1>a DEF Seen
<1>c. RemediationDue => ToBeRemediated \in {None} \cup Machine
  BY <1>a, <1>b, ToBeRemediatedMember DEF RemediationDue
<1>d. todo.target \in {None} \cup Machine
  BY <1>a DEF Todo
<1>1. CASE Start
  <2>1. kcp' \in KCP
    BY <1>1, <1>a DEF Start
  <2>2. ann' \in {None} \cup Machine
    BY <1>1, <2>1 DEF Start, KCP
  <2>3. QED
    BY <1>1, <2>1, <2>2 DEF Start, ControllerTypeOK, ClusterTypeOK, Steps
<1>2. CASE DeliverKCP
  BY <1>2, <1>a DEF DeliverKCP, ControllerTypeOK, ClusterTypeOK
<1>3. CASE ListMachines
  <2>1. seen' \in Seen
    BY <1>3 DEF ListMachines, Seen, ClusterTypeOK
  <2>2. QED
    BY <1>3, <2>1 DEF ListMachines, ControllerTypeOK, ClusterTypeOK, Steps
<1>4. CASE UpdateConditions
  <2>1. HealthyMachines \in SUBSET Machine
    BY DEF HealthyMachines, AgentHealthy, EtcdMemberHealthy, ClusterTypeOK
  <2>2. seen' \in Seen
    BY <1>4, <1>a, <2>1 DEF UpdateConditions, Seen
  <2>3. pc' \in Steps
    BY <1>4 DEF UpdateConditions, Steps
  <2>4. QED
    BY <1>4, <2>2, <2>3 DEF UpdateConditions, ControllerTypeOK, ClusterTypeOK
<1>5. CASE ReconcileEtcdMembers
  <2>1. members' \in SUBSET Machine
    BY <1>5 DEF ReconcileEtcdMembers, ClusterTypeOK
  <2>2. leader' \in {None} \cup Machine
    BY <1>5, <2>1, ElectType DEF ReconcileEtcdMembers, ClusterTypeOK
  <2>3. pc' \in Steps
    BY <1>5 DEF ReconcileEtcdMembers, Steps
  <2>4. QED
    BY <1>5, <2>1, <2>2, <2>3 DEF ReconcileEtcdMembers, ControllerTypeOK, ClusterTypeOK
<1>6. CASE RemediateInitialized
  BY <1>6, <1>c, BeginType DEF RemediateInitialized, Steps, Operations
<1>7. CASE RemediateUninitialized
  BY <1>7, <1>c, BeginType DEF RemediateUninitialized, Steps, Operations
<1>8. CASE RemediationFails
  BY <1>8, BeginType DEF RemediationFails, Steps, Operations
<1>9. CASE InitializeControlPlane
  BY <1>9, BeginType DEF InitializeControlPlane, Steps, Operations
<1>10. CASE ScaleUpControlPlane
  BY <1>10, BeginType DEF ScaleUpControlPlane, Steps, Operations
<1>11. CASE ScaleDownControlPlane
  <2>1. SelectMachineForScaleDown \in {None} \cup Machine
    BY <1>11, <1>a, ScaleDownSelects DEF ScaleDownControlPlane
  <2>2. QED
    BY <1>11, <2>1, BeginType DEF ScaleDownControlPlane, Steps, Operations
<1>12. CASE Wait
  BY <1>12, BeginType DEF Wait, Steps, Operations
<1>13. CASE ForwardEtcdLeadership
  <2>1. leader' \in {None} \cup Machine
    BY <1>13, <1>a DEF ForwardEtcdLeadership, ClusterTypeOK, Todo
  <2>2. pc' \in Steps /\ UNCHANGED <<cache, kcp, ann, seen, todo, faults>>
    BY <1>13 DEF ForwardEtcdLeadership, Steps
  <2>3. QED
    BY <1>13, <2>1, <2>2 DEF ForwardEtcdLeadership, ControllerTypeOK, ClusterTypeOK
<1>14. CASE AddPreTerminateHook
  <2>1. pc' \in Steps /\ hook' \subseteq machines /\ UNCHANGED <<cache, kcp, ann, seen, todo, faults>>
    BY <1>14 DEF AddPreTerminateHook, Steps, ClusterTypeOK
  <2>2. QED
    BY <1>14, <2>1 DEF AddPreTerminateHook, ControllerTypeOK, ClusterTypeOK
<1>15. CASE DeleteMachine
  <2>1. pc' \in Steps /\ ann' \in {None} \cup Machine
    BY <1>15, <1>d DEF DeleteMachine, Steps, ControllerTypeOK
  <2>2. QED
    BY <1>15, <2>1 DEF DeleteMachine, ControllerTypeOK, ClusterTypeOK
<1>16. CASE PatchRemediatedMachine
  <2>1. hook' \subseteq machines
    BY <1>16 DEF PatchRemediatedMachine, ClusterTypeOK
  <2>2. QED
    BY <1>16, <2>1 DEF PatchRemediatedMachine, ControllerTypeOK, ClusterTypeOK, Steps
<1>17. CASE CreateMachine
  <2>1. pc' \in Steps
    BY <1>17 DEF CreateMachine, Steps
  <2>2. CASE UNCHANGED <<machines, lastId, remFor, ann>>
    BY <1>17, <2>1, <2>2 DEF CreateMachine, ControllerTypeOK, ClusterTypeOK
  <2>3. CASE ~UNCHANGED <<machines, lastId, remFor, ann>>
    <3>1. /\ lastId # MaxMachines /\ lastId' = lastId + 1
          /\ machines' = machines \cup {lastId'}
          /\ remFor' = [remFor EXCEPT ![lastId'] = ann]
          /\ ann' = None
      BY <1>17, <2>3 DEF CreateMachine
    <3>2. lastId' \in Machine
      BY <3>1, ClusterAssumption DEF ClusterAssumption, ClusterTypeOK, Machine, None
    <3>3. remFor' \in [Machine -> {None} \cup Machine] /\ ann' \in {None} \cup Machine
      BY <3>1 DEF ControllerTypeOK, ClusterTypeOK
    <3>4. QED
      BY <1>17, <2>1, <3>1, <3>2, <3>3 DEF CreateMachine, ControllerTypeOK, ClusterTypeOK
  <2>4. QED
    BY <2>2, <2>3
<1>18. CASE PatchKThreesControlPlane
  <2>1. ControllerTypeOK'
    BY <1>18, <1>a, ForgetType DEF PatchKThreesControlPlane, ControllerTypeOK
  <2>2. initialized' \in BOOLEAN
    BY <1>18 DEF PatchKThreesControlPlane, InitializedStatus
  <2>3. rip' \in {None} \cup Machine
    BY <1>18 DEF PatchKThreesControlPlane, ControllerTypeOK, ClusterTypeOK
  <2>4. QED
    BY <1>18, <2>1, <2>2, <2>3 DEF PatchKThreesControlPlane, ClusterTypeOK
<1>19. CASE CallFails
  <2>1. pc' \in Steps
    BY <1>19 DEF CallFails, Steps
  <2>2. faults' \in Nat
    BY <1>19 DEF CallFails, Fault, ControllerTypeOK
  <2>3. QED
    BY <1>19, <2>1, <2>2 DEF CallFails, ControllerTypeOK, ClusterTypeOK
<1>20. CASE Restart
  <2>1. faults' \in Nat
    BY <1>20 DEF Restart, Fault, ControllerTypeOK
  <2>2. ControllerTypeOK'
    BY <1>20, <1>a, <2>1, ForgetType DEF Restart
  <2>3. QED
    BY <1>20, <2>2 DEF Restart, ClusterTypeOK
<1>21. QED
  BY <1>1, <1>2, <1>3, <1>4, <1>5, <1>6, <1>7, <1>8, <1>9, <1>10, <1>11, <1>12, <1>13,
     <1>14, <1>15, <1>16, <1>17, <1>18, <1>19, <1>20
     DEF ControllerNext, ReconcileStep

\* The types are kept by every step.
LEMMA TypeStep == TypeOK /\ [Next]_vars => TypeOK'
<1> SUFFICES ASSUME TypeOK, [Next]_vars PROVE TypeOK'
  OBVIOUS
<1>1. CASE ControllerNext
  BY <1>1, ControllerTypeStep
<1>2. ASSUME ClusterTypeOK', UNCHANGED controllerVars PROVE TypeOK'
  BY <1>2 DEF TypeOK, ControllerTypeOK, controllerVars
<1>3. CASE UserStep /\ UNCHANGED controllerVars
  BY <1>2, <1>3, UserTypeStep
<1>4. ASSUME NEW m \in Machine, UNCHANGED controllerVars,
             MachineReconcilerStep(m) \/ EnvironmentStep(m) \/ Fail(m) \/ StartupTimeout(m)
      PROVE  TypeOK'
  BY <1>2, <1>4, EnvironmentTypeStep
<1>5. CASE UNCHANGED vars
  BY <1>5 DEF TypeOK, ClusterTypeOK, ControllerTypeOK, vars, clusterVars, machineVars, kcpVars,
     workloadVars, envVars, controllerVars
<1>6. QED
  BY <1>1, <1>3, <1>4, <1>5 DEF Next

\* Every variable keeps its type, and no step of the controller, however late,
\* brings back a machine that Cluster API has terminated: for any number of
\* machines, any cache lag and any faults.
THEOREM TypeCorrect == Spec => []TypeOK
  BY TypeInit, TypeStep, PTL DEF Spec
-----------------------------------------------------------------------------
(* The inductive invariant, for any lag of the cache.                       *)

\* The parts of the inductive invariant besides the types.
Parts ==
  /\ OneDeletionAtATime
  /\ InitializesOneMachine
  /\ ReadTrails
  /\ AloneUntilKnown
  /\ ListCovers
  /\ OperationAlone
  /\ HookFirst
  /\ HookGuards
  /\ NodeFacts

\* The inductive invariant holds initially.
LEMMA InvInit == Init => IInv
<1> SUFFICES ASSUME Init PROVE IInv
  OBVIOUS
<1>1. TypeOK
  BY TypeInit
<1>2. InitializesOneMachine
  <2>1. ~initialized => InitMachines = 0
    <3>1. initialized = (InitMachines > 0)
      BY DEF Init, ClusterInit
    <3>2. ~(InitMachines > 0) => InitMachines = 0
      BY ClusterAssumption DEF ClusterAssumption
    <3>3. QED
      BY <3>1, <3>2
  <2>2. ~initialized => machines = {}
    BY <2>1 DEF Init, ClusterInit
  <2>3. QED
    BY <2>2 DEF InitializesOneMachine
<1>3. Readable.initialized = initialized /\ ~kcp.initialized /\ pc = "idle"
  BY DEF Init, ControllerInit, Readable, Stored, NothingRead
<1>4. ReadTrails /\ AloneUntilKnown
  BY <1>2, <1>3 DEF ReadTrails, AloneUntilKnown, InitializesOneMachine
<1>5. QED
  BY <1>1, <1>2, <1>4 DEF IInv, Init, ClusterInit, ControllerInit, OneDeletionAtATime,
     ListCovers, OperationAlone, HookFirst, HookGuards, NodeFacts

\* Every step of the environment and of the machine reconciler keeps it.
LEMMA EnvironmentInvStep ==
  ASSUME IInv, NEW m \in Machine, UNCHANGED controllerVars,
         MachineReconcilerStep(m) \/ EnvironmentStep(m) \/ Fail(m) \/ StartupTimeout(m)
  PROVE  Parts'
<1> USE DEF IInv, Parts, TypeOK, ClusterTypeOK, OneDeletionAtATime, InitializesOneMachine,
        ReadTrails, AloneUntilKnown, Readable, Stored, ListCovers, OperationAlone,
        HookFirst, HookGuards, NodeFacts,
        machineVars, kcpVars, workloadVars, envVars, controllerVars
<1>1. CASE Join(m)
  BY <1>1 DEF Join
<1>2. CASE SetNodeRef(m)
  BY <1>2 DEF SetNodeRef
<1>3. CASE MarkUnhealthy(m)
  BY <1>3 DEF MarkUnhealthy
<1>4. CASE MarkHealthy(m)
  BY <1>4 DEF MarkHealthy
<1>5. CASE Terminate(m)
  BY <1>5 DEF Terminate
<1>6. CASE K3sRemovesMember(m)
  BY <1>6 DEF K3sRemovesMember
<1>7. CASE RequestEtcdRemoval(m)
  BY <1>7 DEF RequestEtcdRemoval, Held, IsRemoveEtcdMemberNeeded
<1>8. CASE RemoveHook(m)
  BY <1>8 DEF RemoveHook, Held, IsRemoveEtcdMemberNeeded, MemberRemoved
<1>9. CASE Fail(m)
  BY <1>9 DEF Fail
<1>10. CASE StartupTimeout(m)
  BY <1>10 DEF StartupTimeout
<1>11. QED
  BY <1>1, <1>2, <1>3, <1>4, <1>5, <1>6, <1>7, <1>8, <1>9, <1>10
     DEF MachineReconcilerStep, EnvironmentStep

\* Every request of a user keeps it.
LEMMA UserInvStep ==
  ASSUME IInv, UserStep, UNCHANGED controllerVars
  PROVE  Parts'
<1> USE DEF IInv, Parts, TypeOK, ClusterTypeOK, OneDeletionAtATime, InitializesOneMachine,
        ReadTrails, AloneUntilKnown, Readable, Stored, ListCovers, OperationAlone,
        HookFirst, HookGuards, NodeFacts,
        machineVars, kcpVars, workloadVars, envVars, controllerVars
<1>1. CASE Upgrade
  BY <1>1 DEF Upgrade
<1>2. ASSUME NEW r \in Replicas, ScaleTo(r) PROVE Parts'
  BY <1>2 DEF ScaleTo
<1>3. ASSUME NEW m \in Machine, AnnotateForDeletion(m) PROVE Parts'
  BY <1>3 DEF AnnotateForDeletion
<1>4. ASSUME NEW m \in Machine, UserDeletes(m) PROVE Parts'
  BY <1>4 DEF UserDeletes
<1>5. QED
  BY <1>1, <1>2, <1>3, <1>4 DEF UserStep

\* Every step of the controller keeps it.
LEMMA ControllerInvStep ==
  ASSUME IInv, ControllerNext
  PROVE  Parts'
<1> USE DEF IInv, Parts, TypeOK, ClusterTypeOK, OneDeletionAtATime, InitializesOneMachine,
        ReadTrails, AloneUntilKnown, Readable, Stored, ListCovers, OperationAlone,
        HookFirst, HookGuards, NodeFacts,
        clusterVars, machineVars, kcpVars, workloadVars, envVars, Goto
<1>1. CASE Start
  BY <1>1 DEF Start
<1>2. CASE DeliverKCP
  BY <1>2 DEF DeliverKCP
<1>3. CASE ListMachines
  BY <1>3 DEF ListMachines
<1>4. CASE UpdateConditions
  BY <1>4 DEF UpdateConditions, HealthyMachines
<1>5. CASE ReconcileEtcdMembers
  BY <1>5 DEF ReconcileEtcdMembers
<1>6. CASE RemediateInitialized
  BY <1>6 DEF RemediateInitialized, RemediationDue, Begin
<1>7. CASE RemediateUninitialized
  BY <1>7 DEF RemediateUninitialized, RemediationDue, Begin
<1>8. CASE RemediationFails
  BY <1>8 DEF RemediationFails, Begin
<1>9. CASE InitializeControlPlane
  BY <1>9 DEF InitializeControlPlane, Begin
<1>10. CASE ScaleUpControlPlane
  <2>1. seen.machines # {}
    BY <1>10 DEF ScaleUpControlPlane, WantsScaleUp, MachinesNeedingRollout
  <2>2. seen.deleting = {} /\ seen.healthy # {}
    BY <1>10, <2>1 DEF ScaleUpControlPlane, PreflightChecks
  <2>3. kcp.initialized /\ deleting \ userDeleted = {}
    BY <1>10, <2>2 DEF ScaleUpControlPlane
  <2>4. QED
    BY <1>10, <2>3 DEF ScaleUpControlPlane, Begin
<1>11. CASE ScaleDownControlPlane
  BY <1>11 DEF ScaleDownControlPlane, Begin, PreflightChecks
<1>12. CASE Wait
  BY <1>12 DEF Wait, Begin
<1>13. CASE ForwardEtcdLeadership
  BY <1>13 DEF ForwardEtcdLeadership
<1>14. CASE AddPreTerminateHook
  BY <1>14 DEF AddPreTerminateHook
<1>15. CASE DeleteMachine
  BY <1>15 DEF DeleteMachine
<1>16. CASE PatchRemediatedMachine
  BY <1>16 DEF PatchRemediatedMachine
<1>17. CASE CreateMachine
  <2>1. CASE UNCHANGED machines
    BY <1>17, <2>1 DEF CreateMachine
  <2>2. CASE machines' # machines /\ todo.op = "init"
    <3>1. machines = {} /\ machines' = {lastId'}
      BY <1>17, <2>2 DEF CreateMachine
    <3>2. QED
      BY <1>17, <2>2, <3>1 DEF CreateMachine
  <2>3. CASE machines' # machines /\ todo.op # "init"
    <3>1. kcp.initialized /\ initialized /\ deleting \ userDeleted = {}
      BY <1>17, <2>3 DEF CreateMachine
    <3>2. Readable.initialized
      BY <1>17, <3>1
    <3>3. QED
      BY <1>17, <2>3, <3>1, <3>2 DEF CreateMachine
  <2>4. QED
    BY <2>1, <2>2, <2>3
<1>18. CASE PatchKThreesControlPlane
  BY <1>18 DEF PatchKThreesControlPlane, InitializedStatus, Forget, NothingRead
<1>19. CASE CallFails
  BY <1>19 DEF CallFails
<1>20. CASE Restart
  BY <1>20 DEF Restart, Forget, NothingRead
<1>21. QED
  BY <1>1, <1>2, <1>3, <1>4, <1>5, <1>6, <1>7, <1>8, <1>9, <1>10, <1>11, <1>12, <1>13, <1>14, <1>15, <1>16, <1>17, <1>18, <1>19, <1>20
     DEF ControllerNext, ReconcileStep

\* The inductive invariant is kept by every step.
LEMMA InvStep == IInv /\ [Next]_vars => IInv'
<1> SUFFICES ASSUME IInv, [Next]_vars PROVE IInv'
  OBVIOUS
<1>1. TypeOK'
  BY TypeStep DEF IInv
<1>2. CASE ControllerNext
  BY <1>1, <1>2, ControllerInvStep DEF IInv, Parts
<1>3. CASE UserStep /\ UNCHANGED controllerVars
  BY <1>1, <1>3, UserInvStep DEF IInv, Parts
<1>4. ASSUME NEW m \in Machine, UNCHANGED controllerVars,
             MachineReconcilerStep(m) \/ EnvironmentStep(m) \/ Fail(m) \/ StartupTimeout(m)
      PROVE  IInv'
  BY <1>1, <1>4, EnvironmentInvStep DEF IInv, Parts
<1>5. CASE UNCHANGED vars
  BY <1>1, <1>5 DEF IInv, OneDeletionAtATime, InitializesOneMachine, ReadTrails, AloneUntilKnown, Readable, Stored, ListCovers,
     OperationAlone, HookFirst, HookGuards, NodeFacts, vars, clusterVars, machineVars, kcpVars,
     workloadVars, envVars, controllerVars
<1>6. QED
  BY <1>2, <1>3, <1>4, <1>5 DEF Next

\* IInv is an invariant.
LEMMA Invariance == Spec => []IInv
<1>1. IInv /\ [Next]_vars => IInv'
  BY InvStep
<1>2. QED
  BY <1>1, InvInit, PTL DEF Spec

-----------------------------------------------------------------------------
(* What follows from it.                                                    *)

\* Scale down, rollout and remediation never have two machines in deletion at
\* once, however often the controller is interrupted and restarted between
\* asking for a deletion and recording it, and however old the
\* KThreesControlPlane in its cache is.
THEOREM DeletesOneAtATime == Spec => []OneDeletionAtATime
<1>1. IInv => OneDeletionAtATime
  BY DEF IInv
<1>2. QED
  BY <1>1, Invariance, PTL

\* There is never a second machine before the control plane is initialized
\* (initializeControlPlane, scaleUpControlPlane), even when a reconcile reads
\* late that it is.
THEOREM InitializesAlone == Spec => []InitializesOneMachine
<1>1. IInv => InitializesOneMachine
  BY DEF IInv
<1>2. QED
  BY <1>1, Invariance, PTL

\* Which steps take members away, and which one ends machines.
LEMMA WhoRemoves ==
  ASSUME [Next]_vars
  PROVE  /\ members \subseteq members' \/ ReconcileEtcdMembers
             \/ \E m \in Machine : Join(m) \/ K3sRemovesMember(m)
         /\ machines \subseteq machines' \/ \E m \in Machine : Terminate(m)
<1> USE DEF clusterVars, machineVars, kcpVars, workloadVars, envVars
<1>1. CASE ControllerNext
  BY <1>1 DEF ControllerNext, ReconcileStep, Start, DeliverKCP, ListMachines, UpdateConditions,
     ReconcileEtcdMembers, RemediateInitialized, RemediateUninitialized, RemediationFails,
     InitializeControlPlane, ScaleUpControlPlane, ScaleDownControlPlane, Wait, Begin,
     ForwardEtcdLeadership, AddPreTerminateHook, DeleteMachine, PatchRemediatedMachine,
     CreateMachine, PatchKThreesControlPlane, CallFails, Restart
<1>2. CASE UserStep
  BY <1>2 DEF UserStep, Upgrade, ScaleTo, AnnotateForDeletion, UserDeletes
<1>3. ASSUME NEW m \in Machine,
             MachineReconcilerStep(m) \/ EnvironmentStep(m) \/ Fail(m) \/ StartupTimeout(m)
      PROVE  \/ members \subseteq members' /\ machines \subseteq machines'
             \/ members \subseteq members' /\ Terminate(m)
             \/ machines \subseteq machines' /\ (Join(m) \/ K3sRemovesMember(m))
  BY <1>3 DEF MachineReconcilerStep, RequestEtcdRemoval, RemoveHook, EnvironmentStep, Join,
     SetNodeRef, MarkUnhealthy, MarkHealthy, Terminate, K3sRemovesMember, Fail, StartupTimeout
<1>4. CASE UNCHANGED vars
  BY <1>4 DEF vars
<1>5. QED
  BY <1>1, <1>2, <1>3, <1>4 DEF Next

\* The etcd member of a machine that is there and stays is never taken out, not
\* even when the machine joins or fails while the controller compares members
\* and machines.
THEOREM MembersStay == Spec => LiveMemberNotRemoved
<1> DEFINE A == \A m \in members \ members' : m \notin machines \/ m \in deleting \cap removeReq
<1>1. ASSUME IInv, [Next]_vars PROVE A
  <2>1. CASE members \subseteq members'
    BY <2>1
  <2>2. CASE ReconcileEtcdMembers
    <3>1. machines \subseteq seen.machines
      BY <1>1, <2>2 DEF ReconcileEtcdMembers, IInv, ListCovers
    <3>2. members \ members' \subseteq OrphanedMembers
      BY <2>2 DEF ReconcileEtcdMembers
    <3>3. OrphanedMembers \cap seen.machines = {}
      BY DEF OrphanedMembers, NodesKnown
    <3>4. QED
      BY <3>1, <3>2, <3>3
  <2>3. ASSUME NEW m \in Machine, Join(m) PROVE A
    BY <1>1, <2>3 DEF Join, IInv, InitializesOneMachine
  <2>4. ASSUME NEW m \in Machine, K3sRemovesMember(m) PROVE A
    BY <1>1, <2>4 DEF K3sRemovesMember, IInv, NodeFacts
  <2>5. QED
    BY <1>1, <2>1, <2>2, <2>3, <2>4, WhoRemoves
<1>2. IInv /\ [Next]_vars => [A]_vars
  BY <1>1
<1>3. QED
  BY <1>2, Invariance, PTL DEF Spec, LiveMemberNotRemoved

\* A host that the controller gives up leaves etcd before it is terminated,
\* although the controller, the machine reconciler, k3s and Cluster API act
\* independently and the hook is written twice.
THEOREM MemberLeavesFirst == Spec => MemberLeavesBeforeHost
<1> DEFINE A == \A m \in machines \ machines' :
                  m \in (members \cap noderef) \ (userDeleted \cup lateNode)
                    => machines \ deleting = {}
<1>1. ASSUME IInv, [Next]_vars PROVE A
  <2>1. ASSUME NEW m \in Machine, Terminate(m) PROVE A
    BY <1>1, <2>1 DEF Terminate, IInv, HookGuards
  <2>2. QED
    BY <1>1, <2>1, WhoRemoves
<1>2. IInv /\ [Next]_vars => [A]_vars
  BY <1>1
<1>3. QED
  BY <1>2, Invariance, PTL DEF Spec, MemberLeavesBeforeHost

-----------------------------------------------------------------------------
(* Counting machines.                                                        *)

LEMMA MachinesAreFinite ==
  ASSUME NEW S \in SUBSET Machine
  PROVE  IsFiniteSet(S) /\ Cardinality(S) \in Nat
<1>1. IsFiniteSet(Machine)
  BY ClusterAssumption, FS_Interval DEF ClusterAssumption, Machine
<1>2. IsFiniteSet(S)
  BY <1>1, FS_Subset
<1>3. QED
  BY <1>2, FS_CardinalityType

LEMMA FewerMachines ==
  ASSUME NEW S \in SUBSET Machine, NEW T \in SUBSET S
  PROVE  Cardinality(T) <= Cardinality(S)
BY MachinesAreFinite, FS_Subset

\* With more than one machine there is another than any given one.
LEMMA AnotherMachine ==
  ASSUME NEW S \in SUBSET Machine, Cardinality(S) > 1, NEW t
  PROVE  \E m \in S : m # t
<1>1. SUFFICES ASSUME \A m \in S : m = t PROVE FALSE
  OBVIOUS
<1>2. S \in SUBSET {t}
  BY <1>1
<1>3. IsFiniteSet({t}) /\ Cardinality({t}) = 1
  BY FS_Singleton
<1>4. Cardinality(S) <= 1
  BY <1>2, <1>3, FS_Subset
<1>5. Cardinality(S) \in Nat
  BY MachinesAreFinite
<1>6. QED
  BY <1>4, <1>5

\* Replicas that were read are a number, and not more than the most wanted.
LEMMA ReplicasNumber ==
  ASSUME NEW k \in Replicas
  PROVE  k \in Nat
BY ClusterAssumption DEF ClusterAssumption

-----------------------------------------------------------------------------
(* A rollout surges by one machine.                                          *)

SurgeParts == ReplicasRead /\ RoomForOne /\ SurgeBound

\* A step that makes no machine keeps the bound.
LEMMA SurgeKept ==
  ASSUME TypeOK, SurgeBound, machines' \subseteq machines
  PROVE  SurgeBound'
<1> SUFFICES ASSUME NEW r \in Replicas, \A s \in Replicas : s <= r
             PROVE  Cardinality(machines') <= r + 1
  BY DEF SurgeBound
<1>1. machines \in SUBSET Machine
  BY DEF TypeOK, ClusterTypeOK
<1>2. machines' \in SUBSET machines /\ machines' \in SUBSET Machine
  BY <1>1
<1>3. Cardinality(machines') <= Cardinality(machines)
  BY <1>1, <1>2, FewerMachines
<1>4. Cardinality(machines) \in Nat /\ Cardinality(machines') \in Nat /\ r \in Nat
  BY <1>1, <1>2, MachinesAreFinite, ReplicasNumber
<1>5. Cardinality(machines) <= r + 1
  BY DEF SurgeBound
<1>6. QED
  BY <1>3, <1>4, <1>5

LEMMA SurgeInit == Init => SurgeParts
<1> SUFFICES ASSUME Init PROVE SurgeParts
  OBVIOUS
<1>1. ReplicasRead
  BY DEF Init, ClusterInit, ControllerInit, ReplicasRead, Stored
<1>2. RoomForOne
  BY DEF Init, ControllerInit, RoomForOne
<1>3. SurgeBound
  <2> SUFFICES ASSUME NEW r \in Replicas, \A s \in Replicas : s <= r
               PROVE  Cardinality(machines) <= r + 1
    BY DEF SurgeBound
  <2>1. r \in Nat /\ InitMachines \in Nat
    BY ReplicasNumber, ClusterAssumption DEF ClusterAssumption
  <2>2. machines = 1 .. InitMachines /\ (InitMachines > 0 => InitMachines <= r)
    BY DEF Init, ClusterInit
  <2>3. Cardinality(1 .. InitMachines) = IF 1 > InitMachines THEN 0 ELSE InitMachines - 1 + 1
    BY <2>1, FS_Interval
  <2>4. Cardinality(1 .. InitMachines) <= r + 1
    BY <2>1, <2>2, <2>3
  <2>5. QED
    BY <2>2, <2>4
<1>4. QED
  BY <1>1, <1>2, <1>3 DEF SurgeParts

LEMMA EnvironmentSurgeStep ==
  ASSUME TypeOK, SurgeParts, NEW m \in Machine, UNCHANGED controllerVars,
         MachineReconcilerStep(m) \/ EnvironmentStep(m) \/ Fail(m) \/ StartupTimeout(m)
  PROVE  SurgeParts'
<1>1. machines' \subseteq machines
  BY DEF MachineReconcilerStep, RequestEtcdRemoval, RemoveHook, EnvironmentStep, Join, SetNodeRef,
     MarkUnhealthy, MarkHealthy, Terminate, K3sRemovesMember, Fail, StartupTimeout, machineVars
<1>2. SurgeBound'
  BY <1>1, SurgeKept DEF SurgeParts
<1>3. UNCHANGED <<cache, pc, kcp, seen, todo>>
  BY DEF controllerVars
<1>4. machines \in SUBSET Machine /\ machines' \in SUBSET Machine /\ machines' \in SUBSET machines
  BY <1>1 DEF TypeOK, ClusterTypeOK
<1>5. Cardinality(machines') <= Cardinality(machines)
      /\ Cardinality(machines) \in Nat /\ Cardinality(machines') \in Nat
  BY <1>4, FewerMachines, MachinesAreFinite
<1>6. ReplicasRead'
  BY <1>3 DEF SurgeParts, ReplicasRead
<1>7. RoomForOne'
  <2>1. ASSUME pc = "create", todo.op # "init" PROVE Cardinality(machines') <= kcp.replicas
    <3>1. kcp.replicas \in Nat /\ Cardinality(machines) <= kcp.replicas
      BY <2>1, ReplicasNumber DEF SurgeParts, RoomForOne, ReplicasRead
    <3>2. QED
      BY <1>5, <3>1
  <2>2. QED
    BY <1>1, <1>3, <2>1 DEF SurgeParts, RoomForOne
<1>8. QED
  BY <1>2, <1>6, <1>7 DEF SurgeParts

LEMMA UserSurgeStep ==
  ASSUME TypeOK, SurgeParts, UserStep, UNCHANGED controllerVars
  PROVE  SurgeParts'
<1>1. machines' = machines
  BY DEF UserStep, Upgrade, ScaleTo, AnnotateForDeletion, UserDeletes, machineVars
<1>2. UNCHANGED <<cache, pc, kcp, seen, todo>>
  BY DEF controllerVars
<1>3. QED
  BY <1>1, <1>2 DEF SurgeParts, ReplicasRead, RoomForOne, SurgeBound

\* Only CreateMachine makes machines, one at a time.
LEMMA CreateSurgeStep ==
  ASSUME TypeOK, SurgeParts, CreateMachine
  PROVE  SurgeParts'
<1>1. pc = "create" /\ pc' = "patch" /\ UNCHANGED <<cache, kcp, todo>>
  BY DEF CreateMachine
<1>2. ReplicasRead' /\ RoomForOne'
  BY <1>1 DEF SurgeParts, ReplicasRead, RoomForOne
<1>3. machines \in SUBSET Machine
  BY DEF TypeOK, ClusterTypeOK
<1>4. CASE machines' = machines
  BY <1>2, <1>4 DEF SurgeParts, SurgeBound
<1>5. CASE machines' = machines \cup {lastId'} /\ (todo.op = "init" => machines = {})
  <2> SUFFICES ASSUME NEW r \in Replicas, \A s \in Replicas : s <= r
               PROVE  Cardinality(machines') <= r + 1
    BY <1>2 DEF SurgeParts, SurgeBound
  <2>1. Cardinality(machines) \in Nat /\ r \in Nat
    BY <1>3, MachinesAreFinite, ReplicasNumber
  <2>2. Cardinality(machines) <= r
    <3>1. CASE todo.op = "init"
      <4>1. Cardinality(machines) = 0
        BY <1>5, <3>1, FS_EmptySet
      <4>2. QED
        BY <2>1, <4>1
    <3>2. CASE todo.op # "init"
      <4>1. Cardinality(machines) <= kcp.replicas /\ kcp.replicas \in Replicas
        BY <1>1, <3>2 DEF SurgeParts, RoomForOne, ReplicasRead
      <4>2. kcp.replicas <= r /\ kcp.replicas \in Nat
        BY <4>1, ReplicasNumber
      <4>3. QED
        BY <2>1, <4>1, <4>2
    <3>3. QED
      BY <3>1, <3>2
  <2>3. Cardinality(machines') <= Cardinality(machines) + 1 /\ Cardinality(machines') \in Nat
    <3>1. IsFiniteSet(machines)
      BY <1>3, MachinesAreFinite
    <3>2. Cardinality(machines') =
            IF lastId' \in machines THEN Cardinality(machines) ELSE Cardinality(machines) + 1
      BY <1>5, <3>1, FS_AddElement
    <3>3. QED
      BY <2>1, <3>2
  <2>4. QED
    BY <2>1, <2>2, <2>3
<1>6. QED
  BY <1>4, <1>5 DEF CreateMachine

\* A machine is added only to those that were counted and not too many.
LEMMA ScaleUpSurgeStep ==
  ASSUME TypeOK, SurgeParts, ScaleUpControlPlane
  PROVE  SurgeParts'
<1>1. /\ pc = "decide" /\ pc' = "create" /\ machines' = machines /\ cache' = cache /\ kcp' = kcp
  BY DEF ScaleUpControlPlane, Begin, clusterVars, machineVars
<1>2. seen.machines \in SUBSET Machine /\ machines \in SUBSET seen.machines
  BY <1>1 DEF TypeOK, ControllerTypeOK, Seen, SurgeParts, RoomForOne
<1>3. kcp.replicas \in Nat
  BY <1>1, ReplicasNumber DEF SurgeParts, ReplicasRead
<1>4. Cardinality(seen.machines) \in Nat /\ Cardinality(machines) \in Nat
      /\ Cardinality(machines) <= Cardinality(seen.machines)
  BY <1>2, MachinesAreFinite, FewerMachines
<1>5. Cardinality(seen.machines) <= kcp.replicas
  BY <1>3, <1>4 DEF ScaleUpControlPlane, WantsScaleUp
<1>6. Cardinality(machines) <= kcp.replicas
  BY <1>3, <1>4, <1>5
<1>7. QED
  BY <1>1, <1>6 DEF SurgeParts, ReplicasRead, RoomForOne, SurgeBound

LEMMA ControllerSurgeStep ==
  ASSUME TypeOK, SurgeParts, ControllerNext
  PROVE  SurgeParts'
<1>1. Stored.replicas \in Replicas
  BY DEF Stored, TypeOK, ClusterTypeOK
<1> USE DEF SurgeParts, ReplicasRead, RoomForOne, SurgeBound, clusterVars, machineVars, Goto
<1>2. CASE Start
  BY <1>1, <1>2 DEF Start
<1>3. CASE DeliverKCP
  BY <1>1, <1>3 DEF DeliverKCP
<1>4. CASE ListMachines
  BY <1>4 DEF ListMachines
<1>5. CASE UpdateConditions
  <2>1. seen'.machines = seen.machines
    BY <1>5 DEF UpdateConditions, TypeOK, ControllerTypeOK, Seen
  <2>2. QED
    BY <1>5, <2>1 DEF UpdateConditions
<1>6. CASE ReconcileEtcdMembers
  BY <1>6 DEF ReconcileEtcdMembers
<1>7. CASE RemediateInitialized \/ RemediateUninitialized \/ RemediationFails \/ ScaleDownControlPlane
           \/ Wait
  BY <1>7 DEF RemediateInitialized, RemediateUninitialized, RemediationFails, ScaleDownControlPlane,
     Wait, Begin
<1>8. CASE InitializeControlPlane
  BY <1>8 DEF InitializeControlPlane, Begin
<1>9. CASE ForwardEtcdLeadership
  BY <1>9 DEF ForwardEtcdLeadership
<1>10. CASE AddPreTerminateHook
  BY <1>10 DEF AddPreTerminateHook
<1>11. CASE DeleteMachine
  BY <1>11 DEF DeleteMachine
<1>12. CASE PatchRemediatedMachine
  BY <1>12 DEF PatchRemediatedMachine
<1>13. CASE PatchKThreesControlPlane
  BY <1>13 DEF PatchKThreesControlPlane, Forget
<1>14. CASE CallFails
  BY <1>14 DEF CallFails
<1>15. CASE Restart
  BY <1>15 DEF Restart, Forget
<1>16. QED
  BY <1>2, <1>3, <1>4, <1>5, <1>6, <1>7, <1>8, <1>9, <1>10, <1>11, <1>12, <1>13, <1>14, <1>15,
     CreateSurgeStep, ScaleUpSurgeStep DEF ControllerNext, ReconcileStep

LEMMA SurgeInvariance == Spec => []SurgeInv
<1>1. Init => SurgeInv
  BY TypeInit, SurgeInit DEF SurgeInv, SurgeParts
<1>2. ASSUME SurgeInv, [Next]_vars PROVE SurgeInv'
  <2>1. TypeOK'
    BY <1>2, TypeStep DEF SurgeInv
  <2>2. TypeOK /\ SurgeParts
    BY <1>2 DEF SurgeInv, SurgeParts
  <2>3. ASSUME UNCHANGED vars PROVE SurgeParts'
    BY <2>2, <2>3 DEF SurgeParts, ReplicasRead, RoomForOne, SurgeBound, vars, clusterVars,
       machineVars, controllerVars
  <2>4. SurgeParts'
    BY <1>2, <2>2, <2>3, EnvironmentSurgeStep, UserSurgeStep, ControllerSurgeStep DEF Next
  <2>5. QED
    BY <2>1, <2>4 DEF SurgeInv, SurgeParts
<1>3. SurgeInv /\ [Next]_vars => SurgeInv'
  BY <1>2
<1>4. QED
  BY <1>1, <1>3, PTL DEF Spec

\* A rollout (upgradeControlPlane, scaleUpControlPlane) surges by at most one
\* machine over the most replicas ever wanted, for any number of machines, any
\* lag of the cached KThreesControlPlane and any failing calls and restarts.
THEOREM SurgesByOne == Spec => []SurgeBound
<1>1. SurgeInv => SurgeBound
  BY DEF SurgeInv
<1>2. QED
  BY <1>1, SurgeInvariance, PTL

-----------------------------------------------------------------------------
(* The last machine stays.                                                   *)

LastParts == ReplicasRead /\ AnotherStays

\* An operation that deletes a machine begins only when there is another, and
\* no machine of the control plane is on its way out.
LEMMA AnotherAtBegin ==
  ASSUME TypeOK, AnotherStays, pc = "decide", userDeleted = {}, seen.deleting = {},
         Cardinality(seen.machines) > 1
  PROVE  deleting = {} /\ \A t : \E m \in machines : m # t
<1>1. deleting = {} /\ seen.machines \subseteq machines
  BY DEF AnotherStays
<1>2. seen.machines \in SUBSET Machine
  BY DEF TypeOK, ControllerTypeOK, Seen
<1>3. QED
  BY <1>1, <1>2, AnotherMachine

LEMMA RemediateLastStep ==
  ASSUME TypeOK, LastParts, RemediateInitialized
  PROVE  LastParts'
<1>1. /\ pc = "decide" /\ pc' = "forward" /\ UNCHANGED <<cache, kcp>>
      /\ UNCHANGED <<machines, deleting, userDeleted>>
  BY DEF RemediateInitialized, Begin, clusterVars, machineVars, envVars
<1>2. seen.deleting = {} /\ Cardinality(seen.machines) > 1
  BY DEF RemediateInitialized, RemediationDue
<1>3. userDeleted = {} => deleting = {} /\ \E m \in machines : m # todo'.target
  BY <1>1, <1>2, AnotherAtBegin DEF LastParts
<1>4. QED
  BY <1>1, <1>3 DEF LastParts, ReplicasRead, AnotherStays

LEMMA ScaleDownLastStep ==
  ASSUME 0 \notin Replicas, TypeOK, LastParts, ScaleDownControlPlane
  PROVE  LastParts'
<1>1. /\ pc = "decide" /\ pc' = "forward" /\ UNCHANGED <<cache, kcp>>
      /\ UNCHANGED <<machines, deleting, userDeleted>>
  BY DEF ScaleDownControlPlane, Begin, clusterVars, machineVars, envVars
<1>2. kcp.replicas \in Nat /\ kcp.replicas # 0
  BY <1>1, ReplicasNumber DEF LastParts, ReplicasRead
<1>3. seen.machines \in SUBSET Machine
  BY DEF TypeOK, ControllerTypeOK, Seen
<1>4. Cardinality(seen.machines) \in Nat
  BY <1>3, MachinesAreFinite
<1>5. Cardinality(seen.machines) > 1
  BY <1>2, <1>4 DEF ScaleDownControlPlane, WantsScaleDown
<1>6. seen.machines # {}
  BY <1>4, <1>5, FS_EmptySet
<1>7. seen.deleting = {}
  BY <1>6 DEF ScaleDownControlPlane, PreflightChecks
<1>8. userDeleted = {} => deleting = {} /\ \E m \in machines : m # todo'.target
  BY <1>1, <1>5, <1>7, AnotherAtBegin DEF LastParts
<1>9. QED
  BY <1>1, <1>8 DEF LastParts, ReplicasRead, AnotherStays

LEMMA EnvironmentLastStep ==
  ASSUME TypeOK, LastParts, NEW m \in Machine, UNCHANGED controllerVars,
         MachineReconcilerStep(m) \/ EnvironmentStep(m) \/ Fail(m) \/ StartupTimeout(m)
  PROVE  LastParts'
<1>1. UNCHANGED <<cache, pc, kcp, seen, todo>>
  BY DEF controllerVars
<1>2. CASE Terminate(m)
  BY <1>1, <1>2 DEF Terminate, envVars, LastParts, ReplicasRead, AnotherStays
<1>3. CASE UNCHANGED <<machines, deleting, userDeleted>>
  BY <1>1, <1>3 DEF LastParts, ReplicasRead, AnotherStays
<1>4. UNCHANGED <<machines, deleting, userDeleted>> \/ Terminate(m)
  BY DEF MachineReconcilerStep, RequestEtcdRemoval, RemoveHook, EnvironmentStep, Join, SetNodeRef,
     MarkUnhealthy, MarkHealthy, K3sRemovesMember, Fail, StartupTimeout, machineVars, envVars
<1>5. QED
  BY <1>2, <1>3, <1>4

LEMMA UserLastStep ==
  ASSUME TypeOK, LastParts, UserStep, UNCHANGED controllerVars
  PROVE  LastParts'
<1>1. UNCHANGED <<cache, pc, kcp, seen, todo>>
  BY DEF controllerVars
<1>2. ASSUME NEW m \in Machine, UserDeletes(m) PROVE LastParts'
  <2>1. userDeleted' # {}
    BY <1>2 DEF UserDeletes
  <2>2. QED
    BY <1>1, <2>1 DEF LastParts, ReplicasRead, AnotherStays
<1>3. CASE UNCHANGED <<machines, deleting, userDeleted>>
  BY <1>1, <1>3 DEF LastParts, ReplicasRead, AnotherStays
<1>4. UNCHANGED <<machines, deleting, userDeleted>> \/ \E m \in Machine : UserDeletes(m)
  BY DEF UserStep, Upgrade, ScaleTo, AnnotateForDeletion, machineVars, envVars
<1>5. QED
  BY <1>2, <1>3, <1>4

LEMMA ControllerLastStep ==
  ASSUME 0 \notin Replicas, TypeOK, LastParts, ControllerNext
  PROVE  LastParts'
<1>1. Stored.replicas \in Replicas
  BY DEF Stored, TypeOK, ClusterTypeOK
<1> USE DEF LastParts, ReplicasRead, AnotherStays, clusterVars, machineVars, envVars, Goto
<1>2. CASE Start
  BY <1>1, <1>2 DEF Start
<1>3. CASE DeliverKCP
  BY <1>1, <1>3 DEF DeliverKCP
<1>4. CASE ListMachines
  BY <1>4 DEF ListMachines
<1>5. CASE UpdateConditions
  <2>1. seen'.machines = seen.machines /\ seen'.deleting = seen.deleting
    BY <1>5 DEF UpdateConditions, TypeOK, ControllerTypeOK, Seen
  <2>2. QED
    BY <1>5, <2>1 DEF UpdateConditions
<1>6. CASE ReconcileEtcdMembers
  BY <1>6 DEF ReconcileEtcdMembers
<1>7. CASE RemediateUninitialized
  BY <1>7 DEF RemediateUninitialized, Begin
<1>8. CASE RemediationFails \/ InitializeControlPlane \/ ScaleUpControlPlane \/ Wait
  BY <1>8 DEF RemediationFails, InitializeControlPlane, ScaleUpControlPlane, Wait, Begin
<1>9. CASE ForwardEtcdLeadership
  BY <1>9 DEF ForwardEtcdLeadership
<1>10. CASE AddPreTerminateHook
  BY <1>10 DEF AddPreTerminateHook
<1>11. CASE DeleteMachine
  BY <1>11 DEF DeleteMachine
<1>12. CASE PatchRemediatedMachine
  BY <1>12 DEF PatchRemediatedMachine
<1>13. CASE CreateMachine
  BY <1>13 DEF CreateMachine
<1>14. CASE PatchKThreesControlPlane
  BY <1>14 DEF PatchKThreesControlPlane, Forget
<1>15. CASE CallFails
  BY <1>15 DEF CallFails
<1>16. CASE Restart
  BY <1>16 DEF Restart, Forget
<1>17. QED
  BY <1>2, <1>3, <1>4, <1>5, <1>6, <1>7, <1>8, <1>9, <1>10, <1>11, <1>12, <1>13, <1>14, <1>15,
     <1>16, RemediateLastStep, ScaleDownLastStep DEF ControllerNext, ReconcileStep

LEMMA LastInvariance ==
  ASSUME 0 \notin Replicas
  PROVE  Spec => []LastInv
<1>1. Init => LastInv
  <2>1. Init => AnotherStays
    BY DEF Init, ControllerInit, AnotherStays
  <2>2. QED
    BY <2>1, TypeInit, SurgeInit DEF LastInv, SurgeParts
<1>2. ASSUME LastInv, [Next]_vars PROVE LastInv'
  <2>1. TypeOK'
    BY <1>2, TypeStep DEF LastInv
  <2>2. TypeOK /\ LastParts
    BY <1>2 DEF LastInv, LastParts
  <2>3. ASSUME UNCHANGED vars PROVE LastParts'
    BY <2>2, <2>3 DEF LastParts, ReplicasRead, AnotherStays, vars, clusterVars, machineVars, envVars,
       controllerVars
  <2>4. LastParts'
    BY <1>2, <2>2, <2>3, EnvironmentLastStep, UserLastStep, ControllerLastStep DEF Next
  <2>5. QED
    BY <2>1, <2>4 DEF LastInv, LastParts
<1>3. LastInv /\ [Next]_vars => LastInv'
  BY <1>2
<1>4. QED
  BY <1>1, <1>3, PTL DEF Spec

\* Which steps change what is being deleted, and that a user's request stays known.
LEMMA WhoDeletes ==
  ASSUME [Next]_vars
  PROVE  /\ deleting' = deleting \/ DeleteMachine
             \/ \E m \in Machine : Terminate(m) \/ UserDeletes(m)
         /\ userDeleted \subseteq userDeleted'
<1> USE DEF clusterVars, machineVars, kcpVars, workloadVars, envVars
<1>1. CASE ControllerNext
  BY <1>1 DEF ControllerNext, ReconcileStep, Start, DeliverKCP, ListMachines, UpdateConditions,
     ReconcileEtcdMembers, RemediateInitialized, RemediateUninitialized, RemediationFails,
     InitializeControlPlane, ScaleUpControlPlane, ScaleDownControlPlane, Wait, Begin,
     ForwardEtcdLeadership, AddPreTerminateHook, DeleteMachine, PatchRemediatedMachine,
     CreateMachine, PatchKThreesControlPlane, CallFails, Restart
<1>2. CASE UserStep
  BY <1>2 DEF UserStep, Upgrade, ScaleTo, AnnotateForDeletion, UserDeletes
<1>3. ASSUME NEW m \in Machine,
             MachineReconcilerStep(m) \/ EnvironmentStep(m) \/ Fail(m) \/ StartupTimeout(m)
      PROVE  (deleting' = deleting \/ Terminate(m)) /\ userDeleted' = userDeleted
  BY <1>3 DEF MachineReconcilerStep, RequestEtcdRemoval, RemoveHook, EnvironmentStep, Join,
     SetNodeRef, MarkUnhealthy, MarkHealthy, Terminate, K3sRemovesMember, Fail, StartupTimeout
<1>4. CASE UNCHANGED vars
  BY <1>4 DEF vars
<1>5. QED
  BY <1>1, <1>2, <1>3, <1>4 DEF Next

\* As long as users delete no machine and want at least one, neither a scale down
\* nor a remediation (scale.go, remediation.go) deletes the last machine that is
\* not being deleted, however the machines, and the cached KThreesControlPlane,
\* have changed since they were read.
THEOREM LastMachineStays ==
  ASSUME 0 \notin Replicas
  PROVE  Spec => NeverTheLastMachine
<1> DEFINE A == kcp.initialized /\ userDeleted' = {} /\ deleting' # deleting
                  => machines \ deleting' # {}
<1>1. ASSUME LastInv, [Next]_vars PROVE A
  <2> SUFFICES ASSUME kcp.initialized, userDeleted' = {}, deleting' # deleting
               PROVE  machines \ deleting' # {}
    OBVIOUS
  <2>1. userDeleted = {}
    BY <1>1, WhoDeletes
  <2>2. CASE DeleteMachine
    BY <1>1, <2>1, <2>2 DEF DeleteMachine, LastInv, AnotherStays
  <2>3. ASSUME NEW m \in Machine, Terminate(m) PROVE machines \ deleting' # {}
    BY <1>1, <2>3 DEF Terminate, LastInv, TypeOK, ClusterTypeOK
  <2>4. ASSUME NEW m \in Machine, UserDeletes(m) PROVE FALSE
    BY <2>4 DEF UserDeletes
  <2>5. QED
    BY <1>1, <2>2, <2>3, <2>4, WhoDeletes
<1>2. LastInv /\ [Next]_vars => [A]_vars
  BY <1>1
<1>3. QED
  BY <1>2, LastInvariance, PTL DEF Spec, NeverTheLastMachine

-----------------------------------------------------------------------------
(* The order of machines, while users only scale and upgrade.                *)

OrderParts == InOrder /\ ListInOrder

\* Machines.Oldest() is not newer than any other.
LEMMA OldestLeast ==
  ASSUME NEW S \in SUBSET Machine, NEW n \in S
  PROVE  Oldest(S) \in S /\ Oldest(S) <= n
<1>1. S \in SUBSET Nat /\ S # {}
  BY DEF Machine
<1>2. \E m \in S : \A k \in S : m <= k
  BY <1>1, LeastExists
<1>3. Oldest(S) \in S /\ \A k \in S : Oldest(S) <= k
  BY <1>2, Zenon DEF Oldest
<1>4. QED
  BY <1>3

\* Machines.Newest() is not older than any other.
LEMMA NewestGreatest ==
  ASSUME NEW S \in SUBSET Machine, NEW n \in S
  PROVE  Newest(S) \in S /\ n <= Newest(S)
<1> DEFINE T == {k \in Nat : \E s \in S : k = MaxMachines - s}
<1>1. MaxMachines \in Nat /\ \A s \in S : s \in Nat /\ s <= MaxMachines
  BY ClusterAssumption DEF ClusterAssumption, Machine
<1>2. T \in SUBSET Nat /\ T # {}
  <2>1. MaxMachines - n \in T
    BY <1>1
  <2>2. QED
    BY <2>1
<1>3. PICK k \in T : \A j \in T : k <= j
  BY <1>2, LeastExists
<1>4. PICK x \in S : k = MaxMachines - x
  OBVIOUS
<1>5. \A s \in S : s <= x
  <2> TAKE s \in S
  <2>1. MaxMachines - s \in T
    BY <1>1
  <2>2. MaxMachines - x <= MaxMachines - s
    BY <1>3, <1>4, <2>1
  <2>3. QED
    BY <1>1, <2>2
<1>6. Newest(S) \in S /\ \A s \in S : s <= Newest(S)
  BY <1>5, Zenon DEF Newest
<1>7. QED
  BY <1>6

LEMMA OrderInit == Init => OrderParts
<1> SUFFICES ASSUME Init PROVE OrderParts
  OBVIOUS
<1>1. \A m \in 1 .. InitMachines : m <= InitMachines
  BY ClusterAssumption DEF ClusterAssumption
<1>2. QED
  BY <1>1 DEF OrderParts, InOrder, ListInOrder, Init, ClusterInit, ControllerInit

LEMMA EnvironmentOrderStep ==
  ASSUME IInv, OrderParts, NEW m \in Machine, UNCHANGED controllerVars,
         MachineReconcilerStep(m) \/ EnvironmentStep(m) \/ Fail(m) \/ StartupTimeout(m)
  PROVE  OrderParts'
<1> USE DEF IInv, TypeOK, ClusterTypeOK, OrderParts, InOrder, ListInOrder,
        machineVars, kcpVars, workloadVars, envVars, controllerVars
<1>1. CASE Join(m)
  BY <1>1 DEF Join
<1>2. CASE SetNodeRef(m)
  BY <1>2 DEF SetNodeRef
<1>3. CASE MarkUnhealthy(m)
  BY <1>3 DEF MarkUnhealthy
<1>4. CASE MarkHealthy(m)
  BY <1>4 DEF MarkHealthy
<1>5. CASE Terminate(m)
  BY <1>5 DEF Terminate
<1>6. CASE K3sRemovesMember(m)
  BY <1>6 DEF K3sRemovesMember
<1>7. CASE RequestEtcdRemoval(m)
  BY <1>7 DEF RequestEtcdRemoval
<1>8. CASE RemoveHook(m)
  BY <1>8 DEF RemoveHook
<1>9. CASE Fail(m)
  BY <1>9 DEF Fail
<1>10. CASE StartupTimeout(m)
  BY <1>10 DEF StartupTimeout
<1>11. QED
  BY <1>1, <1>2, <1>3, <1>4, <1>5, <1>6, <1>7, <1>8, <1>9, <1>10
     DEF MachineReconcilerStep, EnvironmentStep

\* Users who only scale and upgrade neither delete machines nor choose them.
LEMMA OnlyScalesAndUpgrades ==
  ASSUME UserRequests \subseteq {"scale", "upgrade"}, UserStep
  PROVE  Upgrade \/ \E r \in Replicas : ScaleTo(r)
BY DEF UserStep, AnnotateForDeletion, UserDeletes, UserOp

LEMMA UserOrderStep ==
  ASSUME UserRequests \subseteq {"scale", "upgrade"},
         IInv, OrderParts, UserStep, UNCHANGED controllerVars
  PROVE  OrderParts'
<1> USE DEF OrderParts, InOrder, ListInOrder, machineVars, workloadVars, controllerVars
<1>1. CASE Upgrade
  BY <1>1 DEF Upgrade
<1>2. ASSUME NEW r \in Replicas, ScaleTo(r) PROVE OrderParts'
  BY <1>2 DEF ScaleTo
<1>3. QED
  BY <1>1, <1>2, OnlyScalesAndUpgrades

\* A machine is added only when all others were found healthy.
LEMMA ScaleUpOrderStep ==
  ASSUME IInv, OrderParts, ScaleUpControlPlane
  PROVE  OrderParts'
<1>1. pc = "decide" /\ pc' = "create" /\ UNCHANGED <<machineVars, nodes, envVars>>
  BY DEF ScaleUpControlPlane, Begin, clusterVars, workloadVars
<1>2. seen.machines \subseteq seen.healthy
  BY DEF ScaleUpControlPlane, PreflightChecks
<1>3. machines \subseteq noderef
  BY <1>1, <1>2 DEF OrderParts, ListInOrder, IInv, ListCovers
<1>4. QED
  BY <1>1, <1>3 DEF OrderParts, InOrder, ListInOrder, machineVars, envVars

\* The new machine is the newest.
LEMMA CreateOrderStep ==
  ASSUME IInv, OrderParts, CreateMachine
  PROVE  OrderParts'
<1>1. pc = "create" /\ pc' = "patch"
      /\ UNCHANGED <<noderef, outdated, deleteAnn, userDeleted, nodes>>
  BY DEF CreateMachine, workloadVars, envVars
<1>2. CASE UNCHANGED <<machines, lastId>>
  BY <1>1, <1>2 DEF OrderParts, InOrder, ListInOrder
<1>3. CASE /\ lastId' = lastId + 1
           /\ machines' = machines \cup {lastId'}
           /\ todo.op = "init" => machines = {}
  <2>1. lastId \in Nat /\ machines \subseteq Nat /\ outdated \subseteq machines
    BY DEF IInv, TypeOK, ClusterTypeOK, Machine, None
  <2>2. machines \subseteq noderef /\ \A m \in machines : m < lastId'
    BY <1>1, <1>3, <2>1 DEF OrderParts, InOrder
  <2>3. \A m \in outdated, n \in machines' : n < m => n \in outdated
    <3>1. SUFFICES ASSUME NEW m \in outdated, NEW n \in machines', n < m PROVE n \in outdated
      OBVIOUS
    <3>2. n \in machines
      BY <1>3, <2>1, <2>2, <3>1
    <3>3. QED
      BY <3>1, <3>2 DEF OrderParts, InOrder
  <2>4. \A m \in machines' : m <= lastId' /\ (m = lastId' \/ m \in noderef)
    BY <1>3, <2>1, <2>2
  <2>5. QED
    BY <1>1, <1>3, <2>3, <2>4 DEF OrderParts, InOrder, ListInOrder
<1>4. QED
  BY <1>2, <1>3 DEF CreateMachine

LEMMA ControllerOrderStep ==
  ASSUME IInv, OrderParts, ControllerNext
  PROVE  OrderParts'
<1> USE DEF OrderParts, InOrder, ListInOrder, clusterVars, machineVars, workloadVars, envVars, Goto
<1>2. CASE Start
  BY <1>2 DEF Start
<1>3. CASE DeliverKCP
  BY <1>3 DEF DeliverKCP
<1>4. CASE ListMachines
  BY <1>4 DEF ListMachines
<1>5. CASE UpdateConditions
  <2>1. /\ seen'.machines = seen.machines /\ seen'.deleting = seen.deleting
        /\ seen'.noderef = seen.noderef /\ seen'.outdated = seen.outdated
        /\ seen'.annotated = seen.annotated
        /\ seen'.healthy = HealthyMachines
    BY <1>5 DEF UpdateConditions, IInv, TypeOK, ControllerTypeOK, Seen
  <2>2. HealthyMachines \subseteq seen.noderef
    BY DEF HealthyMachines, AgentHealthy
  <2>3. QED
    BY <1>5, <2>1, <2>2 DEF UpdateConditions
<1>6. CASE ReconcileEtcdMembers
  BY <1>6 DEF ReconcileEtcdMembers
<1>7. CASE RemediateInitialized \/ RemediateUninitialized \/ RemediationFails
             \/ ScaleDownControlPlane \/ Wait
  BY <1>7 DEF RemediateInitialized, RemediateUninitialized, RemediationFails,
     ScaleDownControlPlane, Wait, Begin
<1>8. CASE InitializeControlPlane
  BY <1>8 DEF InitializeControlPlane, Begin
<1>9. CASE ForwardEtcdLeadership
  BY <1>9 DEF ForwardEtcdLeadership
<1>10. CASE AddPreTerminateHook
  BY <1>10 DEF AddPreTerminateHook
<1>11. CASE DeleteMachine
  BY <1>11 DEF DeleteMachine
<1>12. CASE PatchRemediatedMachine
  BY <1>12 DEF PatchRemediatedMachine
<1>13. CASE PatchKThreesControlPlane
  BY <1>13 DEF PatchKThreesControlPlane, Forget
<1>14. CASE CallFails
  BY <1>14 DEF CallFails
<1>15. CASE Restart
  BY <1>15 DEF Restart, Forget
<1>16. QED
  BY <1>2, <1>3, <1>4, <1>5, <1>6, <1>7, <1>8, <1>9, <1>10, <1>11, <1>12, <1>13, <1>14, <1>15,
     CreateOrderStep, ScaleUpOrderStep DEF ControllerNext, ReconcileStep

\* The replicas that are read stay ones that were asked for.
LEMMA ReplicasReadStep ==
  ASSUME TypeOK, ReplicasRead, [Next]_vars
  PROVE  ReplicasRead'
<1>1. Stored.replicas \in Replicas
  BY DEF Stored, TypeOK, ClusterTypeOK
<1>2. CASE UNCHANGED controllerVars
  BY <1>2 DEF ReplicasRead, controllerVars
<1>3. CASE ControllerNext
  BY <1>1, <1>3 DEF ReplicasRead, ControllerNext, ReconcileStep, Start, DeliverKCP, ListMachines,
     UpdateConditions, ReconcileEtcdMembers, RemediateInitialized, RemediateUninitialized,
     RemediationFails, InitializeControlPlane, ScaleUpControlPlane, ScaleDownControlPlane, Wait,
     Begin, ForwardEtcdLeadership, AddPreTerminateHook, DeleteMachine, PatchRemediatedMachine,
     CreateMachine, PatchKThreesControlPlane, CallFails, Restart, Forget, Goto
<1>4. QED
  BY <1>2, <1>3 DEF Next, vars

LEMMA OrderInvInit == Init => OrderInv
BY InvInit, OrderInit, SurgeInit DEF OrderInv, OrderParts, SurgeParts

LEMMA OrderStep ==
  ASSUME UserRequests \subseteq {"scale", "upgrade"}, OrderInv, [Next]_vars
  PROVE  OrderInv'
<1>1. IInv /\ OrderParts /\ TypeOK
  BY DEF OrderInv, OrderParts, IInv
<1>2. IInv'
  BY <1>1, InvStep
<1>3. ReplicasRead'
  BY <1>1, ReplicasReadStep DEF OrderInv
<1>4. ASSUME UNCHANGED vars PROVE OrderParts'
  BY <1>1, <1>4 DEF OrderParts, InOrder, ListInOrder, vars, clusterVars, machineVars,
     workloadVars, envVars, controllerVars
<1>5. OrderParts'
  BY <1>1, <1>4, EnvironmentOrderStep, UserOrderStep, ControllerOrderStep DEF Next
<1>6. QED
  BY <1>2, <1>3, <1>5 DEF OrderInv, OrderParts

-----------------------------------------------------------------------------
(* The leader moves before its machine is deleted.                           *)

\* With users only scaling and upgrading, selectMachineForScaleDown picks the
\* oldest machine, which has a node, and the newest machine is another one.
LEMMA ScaleDownTakesOldest ==
  ASSUME 0 \notin Replicas, OrderInv, ScaleDownControlPlane,
         NEW t, t = SelectMachineForScaleDown
  PROVE  /\ t \in seen.machines \cap seen.noderef
         /\ seen.deleting = {} /\ deleting = {} /\ kcp.initialized
         /\ seen.machines \ {t} \subseteq seen.healthy
         /\ Newest(seen.machines) # t
<1>1. /\ pc = "decide" /\ seen \in Seen /\ seen.outdated \subseteq seen.machines
      /\ seen.healthy # {} => kcp.initialized
      /\ lastId \in {None} \cup Machine
  BY DEF ScaleDownControlPlane, OrderInv, IInv, ListCovers, TypeOK, ControllerTypeOK, ClusterTypeOK
<1>2. /\ seen.annotated = {} /\ deleting \subseteq seen.deleting
      /\ \A m \in seen.machines : m <= lastId /\ (m = lastId \/ m \in seen.noderef)
      /\ \A m \in seen.outdated, n \in seen.machines : n < m => n \in seen.outdated
  BY <1>1 DEF OrderInv, ListInOrder
<1>3. seen.machines \in SUBSET Machine /\ seen.outdated \in SUBSET Machine
      /\ \A m \in seen.machines : m \in Nat
  BY <1>1 DEF Seen, Machine
<1>4. Cardinality(seen.machines) > 1
  <2>1. kcp.replicas \in Nat /\ kcp.replicas # 0
    BY <1>1, ReplicasNumber DEF OrderInv, ReplicasRead
  <2>2. Cardinality(seen.machines) \in Nat
    BY <1>3, MachinesAreFinite
  <2>3. QED
    BY <2>1, <2>2 DEF ScaleDownControlPlane, WantsScaleDown
<1>5. seen.machines # {} /\ seen.deleting = {} /\ seen.machines \ {t} \subseteq seen.healthy
  <2>1. seen.machines # {}
    BY <1>3, <1>4, AnotherMachine
  <2>2. QED
    BY <2>1 DEF ScaleDownControlPlane, PreflightChecks
<1>6. t \in seen.machines /\ \A n \in seen.machines : t <= n
  <2>1. t = Oldest(IF seen.outdated # {} THEN seen.outdated ELSE seen.machines)
    BY <1>2, <1>5 DEF SelectMachineForScaleDown, MachinesNeedingRollout
  <2>2. CASE seen.outdated # {}
    <3>1. t \in seen.outdated /\ \A n \in seen.outdated : t <= n
      BY <1>3, <2>1, <2>2, OldestLeast
    <3>2. t \in seen.machines /\ t \in Nat
      BY <1>1, <1>3, <3>1
    <3>3. ASSUME NEW n \in seen.machines PROVE t <= n
      BY <1>2, <1>3, <3>1, <3>2
    <3>4. QED
      BY <3>2, <3>3
  <2>3. CASE seen.outdated = {}
    <3>1. t = Oldest(seen.machines)
      BY <2>1, <2>3
    <3>2. QED
      BY <1>3, <1>5, <3>1, OldestLeast
  <2>4. QED
    BY <2>2, <2>3
<1>7. PICK n \in seen.machines : n # t
  BY <1>3, <1>4, AnotherMachine
<1>8. t < n /\ n <= lastId /\ n <= Newest(seen.machines) /\ Newest(seen.machines) \in seen.machines
      /\ lastId \in Nat
  <2>1. n <= Newest(seen.machines) /\ Newest(seen.machines) \in seen.machines
    BY <1>3, NewestGreatest
  <2>2. lastId \in Nat
    BY <1>1 DEF None, Machine
  <2>3. t \in Nat /\ n \in Nat /\ t <= n /\ n # t
    BY <1>3, <1>6, <1>7
  <2>4. QED
    BY <1>2, <2>1, <2>2, <2>3
<1>9. t \in Nat /\ n \in Nat /\ Newest(seen.machines) \in Nat
  BY <1>3, <1>6, <1>8
<1>10. t \in seen.noderef /\ Newest(seen.machines) # t
  BY <1>2, <1>6, <1>8, <1>9
<1>11. kcp.initialized
  BY <1>1, <1>5, <1>7
<1>12. QED
  BY <1>2, <1>5, <1>6, <1>10, <1>11

LeaderParts == LeaderKnown /\ LeaderMoved

LEMMA LeaderInit == Init => LeaderParts
<1> SUFFICES ASSUME Init PROVE LeaderParts
  OBVIOUS
<1>1. leader # None => leader \in members \cap running
  BY DEF Init, ClusterInit
<1>2. Reachable => leader # None
  <2>1. CASE InitMachines = 0
    <3>1. members = {} /\ running = {}
      BY <2>1 DEF Init, ClusterInit
    <3>2. Cardinality(members) = 0 /\ Cardinality(members \cap running) = 0
      BY <3>1, FS_EmptySet
    <3>3. QED
      BY <3>2 DEF Reachable, HasQuorum
  <2>2. CASE InitMachines # 0
    BY <2>2 DEF Init, ClusterInit, None
  <2>3. QED
    BY <2>1, <2>2
<1>3. QED
  BY <1>1, <1>2 DEF LeaderParts, LeaderKnown, LeaderMoved, Init, ClusterInit, ControllerInit

\* After an election there is a leader if and only if there can be one, and a
\* leader that can stay does.
LEMMA Elected ==
  ASSUME NEW mem \in SUBSET Machine, NEW up, Elect(mem, up)
  PROVE  /\ leader' # None => leader' \in mem \cap up
         /\ HasQuorum(mem, up) => leader' # None
         /\ leader \in mem \cap up => leader' \in {None, leader}
BY DEF Elect, Machine, None

LEMMA EnvironmentLeaderStep ==
  ASSUME OrderInv, OrderInv', LeaderParts, NEW m \in Machine, UNCHANGED controllerVars,
         MachineReconcilerStep(m) \/ EnvironmentStep(m) \/ Fail(m) \/ StartupTimeout(m)
  PROVE  LeaderParts'
<1>a. /\ TypeOK /\ members \in SUBSET Machine /\ failures \in Nat
      /\ noderef \subseteq nodes /\ removeReq \subseteq deleting
      /\ userDeleted = {}
      /\ members' \in SUBSET Machine
      /\ deleting \subseteq machines
  BY DEF OrderInv, IInv, TypeOK, ClusterTypeOK, NodeFacts, InOrder
<1>b. pc \in {"hook", "delete"} /\ kcp.initialized => deleting = {} /\ initialized
  BY <1>a DEF OrderInv, IInv, OperationAlone, ReadTrails
<1> USE DEF LeaderParts, LeaderKnown, LeaderMoved, Reachable,
        machineVars, kcpVars, workloadVars, envVars, controllerVars
<1>1. CASE Join(m)
  <2>1. /\ leader' # None => leader' \in members' \cap running'
        /\ HasQuorum(members', running') => leader' # None
        /\ leader \in members' \cap running' => leader' \in {None, leader}
    BY <1>1, <1>a, Elected DEF Join
  <2>2. LeaderKnown'
    BY <1>1, <2>1 DEF Join
  <2>3. ASSUME failures = 0, pc \in {"hook", "delete"} PROVE todo.target \notin {None, leader'}
    <3>1. initialized /\ todo.target \notin {None, leader}
      BY <1>b, <2>3
    <3>2. leader \in members' \cap running'
      BY <1>1, <3>1 DEF Join
    <3>3. QED
      BY <2>1, <3>1, <3>2
  <2>4. QED
    BY <1>1, <2>2, <2>3 DEF Join
<1>2. CASE SetNodeRef(m)
  BY <1>2 DEF SetNodeRef
<1>3. CASE MarkUnhealthy(m)
  BY <1>3, <1>a DEF MarkUnhealthy
<1>4. CASE MarkHealthy(m)
  BY <1>4 DEF MarkHealthy
<1>5. CASE Terminate(m)
  <2>1. /\ leader' # None => leader' \in members \cap running'
        /\ HasQuorum(members, running') => leader' # None
    BY <1>5, <1>a, Elected DEF Terminate
  <2>2. LeaderKnown'
    BY <1>5, <2>1 DEF Terminate
  <2>3. QED
    BY <1>5, <1>b, <2>2 DEF Terminate
<1>6. CASE K3sRemovesMember(m)
  <2>1. /\ leader' # None => leader' \in members' \cap running
        /\ HasQuorum(members', running) => leader' # None
    BY <1>6, <1>a, Elected DEF K3sRemovesMember
  <2>2. LeaderKnown'
    BY <1>6, <2>1 DEF K3sRemovesMember
  <2>3. QED
    BY <1>6, <1>a, <1>b, <2>2 DEF K3sRemovesMember
<1>7. CASE RequestEtcdRemoval(m)
  BY <1>7 DEF RequestEtcdRemoval
<1>8. CASE RemoveHook(m)
  BY <1>8 DEF RemoveHook
<1>9. CASE Fail(m)
  <2>1. /\ leader' # None => leader' \in members \cap running'
        /\ HasQuorum(members, running') => leader' # None
    BY <1>9, <1>a, Elected DEF Fail
  <2>2. failures' # 0
    BY <1>9, <1>a DEF Fail
  <2>3. QED
    BY <1>9, <2>1, <2>2 DEF Fail
<1>10. CASE StartupTimeout(m)
  <2>1. failures' # 0
    BY <1>10, <1>a DEF StartupTimeout
  <2>2. QED
    BY <1>10, <2>1 DEF StartupTimeout
<1>11. QED
  BY <1>1, <1>2, <1>3, <1>4, <1>5, <1>6, <1>7, <1>8, <1>9, <1>10
     DEF MachineReconcilerStep, EnvironmentStep

LEMMA UserLeaderStep ==
  ASSUME UserRequests \subseteq {"scale", "upgrade"},
         LeaderParts, UserStep, UNCHANGED controllerVars
  PROVE  LeaderParts'
<1> USE DEF LeaderParts, LeaderKnown, LeaderMoved, Reachable, machineVars, workloadVars,
        controllerVars
<1>1. CASE Upgrade
  BY <1>1 DEF Upgrade
<1>2. ASSUME NEW r \in Replicas, ScaleTo(r) PROVE LeaderParts'
  BY <1>2 DEF ScaleTo
<1>3. QED
  BY <1>1, <1>2, OnlyScalesAndUpgrades

\* A scale down begins with another machine as the next leader.
LEMMA ScaleDownLeaderStep ==
  ASSUME 0 \notin Replicas, OrderInv, LeaderParts, ScaleDownControlPlane
  PROVE  LeaderParts'
<1> DEFINE t == SelectMachineForScaleDown
<1>1. /\ t \in seen.machines \cap seen.noderef
      /\ kcp.initialized
      /\ Newest(seen.machines) # t
  BY ScaleDownTakesOldest, Zenon
<1>2. t # None
  BY <1>1 DEF OrderInv, IInv, TypeOK, ControllerTypeOK, Seen, Machine, None
<1> HIDE DEF t
<1>3. /\ pc' = "forward" /\ UNCHANGED <<workloadVars, unhealthy, failures, kcp>>
      /\ todo' = [op |-> "scaleDown", target |-> t, hasNode |-> t \in seen.noderef,
                  candidate |-> IF Newest(seen.machines) \in seen.noderef
                                THEN Newest(seen.machines) ELSE None]
  BY DEF ScaleDownControlPlane, Begin, clusterVars, machineVars, envVars, t
<1>4. todo'.target = t /\ todo'.hasNode /\ todo'.candidate # t
  BY <1>1, <1>2, <1>3
<1>5. LeaderKnown'
  BY <1>3 DEF LeaderParts, LeaderKnown, Reachable, workloadVars
<1>6. LeaderMoved'
  BY <1>1, <1>2, <1>3, <1>4 DEF LeaderMoved
<1>7. QED
  BY <1>5, <1>6 DEF LeaderParts

LEMMA ControllerLeaderStep ==
  ASSUME 0 \notin Replicas, OrderInv, LeaderParts, ControllerNext
  PROVE  LeaderParts'
<1>a. TypeOK /\ members \in SUBSET Machine
  BY DEF OrderInv, IInv, TypeOK, ClusterTypeOK
<1>b. pc = "decide" /\ failures = 0 => ~RemediationDue
  BY DEF LeaderParts, LeaderKnown, RemediationDue
<1> USE DEF LeaderParts, LeaderKnown, LeaderMoved, Reachable,
        clusterVars, machineVars, workloadVars, envVars, Goto
<1>2. CASE Start
  BY <1>2 DEF Start
<1>3. CASE DeliverKCP
  BY <1>3 DEF DeliverKCP
<1>4. CASE ListMachines
  BY <1>4 DEF ListMachines
<1>5. CASE UpdateConditions
  <2>1. seen'.unhealthy = seen.unhealthy
    BY <1>5, <1>a DEF UpdateConditions, TypeOK, ControllerTypeOK, Seen
  <2>2. QED
    BY <1>5, <2>1 DEF UpdateConditions
<1>6. CASE ReconcileEtcdMembers
  <2>1. members' \in SUBSET Machine
    BY <1>6, <1>a DEF ReconcileEtcdMembers
  <2>2. /\ leader' # None => leader' \in members' \cap running
        /\ HasQuorum(members', running) => leader' # None
    BY <1>6, <2>1, Elected DEF ReconcileEtcdMembers
  <2>3. QED
    BY <1>6, <2>2 DEF ReconcileEtcdMembers
<1>7. CASE RemediateInitialized
  BY <1>7, <1>b DEF RemediateInitialized, Begin
<1>8. CASE RemediateUninitialized
  BY <1>8, <1>b DEF RemediateUninitialized, Begin
<1>9. CASE RemediationFails \/ InitializeControlPlane \/ ScaleUpControlPlane \/ Wait
  BY <1>9 DEF RemediationFails, InitializeControlPlane, ScaleUpControlPlane, Wait, Begin
<1>10. CASE ForwardEtcdLeadership
  BY <1>10 DEF ForwardEtcdLeadership
<1>11. CASE AddPreTerminateHook
  BY <1>11 DEF AddPreTerminateHook
<1>12. CASE DeleteMachine
  BY <1>12 DEF DeleteMachine
<1>13. CASE PatchRemediatedMachine
  BY <1>13 DEF PatchRemediatedMachine
<1>14. CASE CreateMachine
  BY <1>14 DEF CreateMachine
<1>15. CASE PatchKThreesControlPlane
  BY <1>15 DEF PatchKThreesControlPlane, Forget
<1>16. CASE CallFails
  BY <1>16 DEF CallFails
<1>17. CASE Restart
  BY <1>17 DEF Restart, Forget
<1>18. QED
  BY <1>2, <1>3, <1>4, <1>5, <1>6, <1>7, <1>8, <1>9, <1>10, <1>11, <1>12, <1>13, <1>14, <1>15,
     <1>16, <1>17, ScaleDownLeaderStep DEF ControllerNext, ReconcileStep

LEMMA LeaderInvariance ==
  ASSUME UserRequests \subseteq {"scale", "upgrade"}, 0 \notin Replicas
  PROVE  Spec => []LeaderInv
<1>1. Init => LeaderInv
  BY OrderInvInit, LeaderInit DEF LeaderInv, LeaderParts
<1>2. ASSUME LeaderInv, [Next]_vars PROVE LeaderInv'
  <2>1. OrderInv /\ LeaderParts
    BY <1>2 DEF LeaderInv, LeaderParts
  <2>2. OrderInv'
    BY <1>2, <2>1, OrderStep
  <2>3. ASSUME UNCHANGED vars PROVE LeaderParts'
    BY <2>1, <2>3 DEF LeaderParts, LeaderKnown, LeaderMoved, Reachable, vars, clusterVars,
       machineVars, workloadVars, envVars, controllerVars
  <2>4. LeaderParts'
    BY <1>2, <2>1, <2>2, <2>3, EnvironmentLeaderStep, UserLeaderStep, ControllerLeaderStep DEF Next
  <2>5. QED
    BY <2>2, <2>4 DEF LeaderInv, LeaderParts
<1>3. LeaderInv /\ [Next]_vars => LeaderInv'
  BY <1>2
<1>4. QED
  BY <1>1, <1>3, PTL DEF Spec

\* As long as no host fails, and users only scale (to one machine or more) and
\* upgrade, the machine whose deletion scaleDownControlPlane asks for is not the
\* etcd leader: ForwardEtcdLeadership has moved the leadership to another one,
\* and nothing moves it back in between.
THEOREM LeaderIsForwarded ==
  ASSUME UserRequests \subseteq {"scale", "upgrade"}, 0 \notin Replicas
  PROVE  Spec => LeaderForwarded
<1> DEFINE A == \A m \in (deleting' \ deleting) \ userDeleted' : failures = 0 => m # leader
<1>1. ASSUME LeaderInv, [Next]_vars PROVE A
  <2>1. CASE deleting' \subseteq deleting
    BY <2>1
  <2>2. CASE DeleteMachine
    BY <1>1, <2>2 DEF DeleteMachine, LeaderInv, LeaderMoved
  <2>3. ASSUME NEW m \in Machine, Terminate(m) PROVE deleting' \subseteq deleting
    BY <2>3 DEF Terminate
  <2>4. ASSUME NEW m \in Machine, UserDeletes(m) PROVE A
    BY <2>4 DEF UserDeletes
  <2>5. QED
    BY <1>1, <2>1, <2>2, <2>3, <2>4, WhoDeletes
<1>2. LeaderInv /\ [Next]_vars => [A]_vars
  BY <1>1
<1>3. QED
  BY <1>2, LeaderInvariance, PTL DEF Spec, LeaderForwarded

-----------------------------------------------------------------------------
(* The quorum, while users only scale and upgrade.                           *)

Absorbs(H) == HitBy(H) /\ EnoughStay(H)

\* What the theorem assumes of the sizes of the control plane: it has, and is
\* always asked to have, a quorum that survives all failures.
LargeEnough == InitMachines >= Tolerant /\ \A r \in Replicas : r >= Tolerant

LEMMA TolerantNumber == Tolerant \in Nat /\ Tolerant > 0 /\ MaxFailures \in Nat
BY ClusterAssumption DEF ClusterAssumption, Tolerant

\* A set that contains a tolerant one is tolerant.
LEMMA StillTolerant ==
  ASSUME NEW T \in SUBSET Machine, NEW S \in SUBSET T, Cardinality(S) >= Tolerant
  PROVE  Cardinality(T) >= Tolerant
<1>1. S \in SUBSET Machine
  OBVIOUS
<1>2. Cardinality(S) \in Nat /\ Cardinality(T) \in Nat /\ Cardinality(S) <= Cardinality(T)
  BY <1>1, MachinesAreFinite, FewerMachines
<1>3. QED
  BY <1>2, TolerantNumber

\* What is left of a tolerant set after all failures is more than what failed.
LEMMA MoreStayThanFail ==
  ASSUME NEW S \in SUBSET Machine, NEW H \in SUBSET Machine,
         NEW f \in Nat, f <= MaxFailures,
         Cardinality(H) <= f, Cardinality(S \cup H) >= Tolerant
  PROVE  Cardinality(S \ H) > Cardinality(H)
<1>1. S \ H \in SUBSET Machine /\ S \cup H \in SUBSET Machine
  OBVIOUS
<1>2. /\ IsFiniteSet(S \ H) /\ IsFiniteSet(H)
      /\ Cardinality(S \ H) \in Nat /\ Cardinality(H) \in Nat /\ Cardinality(S \cup H) \in Nat
  BY <1>1, MachinesAreFinite
<1>3. (S \ H) \cup H = S \cup H /\ (S \ H) \cap H = {}
  OBVIOUS
<1>4. Cardinality((S \ H) \cup H) =
        Cardinality(S \ H) + Cardinality(H) - Cardinality((S \ H) \cap H)
  BY <1>2, FS_Union
<1>5. Cardinality((S \ H) \cap H) = 0
  BY <1>3, FS_EmptySet
<1>6. Cardinality(S \cup H) = Cardinality(S \ H) + Cardinality(H)
  BY <1>2, <1>3, <1>4, <1>5
<1>7. QED
  BY <1>2, <1>6, TolerantNumber DEF Tolerant

\* The members that stay and were not hit are running and outnumber the members
\* that are down, so there is a quorum.
LEMMA AbsorbsMeansQuorum ==
  ASSUME TypeOK, failures <= MaxFailures, NEW H \in SUBSET Machine, Absorbs(H)
  PROVE  Reachable /\ Stay \ H # {}
<1>1. /\ Stay \in SUBSET Machine /\ members \in SUBSET Machine
      /\ Stay \subseteq members /\ failures \in Nat
  BY DEF TypeOK, ClusterTypeOK, Stay
<1>2. Cardinality(Stay \ H) > Cardinality(H)
  BY <1>1, MoreStayThanFail DEF Absorbs, HitBy, EnoughStay
<1> DEFINE up == members \cap running
           down == members \ running
<1>3. /\ up \in SUBSET Machine /\ down \in SUBSET H /\ down \in SUBSET Machine
      /\ Stay \ H \in SUBSET up /\ Stay \ H \in SUBSET Machine
  BY <1>1 DEF Absorbs, HitBy
<1>4. Cardinality(down) <= Cardinality(H) /\ Cardinality(Stay \ H) <= Cardinality(up)
  BY <1>3, FewerMachines
<1>5. /\ IsFiniteSet(up) /\ IsFiniteSet(down)
      /\ Cardinality(up) \in Nat /\ Cardinality(down) \in Nat
      /\ Cardinality(H) \in Nat /\ Cardinality(Stay \ H) \in Nat
  BY <1>3, MachinesAreFinite
<1>6. up \cup down = members /\ up \cap down = {}
  OBVIOUS
<1> HIDE DEF up, down
<1>7. Cardinality(up \cup down) = Cardinality(up) + Cardinality(down) - Cardinality(up \cap down)
  BY <1>5, FS_Union
<1>8. Cardinality(up \cap down) = 0 /\ Cardinality(up \cup down) = Cardinality(members)
  BY <1>6, FS_EmptySet
<1>9. Cardinality(members) = Cardinality(up) + Cardinality(down)
  BY <1>5, <1>7, <1>8
<1>10. 2 * Cardinality(up) > Cardinality(members)
  BY <1>2, <1>4, <1>5, <1>9
<1>11. Stay \ H # {}
  <2>1. SUFFICES ASSUME Stay \ H = {} PROVE FALSE
    OBVIOUS
  <2>2. Cardinality(Stay \ H) = 0
    BY <2>1, FS_EmptySet
  <2>3. QED
    BY <1>2, <1>5, <2>2
<1>12. QED
  BY <1>10, <1>11 DEF Reachable, HasQuorum, up

\* What stays still is enough when it does not shrink and the reconcile has not
\* gone on.
LEMMA EnoughKept ==
  ASSUME TypeOK', NEW H \in SUBSET Machine, NEW K \in SUBSET Machine, H \subseteq K,
         Stay \subseteq Stay', EnoughStay(H), UNCHANGED <<pc, seen, todo>>
  PROVE  EnoughStay(K)'
<1>1. Stay' \in SUBSET Machine
  BY DEF TypeOK, ClusterTypeOK, Stay
<1>2. Stay' \cup K \in SUBSET Machine /\ Stay \cup H \in SUBSET (Stay' \cup K)
  BY <1>1
<1>3. Cardinality(Stay' \cup K) >= Tolerant
  BY <1>2, StillTolerant DEF EnoughStay
<1>4. ASSUME pc \in {"forward", "hook", "delete"}, todo.target \notin H
      PROVE  Cardinality((Stay' \cup K) \ {todo.target}) >= Tolerant
  <2>1. Cardinality((Stay \cup H) \ {todo.target}) >= Tolerant
    BY <1>4 DEF EnoughStay
  <2>2. /\ (Stay' \cup K) \ {todo.target} \in SUBSET Machine
        /\ (Stay \cup H) \ {todo.target} \in SUBSET ((Stay' \cup K) \ {todo.target})
    BY <1>2
  <2>3. QED
    BY <2>1, <2>2, StillTolerant
<1>5. QED
  BY <1>2, <1>3, <1>4 DEF EnoughStay

LEMMA AbsorbsInit ==
  ASSUME LargeEnough, Init
  PROVE  AlwaysInitialized /\ FailuresAbsorbed
<1>1. InitMachines \in Nat /\ InitMachines > 0 /\ InitMachines >= Tolerant
  BY TolerantNumber, ClusterAssumption DEF ClusterAssumption, LargeEnough
<1>2. AlwaysInitialized
  <2>1. initialized
    BY <1>1 DEF Init, ClusterInit
  <2>2. failures <= MaxFailures
    BY TolerantNumber DEF Init, ClusterInit
  <2>3. QED
    BY <2>1, <2>2 DEF AlwaysInitialized, Readable, Stored, Init, ControllerInit
<1>3. HitBy({})
  <2>1. Cardinality({}) = 0
    BY FS_EmptySet
  <2>2. QED
    BY <2>1 DEF HitBy, Init, ClusterInit, ControllerInit
<1>4. EnoughStay({})
  <2>1. Stay \cup {} = 1 .. InitMachines
    BY DEF Stay, Init, ClusterInit
  <2>2. Cardinality(1 .. InitMachines) = IF 1 > InitMachines THEN 0 ELSE InitMachines - 1 + 1
    BY <1>1, FS_Interval
  <2>3. Cardinality(1 .. InitMachines) >= Tolerant
    BY <1>1, <2>2
  <2>4. QED
    BY <2>1, <2>3 DEF EnoughStay, Init, ControllerInit
<1>5. QED
  BY <1>2, <1>3, <1>4 DEF FailuresAbsorbed

\* A failure hits one machine more.
LEMMA HitOneMore ==
  ASSUME NEW H \in SUBSET Machine, NEW m \in Machine, NEW f \in Nat, Cardinality(H) <= f
  PROVE  H \cup {m} \in SUBSET Machine /\ Cardinality(H \cup {m}) <= f + 1
<1>1. IsFiniteSet(H) /\ Cardinality(H) \in Nat
  BY MachinesAreFinite
<1>2. Cardinality(H \cup {m}) = IF m \in H THEN Cardinality(H) ELSE Cardinality(H) + 1
  BY <1>1, FS_AddElement
<1>3. QED
  BY <1>1, <1>2

LEMMA EnvironmentAbsorbsStep ==
  ASSUME OrderInv, OrderInv', AlwaysInitialized, NEW H \in SUBSET Machine, Absorbs(H),
         NEW m \in Machine, UNCHANGED controllerVars,
         MachineReconcilerStep(m) \/ EnvironmentStep(m) \/ Fail(m) \/ StartupTimeout(m)
  PROVE  FailuresAbsorbed'
<1>a. TypeOK /\ TypeOK' /\ userDeleted = {} /\ noderef \subseteq nodes /\ removeReq \subseteq deleting
  BY DEF OrderInv, IInv, InOrder, NodeFacts
<1>b. HitBy(H) /\ EnoughStay(H) /\ UNCHANGED <<pc, seen, todo>> /\ initialized
  BY DEF Absorbs, controllerVars, AlwaysInitialized
<1>c. ASSUME NEW K \in SUBSET Machine, H \subseteq K, HitBy(K)', Stay \subseteq Stay'
      PROVE  FailuresAbsorbed'
  BY <1>a, <1>b, <1>c, EnoughKept DEF FailuresAbsorbed
<1> USE DEF HitBy, Stay, machineVars, kcpVars, workloadVars, envVars
<1>1. CASE Join(m)
  <2>1. HitBy(H)' /\ Stay \subseteq Stay'
    BY <1>1, <1>b DEF Join
  <2>2. QED
    BY <1>c, <2>1
<1>2. CASE SetNodeRef(m)
  <2>1. HitBy(H)' /\ Stay \subseteq Stay'
    BY <1>2, <1>b DEF SetNodeRef
  <2>2. QED
    BY <1>c, <2>1
<1>3. CASE MarkUnhealthy(m)
  <2>1. HitBy(H)' /\ Stay \subseteq Stay'
    BY <1>3, <1>a, <1>b DEF MarkUnhealthy
  <2>2. QED
    BY <1>c, <2>1
<1>4. CASE MarkHealthy(m)
  <2>1. HitBy(H)' /\ Stay \subseteq Stay'
    BY <1>4, <1>b DEF MarkHealthy
  <2>2. QED
    BY <1>c, <2>1
<1>5. CASE Terminate(m)
  <2>1. m \in members => m \in H
    <3>1. SUFFICES ASSUME m \in members, m \notin H PROVE FALSE
      OBVIOUS
    <3>2. m \in deleting \cap noderef /\ m \notin hook \cup lateNode
      BY <1>5, <1>b, <3>1 DEF Terminate
    <3>3. machines \ deleting = {}
      BY <1>a, <3>1, <3>2 DEF OrderInv, IInv, HookGuards
    <3>4. Stay # {}
      BY <1>a, AbsorbsMeansQuorum DEF AlwaysInitialized
    <3>5. QED
      BY <3>3, <3>4
  <2>2. HitBy(H)' /\ Stay \subseteq Stay'
    BY <1>5, <1>b, <2>1 DEF Terminate
  <2>3. QED
    BY <1>c, <2>2
<1>6. CASE K3sRemovesMember(m)
  <2>1. HitBy(H)' /\ Stay \subseteq Stay'
    BY <1>6, <1>a, <1>b DEF K3sRemovesMember
  <2>2. QED
    BY <1>c, <2>1
<1>7. CASE RequestEtcdRemoval(m)
  <2>1. HitBy(H)' /\ Stay \subseteq Stay'
    BY <1>7, <1>b DEF RequestEtcdRemoval
  <2>2. QED
    BY <1>c, <2>1
<1>8. CASE RemoveHook(m)
  <2>1. HitBy(H)' /\ Stay \subseteq Stay'
    BY <1>8, <1>b DEF RemoveHook
  <2>2. QED
    BY <1>c, <2>1
<1>9. CASE Fail(m)
  <2>1. H \cup {m} \in SUBSET Machine /\ Cardinality(H \cup {m}) <= failures + 1
    BY <1>a, <1>b, HitOneMore DEF TypeOK, ClusterTypeOK
  <2>2. HitBy(H \cup {m})' /\ Stay \subseteq Stay'
    BY <1>9, <1>b, <2>1 DEF Fail
  <2>3. QED
    BY <1>c, <2>1, <2>2
<1>10. CASE StartupTimeout(m)
  <2>1. H \cup {m} \in SUBSET Machine /\ Cardinality(H \cup {m}) <= failures + 1
    BY <1>a, <1>b, HitOneMore DEF TypeOK, ClusterTypeOK
  <2>2. HitBy(H \cup {m})' /\ Stay \subseteq Stay'
    BY <1>10, <1>b, <2>1 DEF StartupTimeout
  <2>3. QED
    BY <1>c, <2>1, <2>2
<1>11. QED
  BY <1>1, <1>2, <1>3, <1>4, <1>5, <1>6, <1>7, <1>8, <1>9, <1>10
     DEF MachineReconcilerStep, EnvironmentStep

LEMMA UserAbsorbsStep ==
  ASSUME UserRequests \subseteq {"scale", "upgrade"}, NEW H \in SUBSET Machine, Absorbs(H),
         UserStep, UNCHANGED controllerVars
  PROVE  Absorbs(H)'
<1> USE DEF Absorbs, HitBy, EnoughStay, Stay, machineVars, workloadVars, controllerVars
<1>1. CASE Upgrade
  BY <1>1 DEF Upgrade
<1>2. ASSUME NEW r \in Replicas, ScaleTo(r) PROVE Absorbs(H)'
  BY <1>2 DEF ScaleTo
<1>3. QED
  BY <1>1, <1>2, OnlyScalesAndUpgrades

\* A scale down starts with more healthy machines than are wanted afterwards.
LEMMA ScaleDownAbsorbsStep ==
  ASSUME LargeEnough, OrderInv, NEW H \in SUBSET Machine, Absorbs(H), ScaleDownControlPlane
  PROVE  Absorbs(H)'
<1> DEFINE t == SelectMachineForScaleDown
<1>0. 0 \notin Replicas
  BY TolerantNumber DEF LargeEnough
<1>1. t \in seen.machines \cap seen.noderef /\ seen.machines \ {t} \subseteq seen.healthy
  BY <1>0, ScaleDownTakesOldest, Zenon
<1>2. pc = "decide" /\ WantsScaleDown
  BY DEF ScaleDownControlPlane
<1>3. /\ pc' = "forward" /\ todo'.target = t
      /\ UNCHANGED <<machineVars, workloadVars, lateNode, failures>>
  BY DEF ScaleDownControlPlane, Begin, clusterVars, envVars
<1>4. t \in machines => t \in noderef
  BY <1>1, <1>2 DEF OrderInv, ListInOrder
<1> HIDE DEF t
<1>5. TypeOK /\ Stay \in SUBSET Machine /\ seen.machines \in SUBSET Machine
  BY DEF OrderInv, IInv, TypeOK, ClusterTypeOK, ControllerTypeOK, Seen, Stay
<1>6. Cardinality((Stay \cup H) \ {t}) >= Tolerant
  <2>1. seen.healthy \subseteq Stay \cup H
    BY <1>2 DEF Absorbs, EnoughStay
  <2>2. kcp.replicas >= Tolerant /\ kcp.replicas \in Nat
    BY <1>2, ReplicasNumber DEF OrderInv, ReplicasRead, LargeEnough
  <2>3. IsFiniteSet(seen.machines) /\ Cardinality(seen.machines) \in Nat
    BY <1>5, MachinesAreFinite
  <2>4. Cardinality(seen.machines \ {t}) = Cardinality(seen.machines) - 1
    BY <1>1, <2>3, FS_RemoveElement
  <2>5. Cardinality(seen.machines \ {t}) >= Tolerant
    BY <1>2, <2>2, <2>3, <2>4, TolerantNumber DEF WantsScaleDown
  <2>6. /\ seen.machines \ {t} \in SUBSET ((Stay \cup H) \ {t})
        /\ (Stay \cup H) \ {t} \in SUBSET Machine
    BY <1>1, <1>5, <2>1
  <2>7. QED
    BY <2>5, <2>6, StillTolerant
<1>7. Stay' = Stay
  BY <1>3 DEF Stay, machineVars, workloadVars
<1>8. HitBy(H)'
  BY <1>3, <1>4 DEF Absorbs, HitBy, machineVars, workloadVars
<1>9. EnoughStay(H)'
  BY <1>3, <1>6, <1>7 DEF Absorbs, EnoughStay
<1>10. QED
  BY <1>8, <1>9 DEF Absorbs

\* Deleting a machine leaves enough.
LEMMA DeleteAbsorbsStep ==
  ASSUME TypeOK, TypeOK', NEW H \in SUBSET Machine, Absorbs(H), DeleteMachine
  PROVE  Absorbs(H)'
<1> DEFINE t == todo.target
<1>1. /\ pc = "delete" /\ pc' \in {"mark", "patch"}
      /\ deleting' = deleting \cup ({t} \cap machines)
      /\ UNCHANGED <<machines, noderef, unhealthy, workloadVars, lateNode, failures>>
  BY DEF DeleteMachine, envVars
<1>2. HitBy(H)'
  BY <1>1 DEF Absorbs, HitBy, workloadVars
<1>3. Stay \ {t} \subseteq Stay' /\ Stay' \in SUBSET Machine
  BY <1>1 DEF Stay, workloadVars, TypeOK, ClusterTypeOK
<1>4. Stay' \cup H \in SUBSET Machine
  BY <1>3
<1>5. Cardinality(Stay' \cup H) >= Tolerant
  <2>1. CASE t \in H
    <3>1. Stay \cup H \in SUBSET (Stay' \cup H)
      BY <1>3, <2>1
    <3>2. QED
      BY <1>4, <3>1, StillTolerant DEF Absorbs, EnoughStay
  <2>2. CASE t \notin H
    <3>1. (Stay \cup H) \ {t} \in SUBSET (Stay' \cup H)
      BY <1>3
    <3>2. Cardinality((Stay \cup H) \ {t}) >= Tolerant
      BY <1>1, <2>2 DEF Absorbs, EnoughStay
    <3>3. QED
      BY <1>4, <3>1, <3>2, StillTolerant
  <2>3. QED
    BY <2>1, <2>2
<1>6. EnoughStay(H)'
  BY <1>1, <1>5 DEF EnoughStay
<1>7. QED
  BY <1>2, <1>6 DEF Absorbs

LEMMA ControllerAbsorbsStep ==
  ASSUME LargeEnough, OrderInv, OrderInv', AlwaysInitialized,
         NEW H \in SUBSET Machine, Absorbs(H), ControllerNext
  PROVE  Absorbs(H)'
<1>a. TypeOK /\ TypeOK' /\ nodes \subseteq machines /\ seen \in Seen
  BY DEF OrderInv, IInv, InOrder, TypeOK, ControllerTypeOK
<1>b. pc # "idle" => kcp.initialized
  BY DEF AlwaysInitialized
<1> USE DEF Absorbs, HitBy, EnoughStay, Stay, clusterVars, machineVars, workloadVars, envVars, Goto
<1>2. CASE Start
  BY <1>2 DEF Start
<1>3. CASE DeliverKCP
  BY <1>3 DEF DeliverKCP
<1>4. CASE ListMachines
  BY <1>4 DEF ListMachines
<1>5. CASE UpdateConditions
  <2>1. seen'.unhealthy = seen.unhealthy /\ seen'.healthy = HealthyMachines
    BY <1>5, <1>a DEF UpdateConditions, Seen
  <2>2. deleting \subseteq seen.deleting
    BY <1>5 DEF UpdateConditions, OrderInv, ListInOrder
  <2>3. HealthyMachines \subseteq Stay
    BY <1>a, <2>2 DEF HealthyMachines, EtcdMemberHealthy
  <2>4. QED
    BY <1>5, <2>1, <2>3 DEF UpdateConditions
<1>6. CASE ReconcileEtcdMembers
  <2>1. machines \subseteq seen.machines
    BY <1>6 DEF ReconcileEtcdMembers, OrderInv, IInv, ListCovers
  <2>2. members' \subseteq members /\ members \cap machines \subseteq members'
    BY <1>6, <2>1 DEF ReconcileEtcdMembers, OrphanedMembers, NodesKnown
  <2>3. Stay' = Stay
    BY <1>6, <2>2 DEF ReconcileEtcdMembers
  <2>4. HitBy(H)'
    BY <1>6, <2>2 DEF ReconcileEtcdMembers
  <2>5. EnoughStay(H)'
    <3> HIDE DEF Stay
    <3>1. QED
      BY <1>6, <2>3 DEF ReconcileEtcdMembers
  <2>6. QED
    BY <2>4, <2>5
<1>7. CASE RemediateInitialized
  <2>1. ToBeRemediated \in H
    BY <1>7, <1>a, ToBeRemediatedMember DEF RemediateInitialized, RemediationDue
  <2>2. QED
    BY <1>7, <2>1 DEF RemediateInitialized, Begin
<1>8. CASE RemediateUninitialized
  BY <1>8, <1>b DEF RemediateUninitialized
<1>9. CASE RemediationFails \/ InitializeControlPlane \/ ScaleUpControlPlane \/ Wait
  BY <1>9 DEF RemediationFails, InitializeControlPlane, ScaleUpControlPlane, Wait, Begin
<1>10. CASE ForwardEtcdLeadership
  BY <1>10 DEF ForwardEtcdLeadership
<1>11. CASE AddPreTerminateHook
  BY <1>11 DEF AddPreTerminateHook
<1>12. CASE PatchRemediatedMachine
  BY <1>12 DEF PatchRemediatedMachine
<1>13. CASE CreateMachine
  <2>1. Stay \subseteq Stay' /\ pc' = "patch"
    BY <1>13 DEF CreateMachine
  <2>2. Stay' \cup H \in SUBSET Machine /\ Stay \cup H \in SUBSET (Stay' \cup H)
    BY <1>a, <2>1 DEF TypeOK, ClusterTypeOK
  <2>3. Cardinality(Stay' \cup H) >= Tolerant
    BY <2>2, StillTolerant
  <2>4. HitBy(H)'
    BY <1>13 DEF CreateMachine
  <2>5. EnoughStay(H)'
    BY <2>1, <2>3
  <2>6. QED
    BY <2>4, <2>5
<1>14. CASE PatchKThreesControlPlane
  BY <1>14 DEF PatchKThreesControlPlane, Forget
<1>15. CASE CallFails
  BY <1>15 DEF CallFails
<1>16. CASE Restart
  BY <1>16 DEF Restart, Forget
<1>17. QED
  BY <1>2, <1>3, <1>4, <1>5, <1>6, <1>7, <1>8, <1>9, <1>10, <1>11, <1>12, <1>13, <1>14, <1>15,
     <1>16, <1>a, ScaleDownAbsorbsStep, DeleteAbsorbsStep DEF ControllerNext, ReconcileStep

LEMMA InitializedStep ==
  ASSUME TypeOK, AlwaysInitialized, [Next]_vars
  PROVE  AlwaysInitialized'
<1>1. CASE ControllerNext
  <2>1. initialized' /\ failures' = failures
    BY <1>1 DEF AlwaysInitialized, ControllerNext, ReconcileStep, Start, DeliverKCP,
       ListMachines, UpdateConditions, ReconcileEtcdMembers, RemediateInitialized,
       RemediateUninitialized, RemediationFails, InitializeControlPlane, ScaleUpControlPlane,
       ScaleDownControlPlane, Wait, Begin, ForwardEtcdLeadership, AddPreTerminateHook,
       DeleteMachine, PatchRemediatedMachine, CreateMachine, PatchKThreesControlPlane,
       InitializedStatus, CallFails, Restart, clusterVars, kcpVars, envVars
  <2>2. cache' = cache \/ DeliverKCP
    BY <1>1 DEF ControllerNext, ReconcileStep, Start,
       ListMachines, UpdateConditions, ReconcileEtcdMembers, RemediateInitialized,
       RemediateUninitialized, RemediationFails, InitializeControlPlane, ScaleUpControlPlane,
       ScaleDownControlPlane, Wait, Begin, ForwardEtcdLeadership, AddPreTerminateHook,
       DeleteMachine, PatchRemediatedMachine, CreateMachine, PatchKThreesControlPlane,
       CallFails, Restart, Goto
  <2>3. Readable'.initialized
    BY <2>1, <2>2 DEF AlwaysInitialized, Readable, Stored, DeliverKCP
  <2>4. (kcp' = kcp /\ pc # "idle") \/ pc' = "idle" \/ Start \/ DeliverKCP
    BY <1>1 DEF ControllerNext, ReconcileStep,
       ListMachines, UpdateConditions, ReconcileEtcdMembers, RemediateInitialized,
       RemediateUninitialized, RemediationFails, InitializeControlPlane, ScaleUpControlPlane,
       ScaleDownControlPlane, Wait, Begin, ForwardEtcdLeadership, AddPreTerminateHook,
       DeleteMachine, PatchRemediatedMachine, CreateMachine, PatchKThreesControlPlane,
       CallFails, Restart, Forget, Goto
  <2>5. pc' # "idle" => kcp'.initialized
    BY <2>4 DEF AlwaysInitialized, Readable, Start, DeliverKCP
  <2>6. QED
    BY <2>1, <2>3, <2>5 DEF AlwaysInitialized
<1>2. CASE UNCHANGED controllerVars /\ initialized' = initialized /\ failures' <= MaxFailures
  BY <1>2 DEF AlwaysInitialized, Readable, Stored, controllerVars
<1>3. ASSUME NEW m \in Machine,
             MachineReconcilerStep(m) \/ EnvironmentStep(m) \/ Fail(m) \/ StartupTimeout(m)
      PROVE  initialized' = initialized /\ failures' <= MaxFailures
  <2>1. failures \in Nat /\ MaxFailures \in Nat
    BY TolerantNumber DEF TypeOK, ClusterTypeOK
  <2>2. CASE Fail(m) \/ StartupTimeout(m)
    BY <2>1, <2>2 DEF Fail, StartupTimeout, kcpVars
  <2>3. CASE MachineReconcilerStep(m) \/ EnvironmentStep(m)
    <3>1. initialized' = initialized /\ failures' = failures
      BY <2>3 DEF MachineReconcilerStep, RequestEtcdRemoval, RemoveHook, EnvironmentStep, Join,
         SetNodeRef, MarkUnhealthy, MarkHealthy, Terminate, K3sRemovesMember, kcpVars, envVars
    <3>2. QED
      BY <3>1 DEF AlwaysInitialized
  <2>4. QED
    BY <1>3, <2>2, <2>3
<1>4. CASE UNCHANGED vars
  BY <1>2, <1>4 DEF vars, clusterVars, kcpVars, envVars, AlwaysInitialized
<1>5. CASE UserStep /\ UNCHANGED controllerVars
  <2>1. initialized' = initialized /\ failures' = failures
    BY <1>5 DEF UserStep, Upgrade, ScaleTo, AnnotateForDeletion, UserDeletes, kcpVars
  <2>2. QED
    BY <1>2, <1>5, <2>1 DEF AlwaysInitialized
<1>6. QED
  BY <1>1, <1>2, <1>3, <1>4, <1>5 DEF Next

LEMMA QuorumInvariance ==
  ASSUME UserRequests \subseteq {"scale", "upgrade"}, LargeEnough
  PROVE  Spec => []QuorumInv
<1>1. Init => QuorumInv
  BY OrderInvInit, AbsorbsInit DEF QuorumInv
<1>2. ASSUME QuorumInv, [Next]_vars PROVE QuorumInv'
  <2>1. OrderInv /\ AlwaysInitialized /\ TypeOK
    BY <1>2 DEF QuorumInv, OrderInv, IInv
  <2>2. OrderInv'
    BY <1>2, <2>1, OrderStep
  <2>3. AlwaysInitialized'
    BY <1>2, <2>1, InitializedStep
  <2>4. PICK H \in SUBSET Machine : Absorbs(H)
    BY <1>2 DEF QuorumInv, FailuresAbsorbed, Absorbs
  <2>5. Absorbs(H)' => FailuresAbsorbed'
    BY DEF Absorbs, FailuresAbsorbed
  <2>6. CASE UNCHANGED vars
    <3>1. Absorbs(H)'
      BY <2>4, <2>6 DEF Absorbs, HitBy, EnoughStay, Stay, vars, clusterVars, machineVars,
         workloadVars, envVars, controllerVars
    <3>2. QED
      BY <2>2, <2>3, <2>5, <3>1 DEF QuorumInv
  <2>7. CASE ControllerNext
    BY <2>1, <2>2, <2>3, <2>4, <2>5, <2>7, ControllerAbsorbsStep DEF QuorumInv
  <2>8. CASE UserStep /\ UNCHANGED controllerVars
    BY <2>1, <2>2, <2>3, <2>4, <2>5, <2>8, UserAbsorbsStep DEF QuorumInv
  <2>9. ASSUME NEW m \in Machine, UNCHANGED controllerVars,
               MachineReconcilerStep(m) \/ EnvironmentStep(m) \/ Fail(m) \/ StartupTimeout(m)
        PROVE  QuorumInv'
    <3>1. FailuresAbsorbed'
      BY <2>1, <2>2, <2>4, <2>9, EnvironmentAbsorbsStep
    <3>2. QED
      BY <2>2, <2>3, <3>1 DEF QuorumInv
  <2>10. QED
    BY <1>2, <2>6, <2>7, <2>8, <2>9 DEF Next
<1>3. QuorumInv /\ [Next]_vars => QuorumInv'
  BY <1>2
<1>4. QED
  BY <1>1, <1>3, PTL DEF Spec

\* A control plane that has, and is always asked to have, at least 2f + 1 machines
\* keeps the quorum of its etcd when f hosts fail or do not start in time: through
\* rollouts, scaling and the remediation of the failed machines (scale.go,
\* remediation.go), with an outdated KThreesControlPlane in the cache, failing
\* calls and restarts at any time.  Users only scale and upgrade: a machine that
\* they choose for deletion, or delete, is one that the checks do not count.
THEOREM QuorumIsKept ==
  ASSUME UserRequests \subseteq {"scale", "upgrade"}, LargeEnough
  PROVE  Spec => []QuorumKept
<1>1. QuorumInv => QuorumKept
  <2> SUFFICES ASSUME QuorumInv PROVE Reachable
    BY DEF QuorumKept
  <2>1. PICK H \in SUBSET Machine : Absorbs(H)
    BY DEF QuorumInv, FailuresAbsorbed, Absorbs
  <2>2. QED
    BY <2>1, AbsorbsMeansQuorum DEF QuorumInv, OrderInv, IInv, AlwaysInitialized
<1>2. QED
  BY <1>1, QuorumInvariance, PTL
=============================================================================
