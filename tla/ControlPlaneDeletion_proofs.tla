--------------------- MODULE ControlPlaneDeletion_proofs ---------------------
(***************************************************************************)
(* The making of machines and the deletion of the control plane, for every   *)
(* number of replicas, attempts, workers and faults.                        *)
(***************************************************************************)
EXTENDS ControlPlaneDeletion, FiniteSetTheorems, TLAPS

\* The parts of the invariant: what is made, the control plane, and the lists.
CreationPart ==
  /\ CreationTypeOK /\ NamesFresh /\ AttemptInPlace /\ OnlyAttemptDangles /\ RoomForMachine
  /\ MachinesAreWhole

LifePart ==
  /\ kcp \in ControlPlanes /\ kcpCache \in ControlPlanes
  /\ kcpCache.deleting => kcp.deleting
  /\ FinalizerHolds

ListPart ==
  /\ deleting \subseteq machine
  /\ workers \subseteq Workers /\ spare \subseteq Workers
  /\ listed \in Lists /\ seen \in Lists
  /\ faults \in 0 .. MaxFaults
  /\ ListShowsSeen

Steps == {"idle", "reconcile", "clone", "generate", "create", "cleanup", "delete", "finalize"}

\* Between two attempts.
Between == {"idle", "reconcile", "delete", "finalize"}

LEMMA Parts == IInv <=> CreationPart /\ LifePart /\ ListPart /\ pc \in Steps
BY DEF IInv, TypeOK, CreationPart, LifePart, ListPart, Steps

LEMMA PartsNext == CreationPart' /\ LifePart' /\ ListPart' /\ pc' \in Steps => IInv'
BY DEF IInv, TypeOK, CreationPart, LifePart, ListPart, Steps

LEMMA AttemptsAreNumbers ==
  /\ IsFiniteSet(Attempts) /\ Attempts \subseteq Nat \ {0}
  /\ \A S : S \subseteq Attempts => IsFiniteSet(S) /\ Cardinality(S) \in Nat
<1>1. IsFiniteSet(Attempts) /\ Cardinality(Attempts) \in Nat
  BY CreationAssumption, FS_CardinalityType
<1>2. Attempts \subseteq Nat \ {0}
  BY <1>1, CreationAssumption
<1>3. \A S : S \subseteq Attempts => IsFiniteSet(S) /\ Cardinality(S) \in Nat
  BY <1>1, FS_Subset, FS_CardinalityType
<1>4. QED
  BY <1>1, <1>2, <1>3

-----------------------------------------------------------------------------
(* What is made.                                                             *)

LEMMA CreationUnchanged ==
  ASSUME CreationPart, UNCHANGED creationVars
  PROVE  CreationPart'
BY DEF CreationPart, creationVars, CreationTypeOK, NamesFresh, AttemptInPlace, OnlyAttemptDangles,
       RoomForMachine, MachinesAreWhole, Exists

\* Between two attempts nothing but the position changes.
LEMMA CreationBetween ==
  ASSUME CreationPart, pc \in Between, NEW step \in Between, Goto(step)
  PROVE  CreationPart'
BY DEF CreationPart, Goto, Between, CreationTypeOK, NamesFresh, AttemptInPlace,
       OnlyAttemptDangles, RoomForMachine, MachinesAreWhole

\* One more machine takes the room that was there for it.
LEMMA OneMoreMachine ==
  ASSUME CreationPart, pc = "create"
  PROVE  Cardinality(machine \cup {attempt}) <= Replicas + 1
<1>1. IsFiniteSet(machine) /\ Cardinality(machine) \in Nat
  BY AttemptsAreNumbers DEF CreationPart, CreationTypeOK
<1>2. Cardinality(machine) <= Replicas
  BY DEF CreationPart, RoomForMachine
<1>3. Cardinality(machine \cup {attempt}) \in {Cardinality(machine), Cardinality(machine) + 1}
  BY <1>1, FS_AddElement
<1>4. QED
  BY <1>1, <1>2, <1>3, CreationAssumption

\* The attempt whose objects are made is one of the attempts.
LEMMA AttemptUnderWay ==
  ASSUME CreationPart, pc \in {"clone", "generate", "create", "cleanup"}
  PROVE  attempt \in Attempts
BY DEF CreationPart, CreationTypeOK, AttemptInPlace

LEMMA StartStep ==
  ASSUME CreationPart, Start
  PROVE  CreationPart'
<1> USE DEF Start, CreationPart
<1>1. attempt \in Nat
  BY AttemptsAreNumbers DEF CreationTypeOK
<1>2. \A a \in infra \cup config \cup machine \cup marred : a \in Nat /\ a <= attempt
  BY AttemptsAreNumbers DEF CreationTypeOK, NamesFresh
<1>3. attempt' \notin infra \cup config \cup machine \cup marred
  BY <1>1, <1>2
<1>4. CreationTypeOK'
  BY DEF CreationTypeOK
<1>5. NamesFresh'
  BY <1>1, <1>2 DEF NamesFresh
<1>6. AttemptInPlace'
  BY <1>3 DEF AttemptInPlace
<1>7. RoomForMachine'
  <2>1. Cardinality(machine) \in Nat
    BY AttemptsAreNumbers DEF CreationTypeOK
  <2>2. Cardinality(machine) <= Replicas /\ machine' = machine
    BY <2>1, CreationAssumption
  <2>3. QED
    BY <2>2 DEF RoomForMachine
<1>8. QED
  BY <1>4, <1>5, <1>6, <1>7 DEF OnlyAttemptDangles, MachinesAreWhole

LEMMA CloneStep ==
  ASSUME CreationPart, CloneInfrastructure \/ CloneFails
  PROVE  CreationPart'
<1> USE DEF CloneInfrastructure, CloneFails, CreationPart
<1>1. attempt \in Attempts /\ attempt \in Nat
  BY AttemptsAreNumbers, AttemptUnderWay
<1>2. CreationTypeOK'
  <2>1. {"infra"} \subseteq Kinds
    BY DEF Kinds
  <2>2. owned' = ({"infra"} \X infra') \cup ({"config"} \X config')
    BY DEF CreationTypeOK
  <2>3. QED
    BY <1>1, <2>1, <2>2 DEF CreationTypeOK
<1>3. NamesFresh'
  BY <1>1 DEF NamesFresh
<1>4. AttemptInPlace'
  BY DEF AttemptInPlace
<1>5. OnlyAttemptDangles'
  BY DEF OnlyAttemptDangles
<1>6. RoomForMachine' /\ MachinesAreWhole'
  BY DEF RoomForMachine, MachinesAreWhole
<1>7. QED
  BY <1>2, <1>3, <1>4, <1>5, <1>6

LEMMA GenerateStep ==
  ASSUME CreationPart, GenerateKThreesConfig \/ GenerateFails
  PROVE  CreationPart'
<1> USE DEF GenerateKThreesConfig, GenerateFails, CreationPart
<1>1. attempt \in Attempts /\ attempt \in Nat
  BY AttemptsAreNumbers, AttemptUnderWay
<1>2. CreationTypeOK'
  <2>1. "config" \in Kinds
    BY DEF Kinds
  <2>2. owned' = ({"infra"} \X infra') \cup ({"config"} \X config')
    BY DEF CreationTypeOK
  <2>3. QED
    BY <1>1, <2>1, <2>2 DEF CreationTypeOK
<1>3. NamesFresh'
  BY <1>1 DEF NamesFresh
<1>4. AttemptInPlace'
  BY DEF AttemptInPlace, Kinds
<1>5. OnlyAttemptDangles'
  BY DEF OnlyAttemptDangles
<1>6. RoomForMachine' /\ MachinesAreWhole'
  BY DEF RoomForMachine, MachinesAreWhole
<1>7. QED
  BY <1>2, <1>3, <1>4, <1>5, <1>6

LEMMA CreateStep ==
  ASSUME CreationPart, CreateMachine \/ CreateMachineFails
  PROVE  CreationPart'
<1> USE DEF CreateMachine, CreateMachineFails, CreationPart
<1>1. attempt \in Attempts /\ attempt \in Nat
  BY AttemptsAreNumbers, AttemptUnderWay
<1>2. CreationTypeOK'
  BY <1>1, OneMoreMachine DEF CreationTypeOK
<1>3. NamesFresh'
  BY <1>1 DEF NamesFresh
<1>4. AttemptInPlace'
  BY DEF AttemptInPlace, Kinds
<1>5. OnlyAttemptDangles'
  BY DEF OnlyAttemptDangles
<1>6. RoomForMachine' /\ MachinesAreWhole'
  BY DEF RoomForMachine, MachinesAreWhole, AttemptInPlace
<1>7. QED
  BY <1>2, <1>3, <1>4, <1>5, <1>6

LEMMA CleanupStep ==
  ASSUME CreationPart, CleanupFromGeneration
  PROVE  CreationPart'
<1> USE DEF CleanupFromGeneration, CreationPart
<1>1. CASE refs = {} /\ pc' = "idle" /\ UNCHANGED <<infra, config, owned, refs, marred>>
  BY <1>1 DEF CreationTypeOK, NamesFresh, AttemptInPlace, OnlyAttemptDangles,
              RoomForMachine, MachinesAreWhole
<1>2. ASSUME NEW kind \in refs, refs' = refs \ {kind}, UNCHANGED pc, UNCHANGED <<machine, attempt>>,
             infra' = IF kind = "infra" THEN infra \ {attempt} ELSE infra,
             config' = IF kind = "config" THEN config \ {attempt} ELSE config,
             owned' = owned \ {<<kind, attempt>>},
             UNCHANGED marred, pc = "cleanup"
      PROVE  CreationPart'
  <2>1. kind \in Kinds
    BY <1>2 DEF CreationTypeOK
  <2>2. owned' = ({"infra"} \X infra') \cup ({"config"} \X config')
    BY <1>2, <2>1 DEF CreationTypeOK, Kinds
  <2>3. CreationTypeOK' /\ NamesFresh' /\ RoomForMachine'
    BY <1>2, <2>2 DEF CreationTypeOK, NamesFresh, RoomForMachine
  <2>4. AttemptInPlace'
    BY <1>2, <2>1 DEF AttemptInPlace, Kinds
  <2>5. OnlyAttemptDangles'
    BY <1>2 DEF OnlyAttemptDangles
  <2>6. MachinesAreWhole'
    BY <1>2 DEF MachinesAreWhole, AttemptInPlace
  <2>7. QED
    BY <2>3, <2>4, <2>5, <2>6
<1>3. ASSUME NEW kind \in refs, refs' = refs \ {kind}, UNCHANGED pc, UNCHANGED <<machine, attempt>>,
             Exists(kind), marred' = marred \cup {attempt},
             UNCHANGED <<infra, config, owned>>, pc = "cleanup"
      PROVE  CreationPart'
  <2>1. attempt \in Attempts /\ attempt \in Nat
    BY <1>3, AttemptsAreNumbers DEF Exists, CreationTypeOK
  <2>2. CreationTypeOK' /\ NamesFresh' /\ RoomForMachine'
    BY <1>3, <2>1 DEF CreationTypeOK, NamesFresh, RoomForMachine
  <2>3. AttemptInPlace' /\ OnlyAttemptDangles' /\ MachinesAreWhole'
    BY <1>3 DEF AttemptInPlace, OnlyAttemptDangles, MachinesAreWhole
  <2>4. QED
    BY <2>2, <2>3
<1>4. QED
  BY <1>1, <1>2, <1>3

LEMMA CreationStep ==
  ASSUME CreationPart, CloneConfigsAndGenerateMachine
  PROVE  CreationPart'
<1>1. CASE NothingToCreate
  BY <1>1, CreationBetween DEF NothingToCreate, Goto, Between
<1>2. QED
  BY <1>1, StartStep, CloneStep, GenerateStep, CreateStep, CleanupStep
     DEF CloneConfigsAndGenerateMachine

\* A machine goes, and its objects with it.
LEMMA MachineGoneStep ==
  ASSUME CreationPart, ListPart, NEW m \in Attempts, MachineGone(m)
  PROVE  CreationPart'
<1> USE DEF MachineGone, CreationPart
<1>1. m \in machine
  BY DEF ListPart
<1>2. Cardinality(machine') <= Replicas + 1 /\ (RoomForMachine => RoomForMachine')
  <2>1. IsFiniteSet(machine) /\ Cardinality(machine) \in Nat
    BY AttemptsAreNumbers DEF CreationTypeOK
  <2>2. Cardinality(machine \ {m}) = Cardinality(machine) - 1
    BY <1>1, <2>1, FS_RemoveElement
  <2>3. QED
    BY <2>1, <2>2, CreationAssumption DEF CreationTypeOK, RoomForMachine
<1>3. CreationTypeOK'
  <2>1. owned' = ({"infra"} \X infra') \cup ({"config"} \X config')
    BY DEF CreationTypeOK, Kinds
  <2>2. QED
    BY <1>2, <2>1 DEF CreationTypeOK
<1>4. NamesFresh' /\ MachinesAreWhole' /\ OnlyAttemptDangles'
  BY DEF NamesFresh, MachinesAreWhole, OnlyAttemptDangles
<1>5. AttemptInPlace'
  BY <1>1 DEF AttemptInPlace
<1>6. QED
  BY <1>2, <1>3, <1>4, <1>5

\* The garbage collector takes what belongs to no machine, when nothing is made.
LEMMA CollectStep ==
  ASSUME CreationPart, LifePart, pc \in Steps, GarbageCollect
  PROVE  CreationPart'
<1>1. pc \in Between
  BY DEF GarbageCollect, LifePart, FinalizerHolds, Steps, Between
<1>2. /\ infra' \subseteq infra /\ config' \subseteq config
      /\ infra \cap machine \subseteq infra' /\ config \cap machine \subseteq config'
      /\ UNCHANGED <<machine, attempt, pc, refs, marred>>
  BY DEF GarbageCollect
<1>3. CreationTypeOK' /\ NamesFresh'
  <2>1. owned = ({"infra"} \X infra) \cup ({"config"} \X config)
    BY DEF CreationPart, CreationTypeOK
  <2>2. CASE UNCHANGED <<infra, config, owned>>
    BY <1>2, <2>2 DEF CreationPart, CreationTypeOK, NamesFresh
  <2>3. ASSUME NEW kind \in Kinds, NEW a \in Attempts,
               infra' = IF kind = "infra" THEN infra \ {a} ELSE infra,
               config' = IF kind = "config" THEN config \ {a} ELSE config,
               owned' = owned \ {<<kind, a>>}
        PROVE  CreationTypeOK' /\ NamesFresh'
    <3>1. owned' = ({"infra"} \X infra') \cup ({"config"} \X config')
      <4>1. CASE kind = "infra"
        BY <2>1, <2>3, <4>1
      <4>2. CASE kind = "config"
        BY <2>1, <2>3, <4>2
      <4>3. QED
        BY <2>3, <4>1, <4>2 DEF Kinds
    <3>2. QED
      BY <1>2, <3>1 DEF CreationPart, CreationTypeOK, NamesFresh
  <2>4. QED
    BY <2>2, <2>3 DEF GarbageCollect
<1>4. AttemptInPlace' /\ RoomForMachine'
  BY <1>1, <1>2 DEF AttemptInPlace, RoomForMachine, Between
<1>5. OnlyAttemptDangles' /\ MachinesAreWhole'
  BY <1>2 DEF CreationPart, OnlyAttemptDangles, MachinesAreWhole
<1>6. QED
  BY <1>3, <1>4, <1>5 DEF CreationPart

\* A crash leaves the objects of an attempt that was under way.
LEMMA CrashStep ==
  ASSUME CreationPart, Crash
  PROVE  CreationPart'
<1> USE DEF Crash, CreationPart
<1>1. pc \in {"generate", "create", "cleanup"} => attempt \in Attempts /\ attempt \in Nat
  BY AttemptsAreNumbers, AttemptUnderWay
<1>2. CreationTypeOK' /\ NamesFresh'
  BY <1>1 DEF CreationTypeOK, NamesFresh
<1>3. AttemptInPlace' /\ RoomForMachine' /\ MachinesAreWhole'
  BY DEF AttemptInPlace, RoomForMachine, MachinesAreWhole
<1>4. OnlyAttemptDangles'
  BY DEF OnlyAttemptDangles
<1>5. QED
  BY <1>2, <1>3, <1>4

-----------------------------------------------------------------------------
(* The control plane and its cached copy.                                    *)

LEMMA LifeUnchanged ==
  ASSUME LifePart, UNCHANGED <<kcp, kcpCache, pc>>
  PROVE  LifePart'
BY DEF LifePart, FinalizerHolds

\* The reconciliation goes on, or ends; it never turns into a deletion.
LEMMA LifeOnward ==
  ASSUME LifePart, UNCHANGED <<kcp, kcpCache>>,
         pc' = "idle" \/ (pc \in {"reconcile", "clone", "generate", "create", "cleanup"}
                           /\ pc' \in {"clone", "generate", "create", "cleanup"})
  PROVE  LifePart'
BY DEF LifePart, FinalizerHolds

LEMMA CreationGoesOn ==
  ASSUME CloneConfigsAndGenerateMachine
  PROVE  /\ pc \in {"reconcile", "clone", "generate", "create", "cleanup"}
         /\ pc' \in {"idle", "clone", "generate", "create", "cleanup"}
BY DEF CloneConfigsAndGenerateMachine, Start, NothingToCreate, CloneInfrastructure, CloneFails,
       GenerateKThreesConfig, GenerateFails, CreateMachine, CreateMachineFails,
       CleanupFromGeneration

\* What the cache says of the finalizer holds as long as it shows no deletion.
LEMMA StartReconcileLife ==
  ASSUME LifePart, StartReconcile
  PROVE  LifePart'
BY DEF LifePart, FinalizerHolds, StartReconcile, Goto, deletionVars

LEMMA UserDeletesLife ==
  ASSUME LifePart, UserDeletes
  PROVE  LifePart'
BY DEF LifePart, FinalizerHolds, UserDeletes, ControlPlanes, creationVars

LEMMA AddFinalizerLife ==
  ASSUME LifePart, AddFinalizer
  PROVE  LifePart'
BY DEF LifePart, FinalizerHolds, AddFinalizer, ControlPlanes, creationVars

LEMMA PatchLife ==
  ASSUME LifePart, PatchKThreesControlPlane
  PROVE  LifePart'
BY DEF LifePart, FinalizerHolds, PatchKThreesControlPlane, ControlPlanes, Goto

\* The cache catches up: it shows a deletion that it showed before.
LEMMA DeliverLife ==
  ASSUME LifePart, kcpCache' = kcp, kcp' = kcp, pc' \in {pc, "idle"}
  PROVE  LifePart'
BY DEF LifePart, FinalizerHolds

-----------------------------------------------------------------------------
(* The lists.                                                                *)

LEMMA ListUnchanged ==
  ASSUME ListPart, UNCHANGED <<machine, attempt, deleting, workers, spare, listed, seen, faults>>,
         pc' = pc \/ pc' \in Between
  PROVE  ListPart'
BY DEF ListPart, ListShowsSeen, Between

\* The name of a new machine is one that the list has not shown.
LEMMA ListCreation ==
  ASSUME ListPart, CreationPart, CloneConfigsAndGenerateMachine,
         UNCHANGED <<deleting, workers, spare, listed, seen, faults>>
  PROVE  ListPart'
<1>1. machine \subseteq machine' /\ machine' \subseteq machine \cup {attempt}
  BY DEF CloneConfigsAndGenerateMachine, Start, NothingToCreate, CloneInfrastructure, CloneFails,
         GenerateKThreesConfig, GenerateFails, CreateMachine, CreateMachineFails,
         CleanupFromGeneration
<1>2. machine' # machine => pc = "create"
  BY DEF CloneConfigsAndGenerateMachine, Start, NothingToCreate, CloneInfrastructure, CloneFails,
         GenerateKThreesConfig, GenerateFails, CreateMachine, CreateMachineFails,
         CleanupFromGeneration
<1>3. machine' \cap seen.machines = machine \cap seen.machines
  BY <1>1, <1>2 DEF ListPart, ListShowsSeen
<1>4. attempt \in Nat /\ \A m \in seen.machines : m \in Nat
  BY AttemptsAreNumbers DEF CreationPart, CreationTypeOK, ListPart, Lists
<1>5. \A m \in seen.machines :
        m <= attempt' /\ (pc' \in {"clone", "generate", "create"} => m # attempt')
  <2>1. CASE Start
    BY <1>4, <2>1 DEF Start, ListPart, ListShowsSeen
  <2>2. CASE ~Start
    <3>1. attempt' = attempt
      BY <2>2 DEF CloneConfigsAndGenerateMachine, NothingToCreate, CloneInfrastructure, CloneFails,
             GenerateKThreesConfig, GenerateFails, CreateMachine, CreateMachineFails,
             CleanupFromGeneration
    <3>2. pc' \in {"clone", "generate", "create"} => pc \in {"clone", "generate", "create"}
      BY <2>2 DEF CloneConfigsAndGenerateMachine, NothingToCreate, CloneInfrastructure, CloneFails,
             GenerateKThreesConfig, GenerateFails, CreateMachine, CreateMachineFails,
             CleanupFromGeneration
    <3>3. QED
      BY <3>1, <3>2 DEF ListPart, ListShowsSeen
  <2>3. QED
    BY <2>1, <2>2
<1>6. ListShowsSeen'
  BY <1>3, <1>5 DEF ListPart, ListShowsSeen
<1>7. QED
  BY <1>1, <1>6 DEF ListPart

\* A list that is as new as the cluster.
LEMMA ListedAnew ==
  ASSUME ListPart, CreationPart, ListMachines,
         UNCHANGED <<machine, attempt, deleting, workers, spare>>, faults' \in 0 .. MaxFaults,
         pc' \in {pc, "idle"}
  PROVE  ListPart'
<1>1. listed'.machines = machine /\ listed'.workers = workers
  BY DEF CurrentList, ListMachines
<1>2. /\ seen'.machines = seen.machines \cup machine
      /\ seen'.workers = seen.workers \cup workers
  BY DEF ListMachines
<1>3. listed' \in Lists /\ seen' \in Lists
  BY DEF ListMachines, CurrentList, Lists, ListPart, CreationPart, CreationTypeOK
<1>4. spare' \cap (workers' \cup seen'.workers) = {}
  BY <1>2 DEF ListPart, ListShowsSeen
<1>5. \A m \in seen'.machines :
        m <= attempt' /\ (pc' \in {"clone", "generate", "create"} => m # attempt')
  BY <1>2 DEF ListPart, ListShowsSeen, CreationPart, NamesFresh, AttemptInPlace
<1>6. ListShowsSeen'
  BY <1>1, <1>4, <1>5 DEF ListShowsSeen
<1>7. QED
  BY <1>3, <1>6 DEF ListPart

LEMMA FaultCounted ==
  ASSUME ListPart, Fault
  PROVE  faults' \in 0 .. MaxFaults
BY DeletionAssumption DEF ListPart, Fault

-----------------------------------------------------------------------------

LEMMA InitHolds == Init => IInv
<1> SUFFICES ASSUME Init PROVE IInv
  OBVIOUS
<1>1. CreationPart
  <2>1. Cardinality({}) <= Replicas + 1
    BY FS_EmptySet, CreationAssumption
  <2>2. QED
    BY <2>1 DEF Init, CreationInit, CreationPart, CreationTypeOK, NamesFresh, AttemptInPlace,
                OnlyAttemptDangles, RoomForMachine, MachinesAreWhole
<1>2. LifePart
  BY DEF Init, CreationInit, LifePart, FinalizerHolds, ControlPlanes
<1>3. ListPart
  BY DeletionAssumption DEF Init, CreationInit, ListPart, ListShowsSeen, Lists, CurrentList
<1>4. pc \in Steps
  BY DEF Init, CreationInit, Steps
<1>5. QED
  BY <1>1, <1>2, <1>3, <1>4, Parts

LEMMA ControllerStep ==
  ASSUME IInv, Controller
  PROVE  IInv'
<1>1. CreationPart /\ LifePart /\ ListPart /\ pc \in Steps
  BY Parts
<1>2. CASE AddFinalizer
  <2>1. UNCHANGED <<creationVars, machine, attempt, pc, deleting, workers, spare, listed, seen, faults>>
    BY <1>2 DEF AddFinalizer, creationVars
  <2>2. QED
    BY <1>1, <1>2, <2>1, CreationUnchanged, AddFinalizerLife, ListUnchanged, PartsNext
<1>3. CASE StartReconcile
  <2>1. /\ UNCHANGED <<machine, attempt, deleting, workers, spare, listed, seen, faults>>
        /\ pc' \in Steps /\ pc' \in Between
    BY <1>3 DEF StartReconcile, Goto, deletionVars, Steps, Between
  <2>2. CreationPart'
    BY <1>1, <1>3, CreationBetween DEF StartReconcile, Between
  <2>3. QED
    BY <1>1, <1>3, <2>1, <2>2, StartReconcileLife, ListUnchanged, PartsNext
<1>4. CASE CreateMachines
  <2>1. /\ CloneConfigsAndGenerateMachine
        /\ UNCHANGED <<kcp, kcpCache, deleting, workers, spare, listed, seen, faults>>
    BY <1>4 DEF CreateMachines, deletionVars
  <2>2. LifePart' /\ pc' \in Steps
    BY <1>1, <2>1, CreationGoesOn, LifeOnward DEF Steps
  <2>3. QED
    BY <1>1, <2>1, <2>2, CreationStep, ListCreation, PartsNext
<1>5. CASE WaitForWorkers \/ DeleteMachines \/ PatchFails
  <2>1. pc \in Between /\ Goto("idle") /\ UNCHANGED <<kcp, kcpCache, workers, spare, listed, seen>>
    BY <1>5 DEF WaitForWorkers, DeleteMachines, PatchFails, Between, deletionVars
  <2>2. CreationPart' /\ LifePart' /\ pc' \in Steps /\ UNCHANGED <<machine, attempt>> /\ pc' = "idle"
    BY <1>1, <2>1, CreationBetween, LifeOnward DEF Between, Goto, Steps
  <2>3. faults' \in 0 .. MaxFaults
    BY <1>1, <1>5, FaultCounted DEF WaitForWorkers, DeleteMachines, PatchFails, deletionVars, ListPart
  <2>4. deleting' \subseteq machine
    BY <1>1, <1>5 DEF WaitForWorkers, DeleteMachines, PatchFails, deletionVars, ListPart
  <2>5. ListPart'
    BY <1>1, <2>1, <2>2, <2>3, <2>4 DEF ListPart, ListShowsSeen
  <2>6. QED
    BY <2>2, <2>5, PartsNext
<1>6. CASE RemoveFinalizer
  <2>1. /\ UNCHANGED <<machine, attempt, kcp, kcpCache, deleting, workers, spare, listed, seen, faults>>
        /\ pc' \in Steps /\ pc' \in Between
    BY <1>6 DEF RemoveFinalizer, Goto, deletionVars, Steps, Between
  <2>2. CreationPart'
    BY <1>1, <1>6, CreationBetween DEF RemoveFinalizer, Between
  <2>3. LifePart'
    BY <1>1, <1>6, <2>1 DEF RemoveFinalizer, Goto, LifePart, FinalizerHolds
  <2>4. QED
    BY <1>1, <2>1, <2>2, <2>3, ListUnchanged, PartsNext
<1>7. CASE PatchKThreesControlPlane
  <2>1. /\ UNCHANGED <<machine, attempt, deleting, workers, spare, listed, seen, faults>>
        /\ pc' \in Steps /\ pc' \in Between
    BY <1>7 DEF PatchKThreesControlPlane, Goto, Steps, Between
  <2>2. CreationPart'
    BY <1>1, <1>7, CreationBetween DEF PatchKThreesControlPlane, Between
  <2>3. QED
    BY <1>1, <1>7, <2>1, <2>2, PatchLife, ListUnchanged, PartsNext
<1>8. QED
  BY <1>2, <1>3, <1>4, <1>5, <1>6, <1>7 DEF Controller

LEMMA CrashPreserves ==
  ASSUME IInv, Crash
  PROVE  IInv'
<1>1. CreationPart /\ LifePart /\ ListPart /\ pc \in Steps
  BY Parts
<1>2. CreationPart'
  BY <1>1, CrashStep
<1>3. LifePart'
  BY <1>1, DeliverLife DEF Crash
<1>4. ListPart'
  BY <1>1, FaultCounted, ListedAnew DEF Crash
<1>5. QED
  BY <1>2, <1>3, <1>4, PartsNext DEF Crash, Steps

LEMMA WorldStep ==
  ASSUME IInv, World
  PROVE  IInv'
<1>1. CreationPart /\ LifePart /\ ListPart /\ pc \in Steps
  BY Parts
<1>2. CASE UserDeletes
  <2>1. UNCHANGED <<creationVars, machine, attempt, pc, deleting, workers, spare, listed, seen, faults>>
    BY <1>2 DEF UserDeletes, creationVars
  <2>2. QED
    BY <1>1, <1>2, <2>1, CreationUnchanged, UserDeletesLife, ListUnchanged, PartsNext
<1>3. ASSUME NEW w \in Workers, WorkerMade(w) \/ WorkerGone(w) PROVE IInv'
  <2>1. UNCHANGED <<creationVars, machine, attempt, pc, kcp, kcpCache>>
    BY <1>3 DEF WorkerMade, WorkerGone, creationVars
  <2>2. ListPart'
    BY <1>1, <1>3, <2>1 DEF WorkerMade, WorkerGone, ListPart, ListShowsSeen
  <2>3. QED
    BY <1>1, <2>1, <2>2, CreationUnchanged, LifeUnchanged, PartsNext
<1>4. ASSUME NEW m \in Attempts, MachineDeleted(m) PROVE IInv'
  <2>1. UNCHANGED <<creationVars, machine, attempt, pc, kcp, kcpCache>>
    BY <1>4 DEF MachineDeleted, creationVars
  <2>2. ListPart'
    BY <1>1, <1>4, <2>1 DEF MachineDeleted, ListPart, ListShowsSeen
  <2>3. QED
    BY <1>1, <2>1, <2>2, CreationUnchanged, LifeUnchanged, PartsNext
<1>5. ASSUME NEW m \in Attempts, MachineGone(m) PROVE IInv'
  <2>1. ListPart'
    BY <1>1, <1>5 DEF MachineGone, ListPart, ListShowsSeen
  <2>2. LifePart' /\ pc' \in Steps
    BY <1>1, <1>5, LifeUnchanged DEF MachineGone
  <2>3. QED
    BY <1>1, <1>5, <2>1, <2>2, MachineGoneStep, PartsNext
<1>6. CASE GarbageCollect
  <2>1. ListPart'
    BY <1>1, <1>6 DEF GarbageCollect, ListPart, ListShowsSeen
  <2>2. LifePart' /\ pc' \in Steps
    BY <1>1, <1>6, LifeUnchanged DEF GarbageCollect
  <2>3. QED
    BY <1>1, <1>6, <2>1, <2>2, CollectStep, PartsNext
<1>7. CASE DeliverMachines
  <2>1. UNCHANGED <<creationVars, machine, attempt, pc, kcp, kcpCache, deleting, workers, spare, faults>>
    BY <1>7 DEF DeliverMachines, creationVars
  <2>2. ListPart'
    BY <1>1, <1>7, <2>1, ListedAnew DEF DeliverMachines, ListPart
  <2>3. QED
    BY <1>1, <2>1, <2>2, CreationUnchanged, LifeUnchanged, PartsNext
<1>8. CASE DeliverKCP
  <2>1. UNCHANGED <<creationVars, machine, attempt, pc, kcp, deleting, workers, spare, listed, seen, faults>>
    BY <1>8 DEF DeliverKCP, creationVars
  <2>2. LifePart'
    BY <1>1, <1>8, <2>1, DeliverLife DEF DeliverKCP
  <2>3. QED
    BY <1>1, <2>1, <2>2, CreationUnchanged, ListUnchanged, PartsNext
<1>9. QED
  BY <1>2, <1>3, <1>4, <1>5, <1>6, <1>7, <1>8 DEF World

LEMMA StepPreserves == IInv /\ [Next]_vars => IInv'
<1> SUFFICES ASSUME IInv, [Next]_vars PROVE IInv'
  OBVIOUS
<1>1. CASE UNCHANGED vars
  <2>1. /\ UNCHANGED <<creationVars, machine, attempt, pc, kcp, kcpCache>>
        /\ UNCHANGED <<deleting, workers, spare, listed, seen, faults>>
    BY <1>1 DEF vars, creationVars, deletionVars
  <2>2. QED
    BY <2>1, CreationUnchanged, LifeUnchanged, ListUnchanged, Parts, PartsNext
<1>2. QED
  BY <1>1, ControllerStep, CrashPreserves, WorldStep DEF Next, Done

LEMMA Inductive == Spec => []IInv
BY InitHolds, StepPreserves, PTL DEF Spec

-----------------------------------------------------------------------------

(* Every infrastructure machine and configuration is owned by the control      *)
(* plane as long as it exists, there is at most one machine more than replicas, *)
(* machines in deletion exist, and the cache shows no deletion that nobody      *)
(* asked for, whatever answers are lost (cloneConfigsAndGenerateMachine,       *)
(* upgradeControlPlane).                                                      *)
THEOREM TypeCorrect == Spec => []TypeOK
<1>1. IInv => TypeOK
  BY DEF IInv
<1>2. QED
  BY <1>1, Inductive, PTL

(* Between two reconciliations every infrastructure machine and configuration  *)
(* belongs to a machine, except where a cleanup failed, an answer was lost or  *)
(* the controller crashed (cloneConfigsAndGenerateMachine,                     *)
(* cleanupFromGeneration).                                                   *)
THEOREM NothingIsLeftDangling == Spec => []NothingDangles
<1>1. IInv => NothingDangles
  BY DEF IInv, OnlyAttemptDangles, NothingDangles
<1>2. QED
  BY <1>1, Inductive, PTL

(* A machine keeps the objects it refers to as long as it exists: no cleanup   *)
(* of another attempt and no garbage collection takes them away.               *)
THEOREM MachinesStayWhole == Spec => []MachinesAreWhole
<1>1. IInv => MachinesAreWhole
  BY DEF IInv
<1>2. QED
  BY <1>1, Inductive, PTL

(* No machine is made for a control plane that is gone, although every         *)
(* reconciliation works on a cached copy: the finalizer is on before the first *)
(* machine is made, and only a reconciliation that saw the deletion takes it    *)
(* off (Reconcile, reconcileDelete).                                         *)
THEOREM NoMachineAfterTheEnd == Spec => NoMachineForDeletedControlPlane
<1>1. IInv /\ [Next]_vars => [machine' \ machine # {} => kcp.there]_vars
  <2> SUFFICES ASSUME IInv, Next, machine' \ machine # {} PROVE kcp.there
    OBVIOUS
  <2>1. CloneConfigsAndGenerateMachine
    BY DEF Next, Controller, AddFinalizer, StartReconcile, Goto, CreateMachines, WaitForWorkers,
           DeleteMachines, RemoveFinalizer, PatchKThreesControlPlane, PatchFails, Crash, World,
           UserDeletes, WorkerMade, WorkerGone, MachineDeleted, MachineGone, GarbageCollect, DeliverMachines,
           DeliverKCP, Done, vars, creationVars
  <2>2. QED
    BY <2>1, CreationGoesOn DEF IInv, FinalizerHolds
<1>2. QED
  BY <1>1, Inductive, PTL DEF Spec, NoMachineForDeletedControlPlane

(* reconcileDelete puts no machine into deletion while a worker machine exists  *)
(* that its list has shown, and takes the finalizer off only when no machine     *)
(* exists that its list has shown: an old list overlooks what is new and nothing *)
(* else, as a name is never used again.                                         *)
THEOREM ReconcileDeleteKeepsOrder == Spec => DeletedInOrder
<1>1. IInv /\ [Next]_vars =>
        [pc = "delete" =>
           /\ deleting' # deleting /\ pc' = "idle" => workers \cap seen.workers = {}
           /\ pc' = "finalize" => machine \cap seen.machines = {}]_vars
  <2> SUFFICES ASSUME IInv, Next, pc = "delete"
               PROVE  /\ deleting' # deleting /\ pc' = "idle" => workers \cap seen.workers = {}
                      /\ pc' = "finalize" => machine \cap seen.machines = {}
    OBVIOUS
  <2>1. ~CloneConfigsAndGenerateMachine
    BY CreationGoesOn
  <2>2. ASSUME deleting' # deleting, pc' = "idle" PROVE workers \cap seen.workers = {}
    <3>1. DeleteMachines
      BY <2>1, <2>2 DEF Next, Controller, AddFinalizer, StartReconcile, Goto, CreateMachines,
             WaitForWorkers, RemoveFinalizer, PatchKThreesControlPlane, PatchFails, Crash, World,
             UserDeletes, WorkerMade, WorkerGone, MachineDeleted, MachineGone, GarbageCollect,
             DeliverMachines, DeliverKCP, Done, vars, creationVars, deletionVars
    <3>2. QED
      BY <3>1 DEF DeleteMachines, IInv, ListShowsSeen
  <2>3. ASSUME pc' = "finalize" PROVE machine \cap seen.machines = {}
    <3>1. RemoveFinalizer
      BY <2>1, <2>3 DEF Next, Controller, AddFinalizer, StartReconcile, Goto, CreateMachines,
             WaitForWorkers, DeleteMachines, PatchKThreesControlPlane, PatchFails, Crash, World,
             UserDeletes, WorkerMade, WorkerGone, MachineDeleted, MachineGone, GarbageCollect,
             DeliverMachines, DeliverKCP, Done, vars, creationVars, deletionVars
    <3>2. QED
      BY <3>1 DEF RemoveFinalizer, NoMachinesLeft, IInv, ListShowsSeen
  <2>4. QED
    BY <2>2, <2>3
<1>2. QED
  BY <1>1, Inductive, PTL DEF Spec, DeletedInOrder
=============================================================================
