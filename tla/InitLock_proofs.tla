--------------------------- MODULE InitLock_proofs ---------------------------
(***************************************************************************)
(* Proofs about InitLock for every set of machines, any number of workers of *)
(* the controller, any lag of its caches and any number of faults.  The lock  *)
(* is safe up to the first of the races that slipped records, and the run    *)
(* init_lock_race shows that it is not safe after it.                       *)
(***************************************************************************)
EXTENDS InitLock, TLAPS

(* A one-element watch is a watch.                                          *)
LEMMA SingletonSeq ==
  ASSUME NEW S, NEW v \in S
  PROVE  <<v>> \in Seq(S) /\ <<v>> # <<>> /\ Len(<<v>>) = 1
OBVIOUS

(* What WriteLock leaves in the watch.                                      *)
LEMMA WriteLockType ==
  ASSUME TypeOK, NEW v \in ControlPlaneMachines \cup {NoLock}, WriteLock(v)
  PROVE  lockWatch' \in Seq(ControlPlaneMachines \cup {NoLock}) /\ lockWatch' # <<>>
<1>1. CASE MaxLag = 0
  BY <1>1, SingletonSeq DEF WriteLock
<1>2. CASE MaxLag # 0
  BY <1>2 DEF WriteLock, TypeOK
<1>3. QED
  BY <1>1, <1>2

(* The stored value is a machine name or NoLock.                            *)
LEMMA StoredType ==
  ASSUME TypeOK
  PROVE  Stored \in ControlPlaneMachines \cup {NoLock}
BY DEF TypeOK, Stored

(* TypeOK is preserved by every step, for any concurrency and any lag.      *)
LEMMA TypeStep == TypeOK /\ [Next]_vars => TypeOK'
<1> SUFFICES ASSUME TypeOK, [Next]_vars
             PROVE  TypeOK'
  OBVIOUS
<1> USE ConstantsAssumption DEF Goto, GotoReading, world, Steps, NoRead, Slip
<1>1. ASSUME NEW c \in Configs, StartReconcile(c) PROVE TypeOK'
  <2>1. \/ Start(c, "joinGet")
        \/ Start(c, "lockGet") /\ c \in ControlPlaneMachines
    BY <1>1 DEF StartReconcile
  <2>2. UNCHANGED <<world, lockWatch, secret, ready, readyCache, faults, slipped>>
    BY <1>1 DEF StartReconcile
  <2>3. QED
    BY <2>1, <2>2 DEF TypeOK, Configs, Start
<1>2. ASSUME NEW c \in Configs, RestoreStatus(c) PROVE TypeOK'
  BY <1>2 DEF RestoreStatus, Observe, TypeOK
<1>3. ASSUME NEW c \in Configs, LockGet(c) PROVE TypeOK'
  <2>1. Cached \in ControlPlaneMachines \cup {NoLock}
    BY DEF TypeOK, Cached
  <2>2. c \in ControlPlaneMachines
    BY <1>3 DEF LockGet, TypeOK, Configs
  <2>3. UNCHANGED <<world, lockWatch, secret, ready, readyCache, faults>>
    BY <1>3 DEF LockGet
  <2>4. slipped' \in BOOLEAN
    BY <1>3 DEF LockGet, TypeOK, LateGrant
  <2>5. \/ \E step \in {"lockCreate", "storeInit", "idle"} : Goto(c, step)
        \/ Steal(c)
    BY <1>3 DEF LockGet, Granted
  <2>6. /\ pc' \in [Configs -> Steps]
        /\ \A w \in WorkerMachines : pc'[w] \notin {"lockGet", "lockCreate"}
    BY <2>2, <2>5 DEF TypeOK, Steal, Configs
  <2>7. read' \in [Configs -> [init : BOOLEAN, holder : ControlPlaneMachines \cup {NoLock}]]
    <3>1. read[c].init \in BOOLEAN
      BY DEF TypeOK
    <3>2. CASE \E step \in {"lockCreate", "storeInit", "idle"} : Goto(c, step)
      BY <3>2 DEF TypeOK
    <3>3. CASE Steal(c)
      BY <3>1, <3>3, <2>1 DEF TypeOK, Steal
    <3>4. QED
      BY <2>5, <3>2, <3>3
  <2>8. QED
    BY <2>3, <2>4, <2>6, <2>7 DEF TypeOK
<1>4. ASSUME NEW c \in Configs, LockCreate(c) PROVE TypeOK'
  <2>1. c \in ControlPlaneMachines
    BY <1>4 DEF LockCreate, TypeOK, Configs
  <2>2. lockWatch' \in Seq(ControlPlaneMachines \cup {NoLock}) /\ lockWatch' # <<>>
    BY <1>4, <2>1, WriteLockType DEF LockCreate, TypeOK
  <2>3. /\ \E step \in {"storeInit", "idle"} : Goto(c, step)
        /\ UNCHANGED <<world, secret, ready, readyCache, faults>>
        /\ slipped' \in BOOLEAN
    BY <1>4 DEF LockCreate, Granted, LateGrant, TypeOK
  <2>4. QED
    BY <2>2, <2>3 DEF TypeOK
<1>5. ASSUME NEW c \in Configs, Unlock(c) PROVE TypeOK'
  <2>1. lockWatch' \in Seq(ControlPlaneMachines \cup {NoLock}) /\ lockWatch' # <<>>
    BY <1>5, WriteLockType DEF Unlock, UnlockGet, UnlockDelete, TypeOK
  <2>2. /\ UNCHANGED <<world, secret, ready, readyCache, faults>>
        /\ \E step \in {"stealDelete", "idle", "joinDelete", "storeJoin", "failDelete"} :
             Goto(c, step)
        /\ slipped' \in BOOLEAN
    BY <1>5 DEF Unlock, UnlockGet, UnlockDelete, TypeOK
  <2>3. QED
    BY <2>1, <2>2 DEF TypeOK
<1>6. ASSUME NEW c \in Configs, HandleClusterNotInitialized(c) \/ JoinCluster(c)
      PROVE  TypeOK'
  <2>1. ASSUME NEW from, NEW data \in {"init", "join"}, StoreBootstrapData(c, from, data)
        PROVE  TypeOK'
    BY <2>1 DEF StoreBootstrapData, Store, TypeOK
  <2>2. QED
    BY <1>6, <2>1 DEF HandleClusterNotInitialized, JoinCluster
<1>7. ASSUME NEW c \in Configs, PatchConfig(c) PROVE TypeOK'
  BY <1>7 DEF PatchConfig, Observe, TypeOK
<1>8. ASSUME NEW c \in Configs, CallFails(c) PROVE TypeOK'
  <2>1. pc[c] = "lockCreate" => c \in ControlPlaneMachines
    BY DEF TypeOK, Configs
  <2>2. lockWatch' \in Seq(ControlPlaneMachines \cup {NoLock}) /\ lockWatch' # <<>>
    BY <1>8, <2>1, WriteLockType DEF CallFails, TypeOK
  <2>3. /\ secret' \in [Configs -> {"none", "init", "join"}]
        /\ UNCHANGED <<world, ready, readyCache, slipped>>
        /\ faults' \in 0 .. MaxFaults
    BY <1>8 DEF CallFails, Store, Fault, TypeOK
  <2>4. \E step \in {"idle", "storeJoin", "failGet"} : Goto(c, step)
    BY <1>8 DEF CallFails
  <2>5. QED
    BY <2>2, <2>3, <2>4 DEF TypeOK
<1>9. ASSUME NEW c \in Configs, CreateMachine(c) PROVE TypeOK'
  BY <1>9 DEF CreateMachine, Observe, Holders, TypeOK
<1>10. ASSUME NEW c \in Configs, DeleteMachine(c) PROVE TypeOK'
  BY <1>10 DEF DeleteMachine, Observe, Holders, TypeOK
<1>11. ASSUME NEW c \in Configs, Platform(c) PROVE TypeOK'
  BY <1>11 DEF Platform, SetDataSecretName, Boot, TypeOK
<1>13. ASSUME NEW c \in Configs, Deliver(c) PROVE TypeOK'
  BY <1>13 DEF Deliver, DeliverMachine, DeliverConfig, Holders, TypeOK
<1>12. ASSUME NEW lost, StartAgain(lost) PROVE TypeOK'
  <2>1. lockWatch' \in Seq(ControlPlaneMachines \cup {NoLock}) /\ lockWatch' # <<>>
    BY <1>12, StoredType, SingletonSeq DEF StartAgain
  <2>2. /\ pc' \in [Configs -> Steps]
        /\ \A c \in WorkerMachines : pc'[c] \notin {"lockGet", "lockCreate"}
        /\ read' \in [Configs -> [init : BOOLEAN, holder : ControlPlaneMachines \cup {NoLock}]]
    BY <1>12 DEF StartAgain, Configs
  <2>3. QED
    BY <1>12, <2>1, <2>2 DEF StartAgain, Fault, Holders, TypeOK
<1>14. CASE Restart \/ Restore
  BY <1>12, <1>14 DEF Restart, Restore
<1>15. CASE MarkInitialized
  BY <1>15 DEF MarkInitialized, Observe, TypeOK
<1>16. CASE DeliverLock
  <2>1. lockWatch' \in Seq(ControlPlaneMachines \cup {NoLock}) /\ Len(lockWatch') > 0
    BY <1>16 DEF DeliverLock, TypeOK
  <2>2. lockWatch' # <<>>
    BY <2>1
  <2>3. QED
    BY <1>16, <2>1, <2>2 DEF DeliverLock, TypeOK
<1>17. CASE DeliverCluster
  BY <1>17 DEF DeliverCluster, TypeOK
<1>18. CASE UNCHANGED vars
  BY <1>18 DEF vars, TypeOK
<1>19. QED
  BY <1>1, <1>2, <1>3, <1>4, <1>5, <1>6, <1>7, <1>8, <1>9, <1>10, <1>11, <1>12,
     <1>13, <1>14, <1>15, <1>16, <1>17, <1>18 DEF Next, Reconcile

(* The initial states have the right types.                                 *)
LEMMA TypeInit == Init => TypeOK
<1> SUFFICES ASSUME Init PROVE TypeOK
  OBVIOUS
<1>1. lockWatch \in Seq(ControlPlaneMachines \cup {NoLock}) /\ lockWatch # <<>>
  BY SingletonSeq DEF Init
<1>2. /\ pc \in [Configs -> Steps]
      /\ \A c \in WorkerMachines : pc[c] \notin {"lockGet", "lockCreate"}
  BY DEF Init, Steps, Configs
<1>3. /\ secret \in [Configs -> {"none", "init", "join"}]
      /\ role \in [Configs -> {"none", "init", "join"}]
  BY DEF Init
<1>4. initialized \in BOOLEAN /\ initCache \in BOOLEAN
  BY DEF Init
<1>5. faults \in 0 .. MaxFaults
  BY ConstantsAssumption DEF Init
<1>8. read \in [Configs -> [init : BOOLEAN, holder : ControlPlaneMachines \cup {NoLock}]]
  BY DEF Init, NoRead
<1>9. slipped \in BOOLEAN
  BY DEF Init
<1>6. /\ created \subseteq Configs /\ exists \subseteq created
      /\ machineCache \subseteq Holders(created) /\ ready \subseteq exists
      /\ readyCache \subseteq ready /\ dataSecret \subseteq exists
  BY DEF Init
<1>7. QED
  BY <1>1, <1>2, <1>3, <1>4, <1>5, <1>6, <1>8, <1>9 DEF TypeOK

(* Any concurrency, any lag: the lock names a control plane machine or       *)
(* nobody, and a worker never gets as far as Lock.                          *)
THEOREM TypeCorrect == Spec => []TypeOK
BY TypeInit, TypeStep, PTL DEF Spec
-----------------------------------------------------------------------------
(* The lock, up to the first race.                                          *)

(* The new value is the last one of the watch, and the other values of the   *)
(* watch were there before.                                                 *)
LEMMA WriteLockStored ==
  ASSUME TypeOK, NEW v \in ControlPlaneMachines \cup {NoLock}, WriteLock(v)
  PROVE  /\ Stored' = v
         /\ \A i \in 1 .. Len(lockWatch') :
              lockWatch'[i] = v \/ \E k \in 1 .. Len(lockWatch) : lockWatch'[i] = lockWatch[k]
<1> DEFINE S == ControlPlaneMachines \cup {NoLock}
<1>1. CASE MaxLag = 0
  <2>1. lockWatch' = <<v>>
    BY <1>1 DEF WriteLock
  <2>2. Len(lockWatch') = 1 /\ lockWatch'[1] = v
    BY <2>1
  <2>3. QED
    BY <2>2 DEF Stored
<1>2. CASE MaxLag # 0
  <2>1. lockWatch \in Seq(S) /\ lockWatch' = Append(lockWatch, v)
    BY <1>2 DEF WriteLock, TypeOK
  <2>2. /\ Len(lockWatch') = Len(lockWatch) + 1
        /\ lockWatch'[Len(lockWatch) + 1] = v
        /\ \A i \in 1 .. Len(lockWatch) : lockWatch'[i] = lockWatch[i]
    BY <2>1
  <2>3. Len(lockWatch) \in Nat
    BY <2>1
  <2>4. \A i \in 1 .. Len(lockWatch') : i = Len(lockWatch) + 1 \/ i \in 1 .. Len(lockWatch)
    BY <2>2, <2>3
  <2>5. QED
    BY <2>2, <2>4 DEF Stored
<1>3. QED
  BY <1>1, <1>2

(* The cached and the stored value are values of the watch.                 *)
LEMMA WatchEnds ==
  ASSUME TypeOK
  PROVE  /\ Len(lockWatch) \in Nat \ {0}
         /\ \E i \in 1 .. Len(lockWatch) : Cached = lockWatch[i]
         /\ \E i \in 1 .. Len(lockWatch) : Stored = lockWatch[i]
<1>1. Len(lockWatch) \in Nat /\ Len(lockWatch) # 0
  BY DEF TypeOK
<1>2. 1 \in 1 .. Len(lockWatch) /\ Len(lockWatch) \in 1 .. Len(lockWatch)
  BY <1>1
<1>3. QED
  BY <1>1, <1>2 DEF Cached, Stored

(* The initial states satisfy the inductive invariant.                      *)
LEMMA IInvInit == Init => IInv
<1> SUFFICES ASSUME Init PROVE IInv
  OBVIOUS
<1>1. TypeOK
  BY TypeInit
<1>2. lockWatch = <<NoLock>> /\ Len(lockWatch) = 1 /\ lockWatch[1] = NoLock
  BY DEF Init
<1>3. KnownNames
  BY <1>2 DEF Init, KnownNames
<1>4. StepFacts
  BY DEF Init, StepFacts, Holding
<1>5. OneCommitted
  BY DEF Init, OneCommitted, Committed
<1>6. QED
  BY <1>1, <1>3, <1>4, <1>5 DEF IInv

(* Every step preserves it: one case per action.                            *)
LEMMA IInvStep == IInv /\ [Next]_vars => IInv'
<1> SUFFICES ASSUME IInv, [Next]_vars
             PROVE  IInv'
  OBVIOUS
<1> USE DEF Goto, GotoReading, Slip, world, KnownNames, StepFacts, OneCommitted,
       Committed, Holding
<1>t. TypeOK /\ TypeOK'
  BY TypeStep DEF IInv
<1>s. slipped => slipped'
  BY <1>t DEF Next, Reconcile, StartReconcile, Start, RestoreStatus, LockGet, Granted,
     Steal, LockCreate, Unlock, UnlockGet, UnlockDelete, HandleClusterNotInitialized,
     JoinCluster, StoreBootstrapData, PatchConfig, CallFails, CreateMachine,
     DeleteMachine, Platform, SetDataSecretName, Boot, Deliver, DeliverMachine,
     DeliverConfig, Restart, Restore, StartAgain, MarkInitialized, DeliverLock,
     DeliverCluster, vars, TypeOK
<1> SUFFICES ASSUME ~slipped, ~slipped', KnownNames, StepFacts, OneCommitted
             PROVE  KnownNames' /\ StepFacts' /\ OneCommitted'
  BY <1>t, <1>s DEF IInv
<1> DEFINE Rest == KnownNames' /\ StepFacts' /\ OneCommitted'
<1> HIDE DEF Rest
<1>n. /\ NoLock \notin Configs
      /\ created \subseteq Configs /\ exists \subseteq created
      /\ Stored \in created \cup {NoLock} /\ Cached \in created \cup {NoLock}
  BY <1>t, WatchEnds, ConstantsAssumption DEF TypeOK
<1>a. ASSUME NEW v \in ControlPlaneMachines \cup {NoLock}, WriteLock(v),
             v \in created \cup {NoLock}
      PROVE  /\ Stored' = v
             /\ \A i \in 1 .. Len(lockWatch') : lockWatch'[i] \in created \cup {NoLock}
  BY <1>a, <1>t, WriteLockStored
<1>c. ASSUME UNCHANGED lockWatch PROVE Stored' = Stored
  BY <1>c DEF Stored
<1>d. ASSUME NEW v, lockWatch' = <<v>>
      PROVE  Stored' = v /\ Len(lockWatch') = 1 /\ lockWatch'[1] = v
  BY <1>d DEF Stored
<1>1. ASSUME NEW c \in Configs, StartReconcile(c) PROVE Rest
  BY <1>1, <1>t, <1>n, <1>c DEF Rest, StartReconcile, Start, TypeOK
<1>2. ASSUME NEW c \in Configs, RestoreStatus(c) PROVE Rest
  BY <1>2, <1>t, <1>n, <1>c DEF Rest, RestoreStatus, Observe, TypeOK
<1>3. ASSUME NEW c \in Configs, LockGet(c) PROVE Rest
  BY <1>3, <1>t, <1>n, <1>c DEF Rest, LockGet, Granted, LateGrant, Steal, TypeOK
<1>4. ASSUME NEW c \in Configs, LockCreate(c) PROVE Rest
  <2>1. c \in ControlPlaneMachines /\ c \in created
    BY <1>4, <1>t DEF LockCreate, TypeOK, Configs
  <2>2. CASE Stored # NoLock
    BY <1>4, <2>2, <1>t, <1>n, <1>c DEF Rest, LockCreate, TypeOK
  <2>3. CASE Stored = NoLock
    <3>1. Stored' = c /\ KnownNames'
      BY <1>4, <2>1, <2>3, <1>t, <1>a, <1>n DEF LockCreate, Granted, TypeOK
    <3>2. ~initialized
      BY <1>4, <2>3, <1>t DEF LockCreate, LateGrant, TypeOK
    <3>3. QED
      BY <1>4, <2>1, <2>3, <3>1, <3>2, <1>t, <1>n DEF Rest, LockCreate, Granted, TypeOK
  <2>4. QED
    BY <2>2, <2>3
<1>5. ASSUME NEW c \in Configs, Unlock(c) PROVE Rest
  BY <1>5, <1>t, <1>a, <1>n, <1>c DEF Rest, Unlock, UnlockGet, UnlockDelete, TypeOK
<1>6. ASSUME NEW c \in Configs, HandleClusterNotInitialized(c) \/ JoinCluster(c)
      PROVE  Rest
  BY <1>6, <1>t, <1>n, <1>c
     DEF Rest, HandleClusterNotInitialized, JoinCluster, StoreBootstrapData, Store, TypeOK
<1>7. ASSUME NEW c \in Configs, PatchConfig(c) PROVE Rest
  BY <1>7, <1>t, <1>n, <1>c DEF Rest, PatchConfig, Observe, TypeOK
<1>8. ASSUME NEW c \in Configs, CallFails(c) PROVE Rest
  <2>1. CASE pc[c] = "lockCreate" /\ lockWatch' # lockWatch
    <3>1. c \in ControlPlaneMachines /\ c \in created
      BY <2>1, <1>t DEF TypeOK, Configs
    <3>2. Stored = NoLock /\ WriteLock(c) /\ Goto(c, "idle") /\ UNCHANGED <<world, secret, ready>>
      BY <1>8, <2>1 DEF CallFails
    <3>3. Stored' = c /\ KnownNames'
      BY <2>1, <3>1, <3>2, <1>t, <1>a, <1>n DEF TypeOK
    <3>4. QED
      BY <2>1, <3>1, <3>2, <3>3, <1>t, <1>n DEF Rest, TypeOK
  <2>2. CASE UNCHANGED lockWatch
    BY <1>8, <2>2, <1>t, <1>n, <1>c DEF Rest, CallFails, Store, TypeOK
  <2>3. QED
    BY <1>8, <2>1, <2>2 DEF CallFails
<1>9. ASSUME NEW c \in Configs, CreateMachine(c) PROVE Rest
  BY <1>9, <1>t, <1>n, <1>c DEF Rest, CreateMachine, TypeOK
<1>10. ASSUME NEW c \in Configs, DeleteMachine(c) PROVE Rest
  BY <1>10, <1>t, <1>n, <1>c DEF Rest, DeleteMachine, TypeOK
<1>11. ASSUME NEW c \in Configs, Platform(c) PROVE Rest
  BY <1>11, <1>t, <1>n, <1>c DEF Rest, Platform, SetDataSecretName, Boot, TypeOK
<1>13. ASSUME NEW c \in Configs, Deliver(c) PROVE Rest
  BY <1>13, <1>c DEF Rest, Deliver, DeliverMachine, DeliverConfig
<1>14. ASSUME NEW lost, lost \subseteq dataSecret, StartAgain(lost) PROVE Rest
  BY <1>14, <1>t, <1>n, <1>d DEF Rest, StartAgain, TypeOK
<1>15. ASSUME MarkInitialized PROVE Rest
  BY <1>15, <1>t, <1>n, <1>c DEF Rest, MarkInitialized, Observe, TypeOK
<1>16. ASSUME DeliverLock PROVE Rest
  <2>1. /\ Len(lockWatch') = Len(lockWatch) - 1 /\ Len(lockWatch) \in Nat
        /\ \A i \in 1 .. Len(lockWatch) - 1 : lockWatch'[i] = lockWatch[i + 1]
    BY <1>16, <1>t DEF DeliverLock, TypeOK
  <2>2. Stored' = Stored
    BY <1>16, <2>1 DEF Stored, DeliverLock
  <2>3. \A i \in 1 .. Len(lockWatch') : lockWatch'[i] \in created \cup {NoLock}
    BY <1>16, <2>1 DEF DeliverLock
  <2>4. QED
    BY <1>16, <2>2, <2>3 DEF Rest, DeliverLock
<1>17. ASSUME DeliverCluster PROVE Rest
  BY <1>17, <1>c DEF Rest, DeliverCluster
<1>18. ASSUME UNCHANGED vars PROVE Rest
  BY <1>18, <1>c DEF vars, Rest
<1>19. Rest
  <2>1. ASSUME Restart \/ Restore PROVE Rest
    BY <2>1, <1>14 DEF Restart, Restore
  <2>2. QED
    BY <1>1, <1>2, <1>3, <1>4, <1>5, <1>6, <1>7, <1>8, <1>9, <1>10, <1>11,
       <1>13, <2>1, <1>15, <1>16, <1>17, <1>18 DEF Next, Reconcile
<1>20. QED
  BY <1>19 DEF Rest

(* The inductive invariant holds throughout.                                *)
LEMMA IInvHolds == Spec => []IInv
BY IInvInit, IInvStep, PTL DEF Spec

(* Whatever the --concurrency flag is and however far the caches are behind,  *)
(* the races that slipped records are the only ways in which Lock lets a     *)
(* second machine run k3s init: for every number of machines, API errors,    *)
(* restarts and deletions.                                                  *)
THEOREM FirstAndOnlyInit == Spec => []OnlyRacesInitTwice
<1>1. IInv => OnlyRacesInitTwice
  BY DEF IInv, TypeOK, OneCommitted, Committed, OnlyRacesInitTwice, OnlyOneInit
<1>2. QED
  BY <1>1, IInvHolds, PTL

(* Up to the first race the lock stays with the machine that is going to be  *)
(* the first server until the cluster is initialized.                       *)
THEOREM LockProtectsInit == Spec => []InitProtected
<1>1. IInv => InitProtected
  BY DEF IInv, OneCommitted, Committed, InitProtected
<1>2. QED
  BY <1>1, IInvHolds, PTL

(* Up to the first race no host starts with init data once the cluster is    *)
(* initialized.                                                            *)
THEOREM NoSecondInit == Spec => NoInitOnceInitialized
<1>1. ASSUME IInv, [Next]_vars, NEW c \in Configs, ~slipped, initialized, role[c] = "none"
      PROVE  role'[c] # "init"
  <2>1. ASSUME NEW d \in Configs, Boot(d) PROVE role'[c] # "init"
    BY <1>1, <2>1 DEF Boot, IInv, TypeOK, OneCommitted, Committed
  <2>2. ASSUME NEW d \in Configs, DeleteMachine(d) PROVE role'[c] # "init"
    BY <1>1, <2>2 DEF DeleteMachine, IInv, TypeOK
  <2>3. (\E d \in Configs : Boot(d) \/ DeleteMachine(d)) \/ UNCHANGED role
    BY <1>1 DEF Next, Reconcile, StartReconcile, RestoreStatus, LockGet, LockCreate,
       Unlock, UnlockGet, UnlockDelete, HandleClusterNotInitialized, JoinCluster,
       StoreBootstrapData, PatchConfig, CallFails,
       CreateMachine, Platform, SetDataSecretName, Deliver,
       DeliverMachine, DeliverConfig, Restart, Restore, StartAgain, MarkInitialized,
       DeliverLock, DeliverCluster, world, vars
  <2>4. QED
    BY <1>1, <2>1, <2>2, <2>3
<1>2. IInv /\ [Next]_vars
        => [\A c \in Configs :
              ~slipped /\ initialized /\ role[c] = "none" => role'[c] # "init"]_vars
  BY <1>1
<1>3. QED
  BY <1>2, IInvHolds, PTL DEF Spec, NoInitOnceInitialized
=============================================================================
