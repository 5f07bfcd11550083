------------------------------ MODULE InitLock ------------------------------
(***************************************************************************)
(* The bootstrap controller (KThreesConfigReconciler) handing out bootstrap *)
(* data under the control plane init mutex (ControlPlaneInitMutex).         *)
(*                                                                         *)
(* Every config has the name of the Machine that owns it.  The mutex is the *)
(* ConfigMap "<cluster>-lock"; its data is the name of the machine that     *)
(* created it.  The controller's reads of the ConfigMap, of the Cluster, of *)
(* the holder's Machine and of the config go through informer caches, each  *)
(* of which may trail the API server; its writes go to the API server.  The *)
(* config's owner is read as an unstructured object, which is not cached.   *)
(*                                                                         *)
(* One reconcile is a sequence of API calls; each call is a step, so that   *)
(* reconciles of several configs, machine deletions and cache deliveries    *)
(* interleave between them.                                                *)
(***************************************************************************)
EXTENDS Naturals, Sequences, FiniteSets

CONSTANTS
  ControlPlaneMachines, \* names of control plane machines
  WorkerMachines,       \* names of worker machines
  NoLock,               \* the ConfigMap does not exist
  Concurrency,          \* the --concurrency flag (1 by default)
  MaxLag,               \* bound: lock events a cache may be behind (0: never stale)
  MaxFaults             \* bound: API errors and controller restarts

Configs == ControlPlaneMachines \cup WorkerMachines

ASSUME ConstantsAssumption ==
  /\ IsFiniteSet(Configs)
  /\ ControlPlaneMachines \cap WorkerMachines = {}
  /\ NoLock \notin Configs
  /\ Concurrency \in Nat \ {0}
  /\ MaxLag \in Nat
  /\ MaxFaults \in Nat

VARIABLES
  created,      \* names handed out so far; a machine name is never used again
  exists,       \* Machine objects (and their configs) in the API server
  machineCache, \* Machine objects in the controller's cache that may hold the lock
  lockWatch,    \* the ConfigMap's history from the cached value to the stored one
  initialized,  \* Cluster.Status.Initialization.ControlPlaneInitialized
  initCache,    \* the cached copy of it
  secret,       \* bootstrap data secret of each config
  ready,        \* configs with Status.Ready and Status.DataSecretName
  readyCache,   \* the cached copy of it
  dataSecret,   \* machines whose Spec.Bootstrap.DataSecretName is set
  role,         \* the bootstrap data each machine's host booted with
  pc,           \* where the reconcile of each config is
  read,         \* what it read: ControlPlaneInitialized, and the lock's holder
  faults,       \* errors and restarts so far
  slipped       \* history: one of the races of Slip has happened

vars == <<created, exists, machineCache, lockWatch, initialized, initCache,
          secret, ready, readyCache, dataSecret, role, pc, read, faults, slipped>>

\* What a reconcile of the controller itself never touches.
world == <<created, exists, machineCache, initialized, initCache, dataSecret, role>>

Steps == {"idle", "lockGet", "lockCreate", "stealGet", "stealDelete",
          "joinGet", "joinDelete", "storeInit", "storeJoin", "patch",
          "failGet", "failDelete"}

\* The machines that the controller may look for as the holder of the lock.
Holders(machines) == machines \cap ControlPlaneMachines

\* A reconcile that has not read anything.
NoRead == [init |-> FALSE, holder |-> NoLock]

\* A worker never takes the lock; nothing is left of a machine that is gone, and
\* a cache never shows a config ready that is not.
TypeOK ==
  /\ created \subseteq Configs
  /\ exists \subseteq created
  /\ machineCache \subseteq Holders(created)
  /\ lockWatch \in Seq(ControlPlaneMachines \cup {NoLock}) /\ lockWatch # <<>>
  /\ initialized \in BOOLEAN
  /\ initCache \in BOOLEAN
  /\ secret \in [Configs -> {"none", "init", "join"}]
  /\ ready \subseteq exists
  /\ readyCache \subseteq ready
  /\ dataSecret \subseteq exists
  /\ role \in [Configs -> {"none", "init", "join"}]
  /\ pc \in [Configs -> Steps]
  /\ \A c \in WorkerMachines : pc[c] \notin {"lockGet", "lockCreate"}
  /\ read \in [Configs -> [init : BOOLEAN, holder : ControlPlaneMachines \cup {NoLock}]]
  /\ faults \in 0 .. MaxFaults
  /\ slipped \in BOOLEAN

Init ==
  /\ created = {}
  /\ exists = {}
  /\ machineCache = {}
  /\ lockWatch = <<NoLock>>
  /\ initialized = FALSE
  /\ initCache = FALSE
  /\ secret = [c \in Configs |-> "none"]
  /\ ready = {}
  /\ readyCache = {}
  /\ dataSecret = {}
  /\ role = [c \in Configs |-> "none"]
  /\ pc = [c \in Configs |-> "idle"]
  /\ read = [c \in Configs |-> NoRead]
  /\ faults = 0
  /\ slipped = FALSE

-----------------------------------------------------------------------------
(* The ConfigMap and the caches.                                           *)

Cached == lockWatch[1]
Stored == lockWatch[Len(lockWatch)]

\* A cache follows the API server at once when nothing may be stale.
Observe(cache, value) == IF MaxLag = 0 THEN value ELSE cache

\* Create and Delete of the ConfigMap: the new value joins the watch.
WriteLock(v) ==
  /\ MaxLag = 0 \/ Len(lockWatch) <= MaxLag
  /\ lockWatch' = IF MaxLag = 0 THEN <<v>> ELSE Append(lockWatch, v)

\* The reconcile of c goes on to step; what it read ends with it.
Goto(c, step) ==
  /\ pc' = [pc EXCEPT ![c] = step]
  /\ read' = IF step = "idle" THEN [read EXCEPT ![c] = NoRead] ELSE read

\* It goes on to step with r in its local variables.
GotoReading(c, step, r) ==
  /\ pc' = [pc EXCEPT ![c] = step]
  /\ read' = [read EXCEPT ![c] = r]

Slip(race) == slipped' = (slipped \/ race)

Fault == faults < MaxFaults /\ faults' = faults + 1

Busy == {c \in Configs : pc[c] # "idle"}

-----------------------------------------------------------------------------
\* The read of ControlPlaneInitialized decides where a reconcile goes.
Start(c, step) == GotoReading(c, step, [init |-> initCache, holder |-> NoLock])

\* Mutant: ControlPlaneInitialized is not looked at for control plane machines.
BugInitUnchecked(c) ==
  /\ pc[c] = "idle"
  /\ Cardinality(Busy) < Concurrency
  /\ c \in exists
  /\ c \notin readyCache \cup dataSecret
  /\ \/ initCache /\ c \in WorkerMachines /\ Start(c, "joinGet")
     \/ c \in ControlPlaneMachines /\ Start(c, "lockGet")
  /\ UNCHANGED <<world, lockWatch, secret, ready, readyCache, faults, slipped>>

(* KThreesConfigReconciler.Reconcile up to its first write.  The workqueue  *)
(* runs at most Concurrency reconciles, never two of one config.  Nothing   *)
(* is done for a config whose owner is gone, or (in the cache) is ready, or  *)
(* whose owner already has its data secret.                                *)
StartReconcile(c) ==
  /\ pc[c] = "idle"
  /\ Cardinality(Busy) < Concurrency
  /\ c \in exists
  /\ c \notin readyCache
  /\ c \notin dataSecret
  /\ \/ initCache /\ Start(c, "joinGet")
     \/ ~initCache /\ c \in ControlPlaneMachines /\ Start(c, "lockGet")
  /\ UNCHANGED <<world, lockWatch, secret, ready, readyCache, faults, slipped>>

(* The second case of Reconcile's switch: the owner has its data secret but  *)
(* the config read from the cache is not ready; the status is set again.    *)
RestoreStatus(c) ==
  /\ pc[c] = "idle"
  /\ Cardinality(Busy) < Concurrency
  /\ c \in exists \cap dataSecret
  /\ c \notin readyCache
  /\ ready' = ready \cup {c}
  /\ readyCache' = Observe(readyCache, ready')
  /\ UNCHANGED <<world, lockWatch, secret, pc, read, faults, slipped>>

(* Lock grants c the lock: the race is that the cluster has been initialized *)
(* since the reconcile read that it is not.                                 *)
Granted(c) == Goto(c, "storeInit")
LateGrant(c) == initialized /\ ~read[c].init

\* Lock goes on to Unlock because it did not find the holder's Machine.
Steal(c) == GotoReading(c, "stealGet", [init |-> read[c].init, holder |-> Cached])

\* Mutant: any error of the holder's Get, not only NotFound, releases the lock.
BugStealFromLiving(c) ==
  /\ pc[c] = "lockGet"
  /\ \/ Cached = NoLock /\ Goto(c, "lockCreate") /\ Slip(FALSE)
     \/ Cached = c /\ Granted(c) /\ Slip(Stored # c \/ LateGrant(c))
     \/ Cached \notin {c, NoLock} /\ Steal(c) /\ Slip(Cached \in exists \ machineCache)
  /\ UNCHANGED <<world, lockWatch, secret, ready, readyCache, faults>>

\* Mutant: the holder's Machine is not looked up.
BugNeverSteal(c) ==
  /\ pc[c] = "lockGet"
  /\ \/ Cached = NoLock /\ Goto(c, "lockCreate")
     \/ Cached = c /\ Granted(c)
     \/ Cached \notin {c, NoLock} /\ Goto(c, "idle")
  /\ UNCHANGED <<world, lockWatch, secret, ready, readyCache, faults, slipped>>

(* Lock: the cached Get of the ConfigMap, and of the holder's Machine.  The   *)
(* races: c's own lock, seen in the cache, is gone; the holder exists, but    *)
(* its Machine has not reached the cache.                                   *)
LockGet(c) ==
  /\ pc[c] = "lockGet"
  /\ \/ Cached = NoLock /\ Goto(c, "lockCreate") /\ Slip(FALSE)
     \/ Cached = c /\ Granted(c) /\ Slip(Stored # c \/ LateGrant(c))
     \/ Cached \notin {c, NoLock} /\ Cached \in machineCache /\ Goto(c, "idle") /\ Slip(FALSE)
     \/ Cached \notin {c, NoLock} /\ Cached \notin machineCache /\ Steal(c)
        /\ Slip(Cached \in exists)
  /\ UNCHANGED <<world, lockWatch, secret, ready, readyCache, faults>>

(* Lock: Create of the ConfigMap, refused when one exists.                  *)
LockCreate(c) ==
  /\ pc[c] = "lockCreate"
  /\ \/ Stored = NoLock /\ WriteLock(c) /\ Granted(c) /\ Slip(LateGrant(c))
     \/ Stored # NoLock /\ UNCHANGED lockWatch /\ Goto(c, "idle") /\ Slip(FALSE)
  /\ UNCHANGED <<world, secret, ready, readyCache, faults>>

(* Unlock: the cached Get of the ConfigMap, then a Delete by name, whoever  *)
(* holds the lock by then.  Reached from Lock when the holder is gone       *)
(* ("steal"), from the join path ("join") and from a failed init ("fail").  *)
UnlockGet(c, from, delete, done) ==
  /\ pc[c] = from
  /\ Goto(c, IF Cached = NoLock THEN done ELSE delete)
  /\ UNCHANGED <<world, lockWatch, secret, ready, readyCache, faults, slipped>>

UnlockDelete(c, from, done, race) ==
  /\ pc[c] = from
  /\ \/ Stored # NoLock /\ WriteLock(NoLock) /\ Slip(race)
     \/ Stored = NoLock /\ UNCHANGED lockWatch /\ Slip(FALSE)
  /\ Goto(c, done)
  /\ UNCHANGED <<world, secret, ready, readyCache, faults>>

(* The races: the lock was to be taken from a machine that is gone, or given *)
(* back by c, and by now it is another machine's; or it protects the         *)
(* bootstrap data that an earlier reconcile of c has handed out.             *)
Unlock(c) ==
  \/ UnlockGet(c, "stealGet", "stealDelete", "idle")
  \/ UnlockDelete(c, "stealDelete", "idle", Stored # read[c].holder)
  \/ UnlockGet(c, "joinGet", "joinDelete", "storeJoin")
  \/ UnlockDelete(c, "joinDelete", "storeJoin", FALSE)
  \/ UnlockGet(c, "failGet", "failDelete", "idle")
  \/ UnlockDelete(c, "failDelete", "idle", Stored # c \/ c \in ready \cup dataSecret)

(* storeBootstrapData: Create the secret, or Update the one that exists.  It *)
(* is owned by the config: it does not outlive a config that is gone.       *)
Store(c, data) == secret' = [secret EXCEPT ![c] = IF c \in exists THEN data ELSE "none"]

StoreBootstrapData(c, from, data) ==
  /\ pc[c] = from
  /\ Store(c, data)
  /\ Goto(c, "patch")
  /\ UNCHANGED <<world, lockWatch, ready, readyCache, faults, slipped>>

(* The end of handleClusterNotInitialized, by the machine with the lock.    *)
HandleClusterNotInitialized(c) == StoreBootstrapData(c, "storeInit", "init")

(* joinControlplane and joinWorker.                                         *)
JoinCluster(c) == StoreBootstrapData(c, "storeJoin", "join")

\* Mutant: the patch does not go by whether the config is still there.
BugPatchUnchecked(c) ==
  /\ pc[c] = "patch"
  /\ Goto(c, "idle")
  /\ ready' = ready \cup {c}
  /\ readyCache' = Observe(readyCache, ready')
  /\ UNCHANGED <<world, lockWatch, secret, faults, slipped>>

(* The deferred patch of the config makes Status.Ready visible; it fails     *)
(* with NotFound when the config has been deleted.                         *)
PatchConfig(c) ==
  /\ pc[c] = "patch"
  /\ Goto(c, "idle")
  /\ ready' = IF c \in exists THEN ready \cup {c} ELSE ready
  /\ readyCache' = Observe(readyCache, ready')
  /\ UNCHANGED <<world, lockWatch, secret, faults, slipped>>

(* An API call fails.  The write may or may not have been applied.          *)
CallFails(c) ==
  /\ Fault
  /\ \/ /\ pc[c] \in {"lockGet", "stealGet", "stealDelete"}
        /\ Goto(c, "idle")
        /\ UNCHANGED <<lockWatch, secret, ready, readyCache>>
     \/ /\ pc[c] = "lockCreate"
        /\ Goto(c, "idle")
        /\ \/ UNCHANGED lockWatch
           \/ Stored = NoLock /\ WriteLock(c)
        /\ UNCHANGED <<secret, ready, readyCache>>
     \/ /\ pc[c] \in {"joinGet", "joinDelete"}    \* Unlock's result is ignored here
        /\ Goto(c, "storeJoin")
        /\ UNCHANGED <<lockWatch, secret, ready, readyCache>>
     \/ /\ pc[c] = "storeInit"                    \* the deferred Unlock runs
        /\ Goto(c, "failGet")
        /\ UNCHANGED secret \/ Store(c, "init")
        /\ UNCHANGED <<lockWatch, ready, readyCache>>
     \/ /\ pc[c] = "storeJoin"
        /\ Goto(c, "idle")
        /\ UNCHANGED secret \/ Store(c, "join")
        /\ UNCHANGED <<lockWatch, ready, readyCache>>
     \/ /\ pc[c] \in {"patch", "failGet", "failDelete"}
        /\ Goto(c, "idle")
        /\ UNCHANGED <<lockWatch, secret, ready, readyCache>>
  /\ UNCHANGED <<world, slipped>>

(* The controller starts again: every reconcile is lost, the caches are      *)
(* listed again.  It may be another controller, on objects that were moved   *)
(* to its management cluster or restored from a backup: the status of a      *)
(* config, which is no part of them, is lost.                               *)
StartAgain(lost) ==
  /\ Fault
  /\ pc' = [c \in Configs |-> "idle"]
  /\ read' = [c \in Configs |-> NoRead]
  /\ machineCache' = Holders(exists)
  /\ lockWatch' = <<Stored>>
  /\ initCache' = initialized
  /\ ready' = ready \ lost
  /\ readyCache' = ready'
  /\ UNCHANGED <<created, exists, initialized, secret, dataSecret, role, slipped>>

Restart == StartAgain({})
Restore == ready \cap dataSecret # {} /\ StartAgain(dataSecret)

-----------------------------------------------------------------------------
(* The rest of the system, modelled from how the controller uses it.        *)

CreateMachine(c) ==
  /\ c \notin created
  /\ created' = created \cup {c}
  /\ exists' = exists \cup {c}
  /\ machineCache' = Observe(machineCache, Holders(exists'))
  /\ UNCHANGED <<lockWatch, initialized, initCache, secret, ready, readyCache,
                 dataSecret, role, pc, read, faults, slipped>>

\* The machine goes, and with it its config, their secret and the host.
DeleteMachine(c) ==
  /\ c \in exists
  /\ exists' = exists \ {c}
  /\ machineCache' = Observe(machineCache, Holders(exists'))
  /\ secret' = [secret EXCEPT ![c] = "none"]
  /\ ready' = ready \ {c}
  /\ readyCache' = readyCache \ {c}
  /\ dataSecret' = dataSecret \ {c}
  /\ role' = [role EXCEPT ![c] = "none"]
  /\ UNCHANGED <<created, lockWatch, initialized, initCache, pc, read, faults, slipped>>

\* Cluster API copies the config's data secret name to the machine (from now on
\* a reconcile goes by it, and what it sees of the config's status makes no
\* difference), ...
SetDataSecretName(c) ==
  /\ c \in (exists \cap ready) \ dataSecret
  /\ dataSecret' = dataSecret \cup {c}
  /\ readyCache' = readyCache \cup {c}
  /\ UNCHANGED <<created, exists, machineCache, lockWatch, initialized, initCache,
                 secret, ready, role, pc, read, faults, slipped>>

\* ... and the infrastructure provider boots the host with the secret's data.
Boot(c) ==
  /\ c \in exists \cap dataSecret
  /\ role[c] = "none"
  /\ role' = [role EXCEPT ![c] = secret[c]]
  /\ UNCHANGED <<created, exists, machineCache, lockWatch, initialized, initCache,
                 secret, ready, readyCache, dataSecret, pc, read, faults, slipped>>

\* The first server is up: Cluster API marks the control plane initialized.
MarkInitialized ==
  /\ ~initialized
  /\ \E c \in exists : role[c] = "init"
  /\ initialized' = TRUE
  /\ initCache' = Observe(initCache, TRUE)
  /\ UNCHANGED <<created, exists, machineCache, lockWatch, secret, ready, readyCache,
                 dataSecret, role, pc, read, faults, slipped>>

(* Watch events reach the caches, each kind of object on its own.           *)
DeliverLock ==
  /\ Len(lockWatch) > 1
  /\ lockWatch' = Tail(lockWatch)
  /\ UNCHANGED <<world, secret, ready, readyCache, pc, read, faults, slipped>>

DeliverMachine(c) ==
  /\ c \in ControlPlaneMachines
  /\ (c \in exists) # (c \in machineCache)
  /\ machineCache' = IF c \in exists THEN machineCache \cup {c} ELSE machineCache \ {c}
  /\ UNCHANGED <<created, exists, lockWatch, initialized, initCache, secret, ready,
                 readyCache, dataSecret, role, pc, read, faults, slipped>>

DeliverCluster ==
  /\ initCache # initialized
  /\ initCache' = initialized
  /\ UNCHANGED <<created, exists, machineCache, lockWatch, initialized, secret, ready,
                 readyCache, dataSecret, role, pc, read, faults, slipped>>

DeliverConfig(c) ==
  /\ c \in ready \ readyCache
  /\ readyCache' = readyCache \cup {c}
  /\ UNCHANGED <<world, lockWatch, secret, ready, pc, read, faults, slipped>>

-----------------------------------------------------------------------------

Reconcile(c) ==
  \/ StartReconcile(c) \/ RestoreStatus(c) \/ LockGet(c) \/ LockCreate(c)
  \/ Unlock(c) \/ HandleClusterNotInitialized(c) \/ JoinCluster(c) \/ PatchConfig(c)

Platform(c) == SetDataSecretName(c) \/ Boot(c)

Deliver(c) == DeliverMachine(c) \/ DeliverConfig(c)

Next ==
  \/ \E c \in Configs : \/ Reconcile(c) \/ CallFails(c) \/ CreateMachine(c)
                        \/ DeleteMachine(c) \/ Platform(c) \/ Deliver(c)
  \/ Restart \/ Restore \/ MarkInitialized \/ DeliverLock \/ DeliverCluster

Spec == Init /\ [][Next]_vars

(* The workqueue is FIFO and requeues a config that is not ready, so a       *)
(* config waiting for a free worker gets one (SF on the start); a running    *)
(* reconcile, the watches, Cluster API and the host make progress (WF).  For *)
(* the last three it is enough that some event that is due takes place, as  *)
(* there are finitely many of them.                                        *)
Fairness ==
  /\ \A c \in Configs :
       /\ SF_vars(StartReconcile(c) \/ RestoreStatus(c))
       /\ WF_vars(LockGet(c) \/ LockCreate(c) \/ Unlock(c)
                  \/ HandleClusterNotInitialized(c) \/ JoinCluster(c) \/ PatchConfig(c))
  /\ WF_vars(MarkInitialized \/ \E c \in Configs : Platform(c))
  /\ WF_vars(DeliverCluster \/ \E c \in Configs : Deliver(c))
  /\ WF_vars(DeliverLock)

FairSpec == Spec /\ Fairness

-----------------------------------------------------------------------------
(* Properties.                                                             *)

\* "Lock allows a control plane node to be the first and only node to run k3s
\* init" (control_plane_init_mutex.go:50): of the machines that exist, at most
\* one booted with init data.
OnlyOneInit ==
  \A c, d \in exists : role[c] = "init" /\ role[d] = "init" => c = d

\* With any number of workers and caches that lag, the races recorded in
\* slipped are the only ways in which Lock (control_plane_init_mutex.go:51-112)
\* lets a second machine run k3s init.
OnlyRacesInitTwice == slipped \/ OnlyOneInit

\* Once the cluster is initialized nobody boots a second cluster: unless one of
\* the races has happened, no host starts with init data after
\* ControlPlaneInitialized has been set, whatever state the lock, a stale
\* reconcile or a retried store left behind (kthreesconfig_controller.go:197-205).
NoInitOnceInitialized ==
  [][\A c \in Configs :
       ~slipped /\ initialized /\ role[c] = "none" => role'[c] # "init"]_vars

\* A machine that may still boot as the first server is protected by the
\* lock until the cluster is initialized: but for the races nobody releases it,
\* by the unlock on the join path (kthreesconfig_controller.go:205), by the
\* theft of a dead machine's lock (control_plane_init_mutex.go:81-88) or after
\* an error (kthreesconfig_controller.go:448-454).
InitProtected ==
  slipped \/ \A c \in exists :
               c \in ready \cup dataSecret /\ secret[c] = "init" => initialized \/ Stored = c

\* Every control plane machine gets its bootstrap data or goes away, though
\* the machine that holds the lock may be deleted at any point, calls may fail
\* and the controller may restart: the lock of a dead machine is released.
EveryoneBootstraps ==
  \A c \in ControlPlaneMachines : c \in exists ~> (c \in ready \/ c \notin exists)

-----------------------------------------------------------------------------
(* The inductive invariant behind the safety properties, for any number of   *)
(* workers and any lag of the caches, up to the first race.                 *)

\* c has init data that its host boots, or has booted, with.
Committed(c) == c \in ready \cup dataSecret /\ secret[c] = "init"

\* c has been granted the lock and has not finished its init.
Holding(c) ==
  \/ pc[c] \in {"storeInit", "failGet", "failDelete"}
  \/ pc[c] = "patch" /\ secret[c] = "init"

\* The holders that the lock or a cache names were created once, and so was
\* every config under reconcile.
KnownNames ==
  /\ \A i \in 1 .. Len(lockWatch) : lockWatch[i] \in created \cup {NoLock}
  /\ \A c \in Configs : pc[c] # "idle" => c \in created

\* What each step of a reconcile knows about the lock and the cluster.
StepFacts ==
  /\ initCache => initialized
  /\ \A c \in Configs :
       /\ pc[c] \in {"lockGet", "lockCreate"} => ~read[c].init
       /\ pc[c] \in {"stealGet", "stealDelete"} => read[c].holder \in created \ exists
       /\ pc[c] \in {"joinGet", "joinDelete", "storeJoin"} => initialized /\ ~Committed(c)
       /\ Holding(c) /\ c \in exists =>
            \/ Stored = c /\ ~initialized
            \/ initialized /\ Committed(c)

\* At most one machine has init data to boot with; the lock is its own until
\* the cluster is initialized, and by then it has booted.
OneCommitted ==
  /\ \A c, d \in exists : Committed(c) /\ Committed(d) => c = d
  /\ \A c \in exists : Committed(c) => IF initialized THEN role[c] = "init" ELSE Stored = c
  /\ \A c \in Configs : role[c] = "init" => c \in dataSecret /\ secret[c] = "init"

IInv == TypeOK /\ (slipped \/ (KnownNames /\ StepFacts /\ OneCommitted))
=============================================================================
