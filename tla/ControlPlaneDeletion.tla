------------------------- MODULE ControlPlaneDeletion -------------------------
(***************************************************************************)
(* The life of a KThreesControlPlane object from its first reconciliation to *)
(* its end: the finalizer, the machines made while it lives (call by call,   *)
(* as in MachineCreation), and reconcileDelete, which waits for the workers, *)
(* deletes the control plane's machines and takes the finalizer off when it  *)
(* sees none.                                                               *)
(*                                                                         *)
(* The normal reconciliation lists machines from the API server, the         *)
(* deletion from a cache that may trail it; the KThreesControlPlane itself   *)
(* always comes from the cache.  One reconciliation runs at a time.          *)
(* The users, the workers' owners, the machine controller and the garbage    *)
(* collector are external.                                                  *)
(***************************************************************************)
EXTENDS MachineCreation

CONSTANTS
  Workers,   \* worker machines of the cluster
  MaxFaults  \* bound: failures in reconcileDelete, and crashes

ASSUME DeletionAssumption ==
  IsFiniteSet(Workers) /\ Workers \cap Attempts = {} /\ MaxFaults \in Nat

VARIABLES
  kcp,           \* [there, deleting, finalizer]
  kcpCache,      \* what the controller reads
  deleting,      \* the machines with a deletion timestamp
  workers,       \* worker machines, in the API server
  spare,         \* names of workers that are not used yet
  listed,        \* the cached list: [machines, workers]
  seen,          \* what the list has ever shown: [machines, workers] (history)
  faults

deletionVars == <<kcp, kcpCache, deleting, workers, spare, listed, seen, faults>>
vars == <<creationVars, deletionVars>>

Lists == [machines : SUBSET Attempts, workers : SUBSET Workers]

ControlPlanes == [there : BOOLEAN, deleting : BOOLEAN, finalizer : BOOLEAN]

(* What was made for a machine is owned, machines in deletion exist, there is   *)
(* at most one machine more than replicas, and the cache does not show a        *)
(* deletion that nobody asked for.                                            *)
TypeOK ==
  /\ CreationTypeOK
  /\ pc \in {"idle", "reconcile", "clone", "generate", "create", "cleanup", "delete", "finalize"}
  /\ kcp \in ControlPlanes /\ kcpCache \in ControlPlanes
  /\ kcpCache.deleting => kcp.deleting
  /\ deleting \subseteq machine
  /\ workers \subseteq Workers /\ spare \subseteq Workers
  /\ listed \in Lists /\ seen \in Lists
  /\ faults \in 0 .. MaxFaults

CurrentList == [machines |-> machine, workers |-> workers]

Init ==
  /\ CreationInit
  /\ kcp = [there |-> TRUE, deleting |-> FALSE, finalizer |-> FALSE]
  /\ kcpCache = kcp
  /\ deleting = {}
  /\ workers = {} /\ spare = Workers
  /\ listed = CurrentList /\ seen = CurrentList
  /\ faults = 0

Fault == faults < MaxFaults /\ faults' = faults + 1

-----------------------------------------------------------------------------
(* The world around the controller.                                          *)

\* Without a finalizer a deleted object is gone at once.
UserDeletes ==
  /\ kcp.there /\ ~kcp.deleting
  /\ kcp' = [kcp EXCEPT !.deleting = TRUE, !.there = kcp.finalizer]
  /\ UNCHANGED <<creationVars, kcpCache, deleting, workers, spare, listed, seen, faults>>

\* A MachineSet makes a worker, whatever becomes of the control plane.
WorkerMade(w) ==
  /\ w \in spare
  /\ workers' = workers \cup {w} /\ spare' = spare \ {w}
  /\ UNCHANGED <<creationVars, kcp, kcpCache, deleting, listed, seen, faults>>

WorkerGone(w) ==
  /\ w \in workers
  /\ workers' = workers \ {w}
  /\ UNCHANGED <<creationVars, kcp, kcpCache, deleting, spare, listed, seen, faults>>

\* A machine is deleted by a user, by remediation or by a scale down.
MachineDeleted(m) ==
  /\ kcp.there /\ m \in machine \ deleting
  /\ deleting' = deleting \cup {m}
  /\ UNCHANGED <<creationVars, kcp, kcpCache, workers, spare, listed, seen, faults>>

\* It takes the infrastructure machine and the configuration along.
MachineGone(m) ==
  /\ m \in deleting
  /\ machine' = machine \ {m} /\ deleting' = deleting \ {m}
  /\ infra' = infra \ {m} /\ config' = config \ {m}
  /\ owned' = owned \ (Kinds \X {m})
  /\ UNCHANGED <<attempt, pc, refs, marred, kcp, kcpCache, workers, spare, listed, seen, faults>>

\* Objects whose owner is gone are deleted; a machine owns its two objects too.
GarbageCollect ==
  /\ ~kcp.there
  /\ \/ /\ machine \ deleting # {}
        /\ deleting' = machine
        /\ UNCHANGED <<infra, config, owned>>
     \/ \E kind \in Kinds, a \in Attempts \ machine :
          /\ <<kind, a>> \in owned
          /\ infra' = IF kind = "infra" THEN infra \ {a} ELSE infra
          /\ config' = IF kind = "config" THEN config \ {a} ELSE config
          /\ owned' = owned \ {<<kind, a>>}
          /\ UNCHANGED deleting
  /\ UNCHANGED <<machine, attempt, pc, refs, marred, kcp, kcpCache, workers, spare, listed, seen, faults>>

\* The cached list becomes the current one.
ListMachines ==
  /\ listed' = CurrentList
  /\ seen' = [machines |-> seen.machines \cup machine, workers |-> seen.workers \cup workers]

DeliverMachines ==
  /\ listed # CurrentList
  /\ ListMachines
  /\ UNCHANGED <<creationVars, kcp, kcpCache, deleting, workers, spare, faults>>

DeliverKCP ==
  /\ kcpCache' = kcp
  /\ kcpCache' # kcpCache
  /\ UNCHANGED <<creationVars, kcp, deleting, workers, spare, listed, seen, faults>>

-----------------------------------------------------------------------------
(* Reconcile.                                                                *)

\* Patching an object that is gone, or adding a finalizer to one in deletion,
\* fails.
AddFinalizer ==
  /\ pc = "idle" /\ kcpCache.there /\ ~kcpCache.finalizer
  /\ kcp.there /\ ~kcp.deleting /\ ~kcp.finalizer
  /\ kcp' = [kcp EXCEPT !.finalizer = TRUE]
  /\ UNCHANGED <<creationVars, kcpCache, deleting, workers, spare, listed, seen, faults>>

Goto(step) == pc' = step /\ UNCHANGED <<infra, config, machine, owned, attempt, refs, marred>>

\* Bug: machines are made without waiting for the finalizer.
BugStartReconcile ==
  /\ pc = "idle" /\ kcpCache.there
  /\ Goto(IF kcpCache.deleting THEN "delete" ELSE "reconcile")
  /\ UNCHANGED deletionVars

StartReconcile ==
  /\ pc = "idle" /\ kcpCache.there /\ kcpCache.finalizer
  /\ Goto(IF kcpCache.deleting THEN "delete" ELSE "reconcile")
  /\ UNCHANGED deletionVars

\* The normal reconciliation, as far as it makes machines.
CreateMachines == CloneConfigsAndGenerateMachine /\ UNCHANGED deletionVars

NoMachinesLeft == listed.machines = {}

\* reconcileDelete, with an outcome for the calls that delete machines: one that
\* fails does not keep the others from being made.
WaitForWorkers ==
  /\ pc = "delete" /\ ~NoMachinesLeft /\ listed.workers # {}
  /\ Goto("idle")
  /\ UNCHANGED deletionVars

\* Bug: the workers are not waited for.
BugDeleteMachines ==
  /\ pc = "delete" /\ ~NoMachinesLeft
  /\ deleting' = deleting \cup (machine \cap listed.machines)
  /\ Goto("idle")
  /\ UNCHANGED <<kcp, kcpCache, workers, spare, listed, seen, faults>>

DeleteMachines ==
  /\ pc = "delete" /\ ~NoMachinesLeft /\ listed.workers = {}
  /\ \E failed \in SUBSET listed.machines :
       /\ IF failed = {} THEN UNCHANGED faults ELSE Fault
       /\ deleting' = deleting \cup ((machine \cap listed.machines) \ failed)
  /\ Goto("idle")
  /\ UNCHANGED <<kcp, kcpCache, workers, spare, listed, seen>>

RemoveFinalizer ==
  /\ pc = "delete" /\ NoMachinesLeft
  /\ Goto("finalize")
  /\ UNCHANGED deletionVars

\* Bug: the patch leaves the finalizers out.
BugPatchStatusOnly ==
  /\ pc = "finalize"
  /\ Goto("idle")
  /\ UNCHANGED deletionVars

\* The patch at the end of Reconcile: with the last finalizer the object goes; a
\* patch of one that is gone is ignored.
PatchKThreesControlPlane ==
  /\ pc = "finalize"
  /\ kcp' = [kcp EXCEPT !.finalizer = FALSE, !.there = FALSE]
  /\ Goto("idle")
  /\ UNCHANGED <<kcpCache, deleting, workers, spare, listed, seen, faults>>

PatchFails ==
  /\ pc = "finalize" /\ Fault
  /\ Goto("idle")
  /\ UNCHANGED <<kcp, kcpCache, deleting, workers, spare, listed, seen>>

\* The process ends between two calls; the next one lists everything afresh.
Crash ==
  /\ pc # "idle" /\ Fault
  /\ pc' = "idle" /\ refs' = {}
  /\ marred' = IF pc \in {"generate", "create", "cleanup"} THEN marred \cup {attempt} ELSE marred
  /\ kcpCache' = kcp /\ ListMachines
  /\ UNCHANGED <<infra, config, machine, owned, attempt, kcp, deleting, workers, spare>>

Controller ==
  \/ AddFinalizer \/ StartReconcile \/ CreateMachines
  \/ WaitForWorkers \/ DeleteMachines
  \/ RemoveFinalizer \/ PatchKThreesControlPlane \/ PatchFails

World ==
  \/ UserDeletes
  \/ \E w \in Workers : WorkerMade(w) \/ WorkerGone(w)
  \/ \E m \in Attempts : MachineDeleted(m) \/ MachineGone(m)
  \/ GarbageCollect \/ DeliverMachines \/ DeliverKCP

\* Everything is gone and the cache knows: nothing is left to do.
Done ==
  /\ ~kcpCache.there /\ machine \cup infra \cup config = {} /\ pc = "idle"
  /\ UNCHANGED vars

Next == Controller \/ Crash \/ World \/ Done

Spec == Init /\ [][Next]_vars

\* The work queue retries, caches catch up, workers are deleted along with the
\* cluster, and machines in deletion go.
Fairness ==
  /\ WF_vars(Controller)
  /\ WF_vars(\E w \in Workers : WorkerGone(w))
  /\ \A m \in Attempts : WF_vars(MachineGone(m))
  /\ WF_vars(GarbageCollect)
  /\ WF_vars(DeliverMachines) /\ WF_vars(DeliverKCP)

FairSpec == Spec /\ Fairness

-----------------------------------------------------------------------------
(* "Add finalizer first if not exist to avoid the race condition between init *)
(* and delete": no machine is made for a control plane that is gone, although *)
(* the controller works on a cached copy of it.                              *)
NoMachineForDeletedControlPlane ==
  [][machine' \ machine # {} => kcp.there]_vars

(* "Waiting for worker nodes to be deleted first", "If no control plane        *)
(* machines remain, remove the finalizer": reconcileDelete goes by a cached    *)
(* list (controller:205).  It puts no machine into deletion while a worker     *)
(* exists that its list has ever shown, and does not take the finalizer off     *)
(* while such a machine of the control plane exists.  What was made since the   *)
(* list was taken it overlooks.                                               *)
DeletedInOrder ==
  [][pc = "delete" =>
       /\ deleting' # deleting /\ pc' = "idle" => workers \cap seen.workers = {}
       /\ pc' = "finalize" => machine \cap seen.machines = {}]_vars

(* A control plane that is deleted goes away in the end, with its machines and *)
(* with what failed creations left behind, whatever calls fail on the way:     *)
(* everything the controller makes is owned by the control plane.             *)
DeletionCompletes ==
  kcp.deleting ~> (~kcp.there /\ machine = {} /\ infra = {} /\ config = {})

-----------------------------------------------------------------------------
(* What the invariants rest on: the finalizer holds the control plane while    *)
(* machines are made, and only the controller takes it off, once its cache     *)
(* shows the deletion.                                                       *)

FinalizerHolds ==
  /\ kcp.finalizer => kcp.there
  /\ kcpCache.finalizer /\ ~kcpCache.deleting => kcp.finalizer
  /\ pc \in {"reconcile", "clone", "generate", "create", "cleanup"} => kcp.finalizer
  /\ pc \in {"delete", "finalize"} => kcpCache.deleting

\* What the list has shown it shows as long as it exists: a name that it has not
\* shown may be new, but a name is never used again.
ListShowsSeen ==
  /\ workers \cap seen.workers \subseteq listed.workers
  /\ machine \cap seen.machines \subseteq listed.machines
  /\ spare \cap (workers \cup seen.workers) = {}
  /\ \A m \in seen.machines :
       m <= attempt /\ (pc \in {"clone", "generate", "create"} => m # attempt)

IInv ==
  /\ TypeOK /\ FinalizerHolds /\ ListShowsSeen
  /\ NamesFresh /\ AttemptInPlace /\ OnlyAttemptDangles /\ RoomForMachine
  /\ MachinesAreWhole
=============================================================================
