---------------------------- MODULE MachineCreation ----------------------------
(***************************************************************************)
(* A control plane machine is three objects: the infrastructure machine that  *)
(* is cloned from the template, the bootstrap configuration, and the Machine  *)
(* that refers to both.  cloneConfigsAndGenerateMachine makes them in this     *)
(* order, and cleanupFromGeneration deletes the first two if it fails.        *)
(*                                                                         *)
(* Every call can be refused, every answer can be lost (the API server did    *)
(* what it was asked and the caller sees an error), and the controller can    *)
(* stop between any two calls.  All reads here are live.  The names of an     *)
(* attempt's objects are generated and never used again.  The control plane    *)
(* for which machines are made, and its end, is ControlPlaneDeletion.          *)
(***************************************************************************)
EXTENDS Integers, FiniteSets

CONSTANTS
  Attempts,    \* bound on the attempts, 1 .. MaxAttempts
  Replicas     \* Spec.Replicas

ASSUME CreationAssumption ==
  /\ IsFiniteSet(Attempts) /\ Attempts = 1 .. Cardinality(Attempts)
  /\ Replicas \in Nat \ {0}

VARIABLES
  infra,      \* the attempts whose infrastructure machine exists
  config,     \* the attempts whose KThreesConfig exists
  machine,    \* the attempts whose Machine exists
  owned,      \* the objects <<kind, attempt>> with an owner reference to the control plane
  attempt,    \* the last attempt
  pc,         \* the call the reconciliation is at; "idle" between two reconciliations
  refs,       \* the references that cleanupFromGeneration will go through
  marred      \* the attempts with a failed cleanup, a lost answer or a crash (history)

creationVars == <<infra, config, machine, owned, attempt, pc, refs, marred>>

Kinds == {"infra", "config"}

(* Every object that was made for a machine is owned by the control plane for   *)
(* as long as it exists.  A machine is never made twice for a replica, whatever *)
(* answers are lost, as the machines are listed uncached before every attempt:  *)
(* there is at most one more than Replicas, the surge of a rollout.            *)
CreationTypeOK ==
  /\ infra \subseteq Attempts /\ config \subseteq Attempts /\ machine \subseteq Attempts
  /\ Cardinality(machine) <= Replicas + 1
  /\ owned = ({"infra"} \X infra) \cup ({"config"} \X config)
  /\ attempt \in Attempts \cup {0}
  /\ refs \subseteq Kinds
  /\ marred \subseteq Attempts

CreationInit ==
  /\ infra = {} /\ config = {} /\ machine = {} /\ owned = {}
  /\ attempt = 0
  /\ pc = "idle" /\ refs = {}
  /\ marred = {}

-----------------------------------------------------------------------------
(* cloneConfigsAndGenerateMachine                                            *)

\* scaleUpControlPlane or initializeControlPlane when machines are missing, and
\* upgradeControlPlane when some are outdated, as they may be at any time.
Start ==
  /\ pc = "reconcile"
  /\ \/ Cardinality(machine) < Replicas
     \/ machine # {} /\ Cardinality(machine) <= Replicas
  /\ attempt + 1 \in Attempts
  /\ attempt' = attempt + 1
  /\ pc' = "clone" /\ refs' = {}
  /\ UNCHANGED <<infra, config, machine, owned, marred>>

\* No machine is missing or outdated (or no attempt is left in the model).
NothingToCreate ==
  /\ pc = "reconcile"
  /\ Cardinality(machine) >= Replicas \/ attempt + 1 \notin Attempts
  /\ pc' = "idle"
  /\ UNCHANGED <<infra, config, machine, owned, attempt, refs, marred>>

\* external.CreateFromTemplate, with the control plane as owner.
CloneInfrastructure ==
  /\ pc = "clone"
  /\ infra' = infra \cup {attempt}
  /\ owned' = owned \cup {<<"infra", attempt>>}
  /\ pc' = "generate" /\ refs' = {"infra"}
  /\ UNCHANGED <<config, machine, attempt, marred>>

\* Nothing was created, as far as the controller knows: it returns.
CloneFails ==
  /\ pc = "clone"
  /\ \/ UNCHANGED <<infra, owned, marred>>
     \/ /\ infra' = infra \cup {attempt}
        /\ owned' = owned \cup {<<"infra", attempt>>}
        /\ marred' = marred \cup {attempt}
  /\ pc' = "idle"
  /\ UNCHANGED <<config, machine, attempt, refs>>

\* Bug: the bootstrap configuration has no owner.
BugGenerateKThreesConfig ==
  /\ pc = "generate"
  /\ config' = config \cup {attempt}
  /\ pc' = "create" /\ refs' = refs \cup {"config"}
  /\ UNCHANGED <<infra, machine, owned, attempt, marred>>

GenerateKThreesConfig ==
  /\ pc = "generate"
  /\ config' = config \cup {attempt}
  /\ owned' = owned \cup {<<"config", attempt>>}
  /\ pc' = "create" /\ refs' = refs \cup {"config"}
  /\ UNCHANGED <<infra, machine, attempt, marred>>

\* Bug: the machine is generated in spite of the error.
BugGenerateFails ==
  /\ pc = "generate"
  /\ pc' = "create"
  /\ UNCHANGED <<infra, config, machine, owned, attempt, refs, marred>>

\* Without a reference to it, the configuration is not cleaned up.
GenerateFails ==
  /\ pc = "generate"
  /\ \/ UNCHANGED <<config, owned, marred>>
     \/ /\ config' = config \cup {attempt}
        /\ owned' = owned \cup {<<"config", attempt>>}
        /\ marred' = marred \cup {attempt}
  /\ pc' = "cleanup"
  /\ UNCHANGED <<infra, machine, attempt, refs>>

CreateMachine ==
  /\ pc = "create"
  /\ machine' = machine \cup {attempt}
  /\ pc' = "idle"
  /\ UNCHANGED <<infra, config, owned, attempt, refs, marred>>

\* Bug: an error of createMachine is returned without a cleanup.
BugCreateMachineFails ==
  /\ pc = "create"
  /\ pc' = "idle"
  /\ UNCHANGED <<infra, config, machine, owned, attempt, refs, marred>>

CreateMachineFails ==
  /\ pc = "create"
  /\ \/ UNCHANGED <<machine, marred>>
     \/ /\ machine' = machine \cup {attempt}
        /\ marred' = marred \cup {attempt}
  /\ pc' = "cleanup"
  /\ UNCHANGED <<infra, config, owned, attempt, refs>>

Exists(kind) == attempt \in IF kind = "infra" THEN infra ELSE config

\* cleanupFromGeneration gets and deletes the objects it has references to, one
\* after the other; after an error the next one has its turn.
CleanupFromGeneration ==
  /\ pc = "cleanup"
  /\ \/ \E kind \in refs :
          /\ kind = "config" => "infra" \notin refs
          /\ refs' = refs \ {kind}
          /\ \/ /\ infra' = IF kind = "infra" THEN infra \ {attempt} ELSE infra
                /\ config' = IF kind = "config" THEN config \ {attempt} ELSE config
                /\ owned' = owned \ {<<kind, attempt>>}
                /\ UNCHANGED marred
             \/ /\ Exists(kind)
                /\ marred' = marred \cup {attempt}
                /\ UNCHANGED <<infra, config, owned>>
          /\ UNCHANGED pc
     \/ refs = {} /\ pc' = "idle" /\ UNCHANGED <<infra, config, owned, refs, marred>>
  /\ UNCHANGED <<machine, attempt>>

CloneConfigsAndGenerateMachine ==
  \/ Start \/ NothingToCreate
  \/ CloneInfrastructure \/ CloneFails
  \/ GenerateKThreesConfig \/ GenerateFails
  \/ CreateMachine \/ CreateMachineFails
  \/ CleanupFromGeneration

-----------------------------------------------------------------------------
(* "If we encountered any errors, attempt to clean up any dangling resources":  *)
(* between two reconciliations every object belongs to a machine, whichever     *)
(* creation failed, except for the attempts whose cleanup failed, whose answer   *)
(* was lost or that a crash cut short.                                        *)
NothingDangles ==
  pc = "idle" => (infra \cup config) \ machine \subseteq marred

(* "Only proceed to generating the Machine if we haven't encountered an error":  *)
(* a machine has the objects that it refers to and keeps them as long as it      *)
(* exists, unless the answer to its own creation was lost.                     *)
MachinesAreWhole == machine \ marred \subseteq infra \cap config

-----------------------------------------------------------------------------
(* What the two invariants rest on.                                          *)

\* The names of the next attempt are new.
NamesFresh == \A a \in infra \cup config \cup machine \cup marred : a <= attempt

\* The objects of the current attempt, at each of its calls, and the references
\* that a cleanup would go through.
AttemptInPlace ==
  /\ pc \in {"clone", "generate", "create", "cleanup"} => attempt \in Attempts
  /\ pc = "clone" => attempt \notin infra \cup config \cup machine
  /\ pc = "generate" =>
       attempt \in infra /\ attempt \notin config \cup machine /\ refs = {"infra"}
  /\ pc = "create" =>
       attempt \in infra \cap config /\ attempt \notin machine /\ refs = Kinds
  /\ pc = "cleanup" /\ attempt \notin marred =>
       /\ attempt \notin machine
       /\ attempt \in infra => "infra" \in refs
       /\ attempt \in config => "config" \in refs

\* Only the current attempt has objects without a machine.
OnlyAttemptDangles ==
  \A a \in (infra \cup config) \ machine :
    a \in marred \/ (a = attempt /\ pc \in {"generate", "create", "cleanup"})

\* There is room for the machine that is being made.
RoomForMachine == pc \in {"clone", "generate", "create"} => Cardinality(machine) <= Replicas
=============================================================================
