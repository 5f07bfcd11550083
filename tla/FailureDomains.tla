---------------------------- MODULE FailureDomains ----------------------------
(***************************************************************************)
(* Where the machines of a control plane are placed and which one goes first: *)
(* the choice of a failure domain for a new machine, and the choice of a      *)
(* machine to scale down, over rollouts, changes of the replicas, deletions    *)
(* by others and changes of the cluster's failure domains.                    *)
(*                                                                         *)
(* The machines are a sequence, the oldest first.  Each creation or deletion  *)
(* is one step: the preflight checks hold the next one until the machines     *)
(* are stable again.                                                        *)
(***************************************************************************)
EXTENDS Integers, Sequences, FiniteSets, SequencesExt

CONSTANTS
  Domains,      \* names of failure domains
  NoDomain,     \* the empty name
  MaxReplicas,
  MaxChanges,   \* changes of the template, the domains, the marks, the replicas
  Unmarking     \* a domain with machines may stop being one for control planes

ASSUME DomainsAssumption ==
  /\ IsFiniteSet(Domains) /\ NoDomain \notin Domains
  /\ MaxReplicas \in Nat \ {0} /\ MaxChanges \in Nat /\ Unmarking \in BOOLEAN

VARIABLES
  domains,     \* Cluster.Status.FailureDomains: "absent", "other" or "control" plane
  machines,    \* [fd, outdated, marked (DeleteMachineAnnotation)], oldest first
  replicas,
  spreading,   \* nothing but the controller chose since the last rollout began (history)
  changes

placementVars == <<domains, machines, replicas, spreading, changes>>

Machine == [fd : Domains \cup {NoDomain}, outdated : BOOLEAN, marked : BOOLEAN]

(* A rollout surges by one machine at most, whatever the domains are.           *)
PlacementTypeOK ==
  /\ domains \in [Domains -> {"absent", "other", "control"}]
  /\ machines \in Seq(Machine)
  /\ Len(machines) <= MaxReplicas + 1
  /\ replicas \in 1 .. MaxReplicas
  /\ spreading \in BOOLEAN
  /\ changes \in 0 .. MaxChanges

PlacementInit ==
  /\ domains \in [Domains -> {"absent", "other", "control"}]
  /\ machines = <<>>
  /\ replicas \in 1 .. MaxReplicas
  /\ spreading = TRUE
  /\ changes = 0

-----------------------------------------------------------------------------

All == DOMAIN machines
MachinesNeedingRollout == {i \in All : machines[i].outdated}
UpToDateMachines == All \ MachinesNeedingRollout
MachineWithDeleteAnnotation(ms) == {i \in ms : machines[i].marked}
InFailureDomain(ms, fd) == {i \in ms : machines[i].fd = fd}

FailureDomainNames == {d \in Domains : domains[d] # "absent"}
ControlPlaneFailureDomains == {d \in Domains : domains[d] = "control"}

\* The one with the fewest of these machines; ties are decided either way.
PickFewest(fds, ms) ==
  {d \in fds : \A e \in fds :
     Cardinality(InFailureDomain(ms, d)) <= Cardinality(InFailureDomain(ms, e))}

\* One with an eligible machine, and with the most eligible machines or the most
\* machines of all; without one, no domain or any.
PickMost(fds, ms) ==
  LET with == {d \in fds : InFailureDomain(ms, d) # {}}
      most(of) == {d \in with : \A e \in with :
                     Cardinality(InFailureDomain(of, e)) <= Cardinality(InFailureDomain(of, d))}
  IN  IF with = {} THEN fds \cup {NoDomain} ELSE most(ms) \cup most(All)

Oldest(ms) == CHOOSE i \in ms : \A j \in ms : i <= j

\* Bug: machines whose domain is not defined any more are not looked for.
BugFailureDomainWithMostMachines(ms) == PickMost(ControlPlaneFailureDomains, ms)

\* The answers FailureDomainWithMostMachines may give.
FailureDomainWithMostMachines(ms) ==
  LET notIn == {i \in ms : machines[i].fd \notin FailureDomainNames}
  IN  IF notIn # {} THEN {machines[Oldest(notIn)].fd}
      ELSE PickMost(ControlPlaneFailureDomains, ms)

\* Bug: the domain with the fewest machines, outdated ones included.
BugNextFailureDomainForScaleUp ==
  IF ControlPlaneFailureDomains = {} THEN {NoDomain}
  ELSE PickFewest(ControlPlaneFailureDomains, All)

NextFailureDomainForScaleUp ==
  IF ControlPlaneFailureDomains = {} THEN {NoDomain}
  ELSE PickFewest(ControlPlaneFailureDomains, UpToDateMachines)

\* The machines from which scaleDownControlPlane picks one.
SelectMachineForScaleDown(outdated) ==
  CASE MachineWithDeleteAnnotation(outdated) # {} -> MachineWithDeleteAnnotation(outdated)
    [] OTHER ->
         CASE MachineWithDeleteAnnotation(All) # {} -> MachineWithDeleteAnnotation(All)
           [] OTHER -> IF outdated # {} THEN outdated ELSE All

-----------------------------------------------------------------------------

\* cloneConfigsAndGenerateMachine, for the first machine and for the others.
NewMachine ==
  /\ \E fd \in NextFailureDomainForScaleUp :
       machines' = Append(machines, [fd |-> fd, outdated |-> FALSE, marked |-> FALSE])
  /\ UNCHANGED <<domains, replicas, spreading, changes>>

\* MachineInFailureDomainWithMostMachines picks the oldest one of the domain.  If
\* there is none, scale down ends with ErrFailedToPickForDeletion.
ScaleDownControlPlane(outdated) ==
  LET eligible == SelectMachineForScaleDown(outdated)
  IN  /\ \E fd \in FailureDomainWithMostMachines(eligible) :
           /\ InFailureDomain(eligible, fd) # {}
           /\ machines' = RemoveAt(machines, Oldest(InFailureDomain(eligible, fd)))
      /\ UNCHANGED <<domains, replicas, spreading, changes>>

UpgradeControlPlane ==
  /\ MachinesNeedingRollout # {}
  /\ \/ Len(machines) <= replicas /\ NewMachine
     \/ Len(machines) > replicas /\ ScaleDownControlPlane(MachinesNeedingRollout)

Scale ==
  /\ MachinesNeedingRollout = {}
  /\ \/ Len(machines) < replicas /\ NewMachine
     \/ Len(machines) > replicas /\ ScaleDownControlPlane({})

Reconcile == UpgradeControlPlane \/ Scale

-----------------------------------------------------------------------------
(* The users, the infrastructure provider, and remediation.                  *)

Change == changes < MaxChanges /\ changes' = changes + 1

\* A new template, or a new RolloutAfter: every machine is outdated.
TemplateChanges ==
  /\ Change
  /\ machines' = [i \in All |-> [machines[i] EXCEPT !.outdated = TRUE]]
  /\ spreading' = TRUE
  /\ UNCHANGED <<domains, replicas>>

ReplicasChange ==
  /\ Change
  /\ replicas' \in 1 .. MaxReplicas
  /\ UNCHANGED <<domains, machines, spreading>>

DomainChanges ==
  /\ Change
  /\ \E d \in Domains, status \in {"absent", "other", "control"} :
       /\ status = "other" => Unmarking \/ InFailureDomain(All, d) = {}
       /\ domains' = [domains EXCEPT ![d] = status]
  /\ spreading' = FALSE
  /\ UNCHANGED <<machines, replicas>>

MachineMarked ==
  /\ Change
  /\ \E i \in All : machines' = [machines EXCEPT ![i].marked = TRUE]
  /\ spreading' = FALSE
  /\ UNCHANGED <<domains, replicas>>

MachineLost ==
  /\ Change
  /\ \E i \in All : machines' = RemoveAt(machines, i)
  /\ spreading' = FALSE
  /\ UNCHANGED <<domains, replicas>>

PlacementNext ==
  \/ Reconcile
  \/ TemplateChanges \/ ReplicasChange \/ DomainChanges \/ MachineMarked \/ MachineLost

PlacementSpec == PlacementInit /\ [][PlacementNext]_placementVars

\* The controller is called again until there is nothing to do.
FairPlacementSpec == PlacementSpec /\ WF_placementVars(Reconcile)

-----------------------------------------------------------------------------
(* "NextFailureDomainForScaleUp returns the failure domain with the fewest      *)
(* number of up-to-date machines": whatever the spread was before, a rollout    *)
(* that nobody disturbs leaves the machines of any two domains for control      *)
(* planes at most one apart, through changes of the replicas too.              *)
RolloutSpreads ==
  spreading /\ MachinesNeedingRollout = {} =>
    \A d, e \in ControlPlaneFailureDomains :
      Cardinality(InFailureDomain(All, d)) <= Cardinality(InFailureDomain(All, e)) + 1

(* A rollout ends, with the replicas asked for, even if domains that hold       *)
(* machines are no longer defined: "FailureDomainWithMostMachines returns a fd   *)
(* which exists both in machines and control-plane machines", so scale down      *)
(* always finds a machine in it.                                              *)
RolloutCompletes == <>[](MachinesNeedingRollout = {} /\ Len(machines) = replicas)
-----------------------------------------------------------------------------
(* The inductive invariant.                                                  *)

UpToDateIn(fd) == InFailureDomain(UpToDateMachines, fd)

Balanced ==
  \A d, e \in ControlPlaneFailureDomains :
    Cardinality(UpToDateIn(d)) <= Cardinality(UpToDateIn(e)) + 1

\* While a rollout is on, the machines it has made are spread already, and only
\* machines that it will replace can have been chosen by users.
SpreadInv ==
  /\ PlacementTypeOK
  /\ spreading => Balanced /\ \A i \in All : machines[i].marked => machines[i].outdated
=============================================================================
