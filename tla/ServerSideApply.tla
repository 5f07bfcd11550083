--------------------------- MODULE ServerSideApply ---------------------------
(***************************************************************************)
(* How syncMachines carries the labels (and annotations) of the machine      *)
(* template to an object that exists: a Machine, or a machine's bootstrap    *)
(* config or infrastructure machine.                                        *)
(*                                                                         *)
(* A sync reads the object, adopts it for server-side apply unless the       *)
(* controller's field manager owns something already, and applies the        *)
(* intent unless the request cache knows the request to be without effect.   *)
(* Each API call is a step; users change the template and other managers     *)
(* write the object between them.  Machines are read from the API server,    *)
(* the other objects from a cache that may trail it.                         *)
(*                                                                         *)
(* The API server's part (field ownership, resource versions) is external.   *)
(* Fields other than the labels are left out; an Update entry of the classic *)
(* manager keeps owning them when it loses the labels, and "ssa" has an entry *)
(* after its first apply because every object carries some labels.  What the *)
(* filters of the intent and of the managed fields keep is IntentFilter.     *)
(***************************************************************************)
EXTENDS Naturals, FiniteSets

CONSTANTS
  Labels,      \* label keys
  Values,      \* label values
  None,        \* the label is not set
  Kinds,       \* of object: "machine" (made with Apply), "legacyMachine", "external" (with Create)
  MaxChanges,  \* bound: changes by users and by other managers
  MaxFaults    \* bound: failing calls, restarts, syncs of an outdated copy

ASSUME ConstantsAssumption ==
  /\ IsFiniteSet(Labels) /\ IsFiniteSet(Values)
  /\ None \notin Values
  /\ Kinds \subseteq {"machine", "legacyMachine", "external"}
  /\ MaxChanges \in Nat /\ MaxFaults \in Nat

Managers == {"ssa", "manager", "other"}
LabelSets == [Labels -> Values \cup {None}]
Set(intent) == {k \in Labels : intent[k] # None}

VARIABLES
  kind,     \* which object this is
  template, \* KCP.Spec.MachineTemplate.ObjectMeta.Labels
  object,   \* the object in the API server
  cached,   \* its cached copy
  requests, \* ssaCache: identifiers of requests without effect
  pc,       \* where the sync is
  intent,   \* the modified object of the current sync
  original, \* the object as the current sync knows it
  foreign,  \* labels that another manager has set (history)
  early,    \* labels that the controller gave up before it owned them (history)
  changes, faults

vars == <<kind, template, object, cached, requests, pc, intent, original, foreign, early, changes, faults>>

IsMachine == kind # "external"

Objects == [labels : LabelSets, own : [Managers -> SUBSET Labels],
            managers : SUBSET Managers, version : Nat]

TypeOK ==
  /\ kind \in Kinds
  /\ template \in LabelSets /\ intent \in LabelSets
  /\ object \in Objects /\ cached \in Objects /\ original \in Objects
  /\ cached.version <= object.version /\ original.version <= object.version
  /\ \A m \in Managers : object.own[m] \subseteq Set(object.labels)
  /\ requests \subseteq (0 .. object.version) \X LabelSets
  /\ pc \in {"idle", "adopt", "patch"}
  /\ foreign \subseteq Labels /\ early \subseteq Labels
  /\ changes \in 0 .. MaxChanges /\ faults \in 0 .. MaxFaults

\* Made with the labels that the template had then: by Apply the controller owns
\* them, by Create the manager that stands for a plain client does.
Init ==
  /\ kind \in Kinds
  /\ template \in LabelSets
  /\ \E creator \in {IF kind = "machine" THEN "ssa" ELSE "manager"} :
       object = [labels |-> template,
                 own |-> [m \in Managers |-> IF m = creator THEN Set(template) ELSE {}],
                 managers |-> {creator}, version |-> 0]
  /\ cached = object /\ original = object /\ intent = template
  /\ requests = {} /\ foreign = {} /\ early = {}
  /\ pc = "idle"
  /\ changes = 0 /\ faults = 0

-----------------------------------------------------------------------------
(* The API server.                                                           *)

\* What is stored for a write: an object that did not change keeps its version.
Stored(o, new) == IF new = o THEN o ELSE [new EXCEPT !.version = o.version + 1]

\* A forced apply by "ssa": it sets and owns the intent's labels, others that
\* wanted another value lose them, and what it no longer wants goes away unless
\* somebody else owns it too.
Applied(o, in) ==
  LET dropped == o.own["ssa"] \ Set(in)
      kept(m) == {k \in o.own[m] : in[k] = None \/ in[k] = o.labels[k]}
      removed == {k \in dropped : \A m \in Managers \ {"ssa"} : k \notin o.own[m]}
  IN  [o EXCEPT
        !.labels = [k \in Labels |-> IF k \in Set(in) THEN in[k]
                                     ELSE IF k \in removed THEN None ELSE o.labels[k]],
        !.own = [m \in Managers |-> IF m = "ssa" THEN Set(in) ELSE kept(m)],
        !.managers = @ \cup {"ssa"}]

\* A merge patch of metadata.managedFields: the list replaces the stored one.
ManagedFieldsPatched(o, new) ==
  [o EXCEPT !.own = [m \in Managers |-> new.own[m] \cap Set(o.labels)],
            !.managers = new.managers]

-----------------------------------------------------------------------------
(* The controller.                                                           *)

hasFieldsManagedBy(o, m) == m \in o.managers

\* Bug: the labels the object already has are part of the intent.
BugCopiesLabels(o) ==
  [k \in Labels |-> IF template[k] # None THEN template[k] ELSE o.labels[k]]

\* The intent for an existing object: the template's labels, whatever it has.
computeDesiredMachine(o) == template

StartSync ==
  /\ pc = "idle"
  /\ original' = IF IsMachine THEN object ELSE cached
  /\ IF original' = object THEN UNCHANGED faults
                           ELSE faults < MaxFaults /\ faults' = faults + 1
  /\ intent' = computeDesiredMachine(original')
  /\ pc' = IF hasFieldsManagedBy(original', "ssa") THEN "patch" ELSE "adopt"
  /\ UNCHANGED <<kind, template, object, cached, requests, changes, foreign, early>>

\* The manager's entry goes and a seeding entry for "ssa" comes.
CleanUpManagedFieldsForSSAAdoption(o) ==
  [o EXCEPT !.own["manager"] = {}, !.managers = (@ \ {"manager"}) \cup {"ssa"}]

\* The manager's entry loses the labels and stays for its other fields.
DropManagedFields(o) == [o EXCEPT !.own["manager"] = {}]

\* Bug: the managed fields are left as they are.
BugNotAdopted == object

AdoptedObject ==
  LET adopted == IF IsMachine THEN CleanUpManagedFieldsForSSAAdoption(original)
                              ELSE DropManagedFields(original)
  IN  IF adopted = original THEN object
      ELSE Stored(object, ManagedFieldsPatched(object, adopted))

\* The history: an apply makes the controller the owner of what it wants; the
\* adoption by a sync that does not know of an earlier one takes that away again.
Disown == early' = early \cup (object.own["ssa"] \ object'.own["ssa"])
Own == early' = early \ Set(intent)

Adopt ==
  /\ pc = "adopt"
  /\ object' = AdoptedObject
  /\ Disown
  /\ original' = object'
  /\ pc' = "patch"
  /\ UNCHANGED <<kind, template, cached, requests, intent, changes, faults, foreign>>

\* Bug: the identifier leaves out the version of the original.
BugIdentifierWithoutVersion(o, in) == <<0, in>>

\* Bug: the identifier has no hash of the intent.
BugIdentifierWithoutIntent(o, in) == <<o.version, [k \in Labels |-> None]>>

ComputeRequestIdentifier(o, in) == <<o.version, in>>

\* ssa.Patch with the caching proxy; the sync ends.
Patch ==
  /\ pc = "patch"
  /\ LET request == ComputeRequestIdentifier(original, intent) IN
       \/ request \in requests /\ UNCHANGED <<object, requests, early>>
       \/ /\ request \notin requests
          /\ object' = Stored(object, Applied(object, intent)) /\ Own
          /\ requests' = IF object'.version = original.version
                         THEN requests \cup {request} ELSE requests
  /\ pc' = "idle"
  /\ UNCHANGED <<kind, template, cached, intent, original, changes, faults, foreign>>

\* A call fails, before or after it took effect.
Fault ==
  /\ pc # "idle" /\ faults < MaxFaults
  /\ faults' = faults + 1
  /\ \/ UNCHANGED <<object, early>>
     \/ pc = "adopt" /\ object' = AdoptedObject /\ Disown
     \/ pc = "patch" /\ object' = Stored(object, Applied(object, intent)) /\ Own
  /\ pc' = "idle"
  /\ UNCHANGED <<kind, template, cached, requests, intent, original, changes, foreign>>

Restart ==
  /\ faults < MaxFaults
  /\ faults' = faults + 1
  /\ requests' = {} /\ pc' = "idle"
  /\ UNCHANGED <<kind, template, object, cached, intent, original, changes, foreign, early>>

\* Entries of the request cache end after their time to live.
Expire ==
  /\ \E r \in requests : requests' = requests \ {r}
  /\ UNCHANGED <<kind, template, object, cached, pc, intent, original, changes, faults, foreign, early>>

-----------------------------------------------------------------------------
(* Everybody else.                                                           *)

ChangeTemplate ==
  /\ changes < MaxChanges /\ changes' = changes + 1
  /\ \E k \in Labels, v \in Values \cup {None} :
       /\ template[k] # v /\ template' = [template EXCEPT ![k] = v]
       /\ early' = IF v = None /\ k \notin object.own["ssa"] THEN early \cup {k} ELSE early
  /\ UNCHANGED <<kind, object, cached, requests, pc, intent, original, faults, foreign>>

\* Another manager sets a label, by an update: it owns the label when it changed.
OtherWrites ==
  /\ changes < MaxChanges /\ changes' = changes + 1
  /\ \E k \in Labels, v \in Values :
       /\ object.labels[k] # v
       /\ object' = Stored(object, [object EXCEPT
            !.labels[k] = v,
            !.own = [m \in Managers |-> IF m = "other" THEN @["other"] \cup {k} ELSE @[m] \ {k}],
            !.managers = @ \cup {"other"}])
       /\ foreign' = foreign \cup {k}
  /\ UNCHANGED <<kind, template, cached, requests, pc, intent, original, faults, early>>

Deliver ==
  /\ cached # object /\ cached' = object
  /\ UNCHANGED <<kind, template, object, requests, pc, intent, original, changes, faults, foreign, early>>

Controller == StartSync \/ Adopt \/ Patch

Next ==
  \/ Controller
  \/ Fault \/ Restart \/ Expire \/ ChangeTemplate \/ OtherWrites \/ Deliver

Spec == Init /\ [][Next]_vars

\* The control plane is reconciled again and again, and its caches are fed.
FairSpec == Spec /\ WF_vars(Controller) /\ WF_vars(Deliver)

-----------------------------------------------------------------------------
(* A request is in the cache only if it has no effect on the object while     *)
(* the object is at the version it was made for, so that skipping it loses    *)
(* nothing (patch.go 91-131, cache.go 96-110).                                *)
CachedRequestsAreNoOps ==
  \A in \in LabelSets :
    ComputeRequestIdentifier(object, in) \in requests =>
      Stored(object, Applied(object, in)) = object

InTemplate == \A k \in Set(template) : object.labels[k] = template[k]

OnlyInTemplate ==
  Set(object.labels) \subseteq Set(template) \cup foreign \cup early

(* Once users and other managers leave it alone, the object has every label of *)
(* the template, whatever they did during earlier syncs, and none that left it *)
(* (kthreescontrolplane_controller.go 717-801).  An object made with Create,    *)
(* too, is adopted for this: "Otherwise, fields would be co-owned ... and then  *)
(* we would not be able to e.g. drop labels and annotations" (713-716, 761-764, *)
(* managedfields.go 38-45).  Labels that others set stay, and so do labels that *)
(* left the template when the controller did not own them: before its first     *)
(* apply, or after a sync of an outdated copy adopted the object once more.     *)
TemplateApplied == <>[](InTemplate /\ OnlyInTemplate)

\* With the types, which say that no version is ahead of the API server's, it is
\* inductive: what changes the object changes its version.
IInv == TypeOK /\ CachedRequestsAreNoOps
=============================================================================
