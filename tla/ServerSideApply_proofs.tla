----------------------- MODULE ServerSideApply_proofs -----------------------
(***************************************************************************)
(* The request cache of ServerSideApply, for every set of labels and values  *)
(* and any number of changes and faults.                                    *)
(***************************************************************************)
EXTENDS ServerSideApply, TLAPS

\* A manager owns labels that are there.
Owned(o) == \A m \in Managers : o.own[m] \subseteq Set(o.labels)

\* What a write may store: the object as it was, or a changed one with the next
\* version.
Written(o, new) ==
  /\ new \in Objects /\ Owned(new)
  /\ new = o \/ new.version = o.version + 1

LEMMA StoredIsWritten ==
  ASSUME NEW o \in Objects, Owned(o), NEW new \in Objects, Owned(new)
  PROVE  Written(o, Stored(o, new))
<1>1. CASE new = o
  BY <1>1 DEF Stored, Written
<1>2. CASE new # o
  <2> DEFINE s == [new EXCEPT !.version = o.version + 1]
  <2>1. Stored(o, new) = s
    BY <1>2 DEF Stored
  <2>2. s \in Objects /\ s.labels = new.labels /\ s.own = new.own /\ s.version = o.version + 1
    BY DEF Objects
  <2>3. QED
    BY <2>1, <2>2 DEF Written, Owned
<1>3. QED
  BY <1>1, <1>2

\* A forced apply leaves everybody with labels that are there.
LEMMA AppliedType ==
  ASSUME NEW o \in Objects, Owned(o), NEW in \in LabelSets
  PROVE  Applied(o, in) \in Objects /\ Owned(Applied(o, in))
<1> DEFINE dropped == o.own["ssa"] \ Set(in)
           kept(m) == {k \in o.own[m] : in[k] = None \/ in[k] = o.labels[k]}
           removed == {k \in dropped : \A m \in Managers \ {"ssa"} : k \notin o.own[m]}
           labels == [k \in Labels |-> IF k \in Set(in) THEN in[k]
                                       ELSE IF k \in removed THEN None ELSE o.labels[k]]
           own == [m \in Managers |-> IF m = "ssa" THEN Set(in) ELSE kept(m)]
<1>1. labels \in LabelSets
  BY DEF LabelSets, Objects, Set
<1>2. \A m \in Managers : kept(m) \subseteq o.own[m] /\ o.own[m] \subseteq Labels
  BY DEF Objects
<1>3. own \in [Managers -> SUBSET Labels]
  BY <1>2 DEF Set
<1>4. o.managers \cup {"ssa"} \in SUBSET Managers
  BY DEF Objects, Managers
<1>5. ASSUME NEW m \in Managers, NEW k \in own[m] PROVE k \in Set(labels)
  <2>1. k \in Labels
    BY <1>3, <1>5
  <2>2. CASE k \in Set(in)
    BY <2>1, <2>2 DEF Set
  <2>3. CASE k \notin Set(in)
    <3>1. m # "ssa" /\ k \in o.own[m]
      BY <1>5, <2>3
    <3>2. labels[k] = o.labels[k]
      BY <2>1, <2>3, <3>1
    <3>3. o.labels[k] # None
      BY <3>1 DEF Owned, Set
    <3>4. QED
      BY <2>1, <3>2, <3>3 DEF Set
  <2>4. QED
    BY <2>2, <2>3
<1>6. Applied(o, in) =
        [o EXCEPT !.labels = labels, !.own = own, !.managers = o.managers \cup {"ssa"}]
  BY Zenon DEF Applied
<1> HIDE DEF labels, own, kept, removed, dropped
<1>7. Applied(o, in) \in Objects /\ Applied(o, in).labels = labels /\ Applied(o, in).own = own
  BY <1>1, <1>3, <1>4, <1>6 DEF Objects
<1>8. QED
  BY <1>5, <1>7 DEF Owned

\* Neither does a patch of the managed fields.
LEMMA PatchedType ==
  ASSUME NEW o \in Objects, NEW new \in Objects
  PROVE  ManagedFieldsPatched(o, new) \in Objects /\ Owned(ManagedFieldsPatched(o, new))
<1> DEFINE own == [m \in Managers |-> new.own[m] \cap Set(o.labels)]
<1>1. own \in [Managers -> SUBSET Labels] /\ \A m \in Managers : own[m] \subseteq Set(o.labels)
  BY DEF Objects
<1>2. ManagedFieldsPatched(o, new) = [o EXCEPT !.own = own, !.managers = new.managers]
  BY Zenon DEF ManagedFieldsPatched
<1>3. o.labels \in LabelSets /\ new.managers \in SUBSET Managers
  BY DEF Objects
<1> HIDE DEF own
<1>4. /\ ManagedFieldsPatched(o, new) \in Objects
      /\ ManagedFieldsPatched(o, new).labels = o.labels
      /\ ManagedFieldsPatched(o, new).own = own
  BY <1>1, <1>2, <1>3 DEF Objects
<1>5. QED
  BY <1>1, <1>4 DEF Owned

LEMMA AdoptedWritten ==
  ASSUME TypeOK
  PROVE  Written(object, AdoptedObject)
<1> DEFINE adopted == IF IsMachine THEN CleanUpManagedFieldsForSSAAdoption(original)
                                   ELSE DropManagedFields(original)
<1>1. object \in Objects /\ Owned(object) /\ original \in Objects
  BY DEF TypeOK, Owned
<1>2. adopted \in Objects
  BY <1>1 DEF CleanUpManagedFieldsForSSAAdoption, DropManagedFields, Objects, Managers
<1>3. AdoptedObject =
        IF adopted = original THEN object ELSE Stored(object, ManagedFieldsPatched(object, adopted))
  BY DEF AdoptedObject
<1> HIDE DEF adopted
<1>4. Written(object, object)
  BY <1>1 DEF Written
<1>5. QED
  BY <1>1, <1>2, <1>3, <1>4, PatchedType, StoredIsWritten

LEMMA AppliedWritten ==
  ASSUME TypeOK
  PROVE  Written(object, Stored(object, Applied(object, intent)))
<1>1. object \in Objects /\ Owned(object) /\ intent \in LabelSets
  BY DEF TypeOK, Owned
<1>2. QED
  BY <1>1, AppliedType, StoredIsWritten

-----------------------------------------------------------------------------

\* Every step writes the object or leaves it, makes no copy that is ahead of it,
\* and caches nothing: then the cache stays right.
LEMMA CacheStaysRight ==
  ASSUME IInv, Written(object, object'), requests' \subseteq requests
  PROVE  /\ CachedRequestsAreNoOps'
         /\ requests' \subseteq (0 .. object'.version) \X LabelSets
         /\ object'.version \in Nat /\ object.version <= object'.version
<1>1. object.version \in Nat /\ object'.version \in Nat /\ object.version <= object'.version
  BY DEF IInv, TypeOK, Objects, Written
<1>2. requests \subseteq (0 .. object.version) \X LabelSets
  BY DEF IInv, TypeOK
<1>3. requests' \subseteq (0 .. object'.version) \X LabelSets
  <2>1. \A i \in 0 .. object.version : i \in 0 .. object'.version
    BY <1>1
  <2>2. QED
    BY <1>2, <2>1
<1>4. CASE object' = object
  BY <1>1, <1>3, <1>4 DEF IInv, CachedRequestsAreNoOps, ComputeRequestIdentifier
<1>5. CASE object'.version = object.version + 1
  <2>1. object'.version \notin 0 .. object.version
    BY <1>1, <1>5
  <2>2. \A in \in LabelSets : <<object'.version, in>> \notin requests
    BY <1>2, <2>1
  <2>3. QED
    BY <1>1, <1>3, <2>2 DEF CachedRequestsAreNoOps, ComputeRequestIdentifier
<1>6. QED
  BY <1>4, <1>5 DEF Written

LEMMA InitHolds == Init => IInv
<1> SUFFICES ASSUME Init PROVE IInv
  OBVIOUS
<1>1. PICK creator \in {IF kind = "machine" THEN "ssa" ELSE "manager"} :
        object = [labels |-> template,
                  own |-> [m \in Managers |-> IF m = creator THEN Set(template) ELSE {}],
                  managers |-> {creator}, version |-> 0]
  BY DEF Init
<1>2. creator \in Managers /\ template \in LabelSets /\ Set(template) \subseteq Labels
  BY DEF Init, Managers, Set
<1>3. object \in Objects
  BY <1>1, <1>2 DEF Objects
<1>4. Owned(object) /\ object.version = 0
  BY <1>1 DEF Owned
<1>5. TypeOK
  BY <1>2, <1>3, <1>4, ConstantsAssumption DEF Init, TypeOK, Owned
<1>6. CachedRequestsAreNoOps
  BY DEF Init, CachedRequestsAreNoOps
<1>7. QED
  BY <1>5, <1>6 DEF IInv

\* The one step that caches a request: it was answered with the object's version
\* as it was read, so that the object did not change.
LEMMA PatchStep ==
  ASSUME IInv, Patch
  PROVE  IInv'
<1> DEFINE request == <<original.version, intent>>
           stored == Stored(object, Applied(object, intent))
<1>1. TypeOK /\ object \in Objects /\ original \in Objects /\ intent \in LabelSets
  BY DEF IInv, TypeOK
<1>2. object.version \in Nat /\ original.version \in Nat /\ original.version <= object.version
  BY <1>1 DEF TypeOK, Objects
<1>3. Written(object, stored)
  BY <1>1, AppliedWritten
<1>4. Written(object, object)
  BY <1>1 DEF Written, TypeOK, Owned
<1> HIDE DEF stored
<1>5. /\ object' = object \/ object' = stored
      /\ requests' \subseteq requests
         \/ (object' = stored /\ object'.version = original.version
               /\ requests' = requests \cup {request})
      /\ pc' = "idle"
      /\ UNCHANGED <<kind, template, cached, intent, original, changes, faults, foreign>>
      /\ early' \subseteq early
  BY DEF Patch, Own, ComputeRequestIdentifier, stored
<1>6. Written(object, object')
  BY <1>3, <1>4, <1>5
<1>7. CachedRequestsAreNoOps' /\ requests' \subseteq (0 .. object'.version) \X LabelSets
      /\ object.version <= object'.version /\ object'.version \in Nat
  <2>1. CASE requests' \subseteq requests
    BY <1>6, <2>1, CacheStaysRight
  <2>2. CASE object' = stored /\ object'.version = original.version
               /\ requests' = requests \cup {request}
    <3>1. object' = object /\ object.version = original.version /\ stored = object
      BY <1>2, <1>3, <2>2 DEF Written
    <3>2. \A in \in LabelSets : ComputeRequestIdentifier(object, in) \in requests' =>
            Stored(object, Applied(object, in)) = object
      <4> SUFFICES ASSUME NEW in \in LabelSets, <<object.version, in>> \in requests'
                   PROVE  Stored(object, Applied(object, in)) = object
        BY DEF ComputeRequestIdentifier
      <4>1. CASE <<object.version, in>> \in requests
        BY <4>1 DEF IInv, CachedRequestsAreNoOps, ComputeRequestIdentifier
      <4>2. CASE <<object.version, in>> = request
        <5>1. in = intent
          BY <4>2
        <5>2. QED
          BY <3>1, <5>1 DEF stored
      <4>3. QED
        BY <2>2, <4>1, <4>2
    <3>3. request \in (0 .. object.version) \X LabelSets
      BY <1>1, <1>2
    <3>4. requests' \subseteq (0 .. object.version) \X LabelSets
      BY <1>1, <2>2, <3>3 DEF TypeOK
    <3>5. QED
      BY <1>2, <3>1, <3>2, <3>4 DEF CachedRequestsAreNoOps, ComputeRequestIdentifier
  <2>3. QED
    BY <1>5, <2>1, <2>2
<1>8. cached.version \in Nat /\ cached.version <= object.version
  BY <1>1 DEF TypeOK, Objects
<1>9. cached.version <= object'.version /\ original.version <= object'.version
  BY <1>2, <1>7, <1>8
<1>10. TypeOK'
  BY <1>1, <1>5, <1>6, <1>7, <1>9 DEF TypeOK, Written, Owned
<1>11. QED
  BY <1>7, <1>10 DEF IInv

\* The steps that cache nothing.
LEMMA OtherStep ==
  ASSUME IInv, Written(object, object'), requests' \subseteq requests,
         kind' = kind, template' \in LabelSets, intent' \in LabelSets,
         cached' \in {cached, object'}, original' \in {original, cached, object, object'},
         pc' \in {"idle", "adopt", "patch"}, foreign' \subseteq Labels, early' \subseteq Labels,
         changes' \in 0 .. MaxChanges, faults' \in 0 .. MaxFaults
  PROVE  IInv'
<1>1. /\ CachedRequestsAreNoOps'
      /\ requests' \subseteq (0 .. object'.version) \X LabelSets
      /\ object'.version \in Nat /\ object.version <= object'.version
  BY CacheStaysRight
<1>2. /\ object.version \in Nat /\ cached.version \in Nat /\ original.version \in Nat
      /\ cached.version <= object.version /\ original.version <= object.version
  BY DEF IInv, TypeOK, Objects
<1>3. object' \in Objects /\ cached' \in Objects /\ original' \in Objects
  BY DEF IInv, TypeOK, Written
<1>4. cached'.version <= object'.version /\ original'.version <= object'.version
  BY <1>1, <1>2
<1>5. TypeOK'
  BY <1>1, <1>3, <1>4 DEF IInv, TypeOK, Written, Owned
<1>6. QED
  BY <1>1, <1>5 DEF IInv

LEMMA SsaOwnsLabels ==
  ASSUME TypeOK
  PROVE  object.own["ssa"] \subseteq Labels
BY DEF TypeOK, Objects, Managers

LEMMA OtherWritesStep ==
  ASSUME IInv, OtherWrites
  PROVE  IInv'
<1>1. object \in Objects /\ Owned(object)
  BY DEF IInv, TypeOK, Owned
<1>2. PICK k \in Labels, v \in Values :
        /\ object' = Stored(object, [object EXCEPT
             !.labels[k] = v,
             !.own = [m \in Managers |-> IF m = "other" THEN @["other"] \cup {k} ELSE @[m] \ {k}],
             !.managers = @ \cup {"other"}])
        /\ foreign' = foreign \cup {k}
  BY DEF OtherWrites
<1> DEFINE own == [m \in Managers |->
                     IF m = "other" THEN object.own["other"] \cup {k} ELSE object.own[m] \ {k}]
           labels == [object.labels EXCEPT ![k] = v]
           new == [object EXCEPT !.labels = labels, !.own = own,
                                 !.managers = object.managers \cup {"other"}]
<1>3. object' = Stored(object, new)
  BY <1>2
<1>4. labels \in LabelSets /\ own \in [Managers -> SUBSET Labels]
  BY <1>1 DEF Objects, LabelSets, Managers
<1>5. \A m \in Managers : own[m] \subseteq Set(labels)
  <2> SUFFICES ASSUME NEW m \in Managers, NEW l \in own[m] PROVE l \in Set(labels)
    OBVIOUS
  <2>1. l \in Labels
    BY <1>4
  <2>2. CASE l = k
    BY <1>1, <2>1, <2>2, ConstantsAssumption DEF Set, Objects, LabelSets
  <2>3. CASE l # k
    <3>1. l \in object.own[m]
      BY <2>3
    <3>2. object.labels[l] # None
      BY <1>1, <3>1 DEF Owned, Set
    <3>3. labels[l] = object.labels[l]
      BY <1>1, <2>1, <2>3 DEF Objects, LabelSets
    <3>4. QED
      BY <2>1, <3>2, <3>3 DEF Set
  <2>4. QED
    BY <2>2, <2>3
<1>6. object.managers \cup {"other"} \in SUBSET Managers
  BY <1>1 DEF Objects, Managers
<1> HIDE DEF own, labels
<1>7. new \in Objects /\ new.labels = labels /\ new.own = own
  BY <1>1, <1>4, <1>6 DEF Objects
<1> HIDE DEF new
<1>8. Owned(new)
  BY <1>5, <1>7 DEF Owned
<1>9. Written(object, object')
  BY <1>1, <1>3, <1>7, <1>8, StoredIsWritten
<1>10. /\ foreign' \subseteq Labels /\ early' = early /\ changes' \in 0 .. MaxChanges
       /\ UNCHANGED <<kind, template, cached, requests, pc, intent, original, faults>>
  BY <1>2, ConstantsAssumption DEF OtherWrites, IInv, TypeOK
<1>11. QED
  BY <1>9, <1>10, OtherStep DEF IInv, TypeOK

LEMMA StepPreserves == IInv /\ [Next]_vars => IInv'
<1> SUFFICES ASSUME IInv, [Next]_vars PROVE IInv'
  OBVIOUS
<1>1. TypeOK /\ Written(object, object)
  BY DEF IInv, TypeOK, Written, Owned
<1>2. CASE StartSync
  <2>1. faults' \in 0 .. MaxFaults
    BY <1>1, <1>2, ConstantsAssumption DEF StartSync, TypeOK
  <2>2. pc' \in {"idle", "adopt", "patch"} /\ original' \in {cached, object}
        /\ intent' = template
        /\ UNCHANGED <<kind, template, object, cached, requests, changes, foreign, early>>
    BY <1>2 DEF StartSync, computeDesiredMachine
  <2>3. QED
    BY <1>1, <2>1, <2>2, OtherStep DEF TypeOK
<1>3. CASE Adopt
  <2>1. Written(object, object')
    BY <1>1, <1>3, AdoptedWritten DEF Adopt
  <2>2. early' \subseteq Labels
    BY <1>1, <1>3, SsaOwnsLabels DEF Adopt, Disown, TypeOK
  <2>3. QED
    BY <1>1, <1>3, <2>1, <2>2, OtherStep DEF Adopt, TypeOK
<1>4. CASE Patch
  BY <1>4, PatchStep
<1>5. CASE Fault
  <2>1. Written(object, object')
    BY <1>1, <1>5, AdoptedWritten, AppliedWritten DEF Fault
  <2>2. early' \subseteq Labels
    BY <1>1, <1>5, SsaOwnsLabels DEF Fault, Disown, Own, TypeOK
  <2>3. QED
    BY <1>1, <1>5, <2>1, <2>2, OtherStep, ConstantsAssumption DEF Fault, TypeOK
<1>6. CASE Restart
  BY <1>1, <1>6, OtherStep, ConstantsAssumption DEF Restart, TypeOK
<1>7. CASE Expire
  BY <1>1, <1>7, OtherStep DEF Expire, TypeOK
<1>8. CASE ChangeTemplate
  <2>1. template' \in LabelSets
    BY <1>1, <1>8 DEF ChangeTemplate, TypeOK, LabelSets
  <2>2. early' \subseteq Labels
    BY <1>1, <1>8 DEF ChangeTemplate, TypeOK
  <2>3. QED
    BY <1>1, <1>8, <2>1, <2>2, OtherStep, ConstantsAssumption DEF ChangeTemplate, TypeOK
<1>9. CASE OtherWrites
  BY <1>9, OtherWritesStep
<1>10. CASE Deliver
  BY <1>1, <1>10, OtherStep DEF Deliver, TypeOK
<1>11. CASE UNCHANGED vars
  BY <1>1, <1>11, OtherStep DEF vars, TypeOK
<1>12. QED
  BY <1>2, <1>3, <1>4, <1>5, <1>6, <1>7, <1>8, <1>9, <1>10, <1>11 DEF Next, Controller

LEMMA Inductive == Spec => []IInv
BY InitHolds, StepPreserves, PTL DEF Spec

-----------------------------------------------------------------------------

(* No copy of the object and no cached request is ahead of the API server, and *)
(* a manager owns only labels that the object has.                            *)
THEOREM TypeCorrect == Spec => []TypeOK
<1>1. IInv => TypeOK
  BY DEF IInv
<1>2. QED
  BY <1>1, Inductive, PTL

(* Whatever other managers write during a sync, whatever calls fail, and       *)
(* however old the copy is that a sync works on, a request that the ssaCache   *)
(* knows would not change the object (ssa.Patch, ssaCache.Has).                *)
THEOREM CacheSkipsNothing == Spec => []CachedRequestsAreNoOps
<1>1. IInv => CachedRequestsAreNoOps
  BY DEF IInv
<1>2. QED
  BY <1>1, Inductive, PTL
=============================================================================
