---------------------- MODULE MachineReplacement_proofs ----------------------
(***************************************************************************)
(* Whether, when and where the machines of a control plane are replaced: the  *)
(* retry limits of RemediationRetry, for every MaxRetry, RetryPeriod and      *)
(* MinHealthyPeriod and every resolution of the clock; the placement of       *)
(* FailureDomains, for any failure domains and any number of machines; and    *)
(* the conversions of ApiConversion, for every set of values and of clients   *)
(* and any number of writes.                                                *)
(***************************************************************************)
EXTENDS RemediationRetry, FailureDomains, ApiConversion, FiniteSetTheorems, TLAPS

\* Ages are capped beyond both periods.
LEMMA CapBounds ==
  /\ Cap \in Nat /\ Cap >= Second
  /\ Cap >= MinHealthyPeriod + Second /\ Cap >= RetryPeriod + Second
BY RetryAssumption DEF Cap, maxDuration

LEMMA OlderInRange ==
  ASSUME NEW age \in 0 .. Cap
  PROVE  Older(age) \in 0 .. Cap /\ age <= Older(age) /\ Older(age) <= age + 1
BY CapBounds DEF Older

\* An annotation is never confused with the absence of one.
LEMMA DataIsNotNone ==
  ASSUME NEW data \in RemediationData
  PROVE  data # None /\ data.count \in Nat /\ (data.age # None => data.age \in Nat)
<1>1. Counts \subseteq Nat
  BY RetryAssumption DEF Counts
<1>2. (0 .. Cap) \subseteq Nat
  BY CapBounds
<1>3. data \in [age : Nat \cup {None}, count : Nat]
  BY <1>1, <1>2 DEF RemediationData
<1>4. QED
  BY <1>3, RetryAssumption

\* The passage of time keeps the count and moves the age by one at most.
LEMMA AgedData ==
  ASSUME NEW data \in RemediationData
  PROVE  /\ Aged(data) \in RemediationData
         /\ Aged(data).count = data.count
         /\ (Aged(data).age = None) <=> (data.age = None)
         /\ data.age # None => Aged(data).age = Older(data.age)
<1>1. data # None
  BY DataIsNotNone
<1>2. CASE data.age = None
  BY <1>1, <1>2 DEF Aged
<1>3. CASE data.age # None
  <2>1. data.age \in 0 .. Cap /\ data.count \in Counts
    BY <1>3 DEF RemediationData
  <2>2. Aged(data) = [age |-> Older(data.age), count |-> data.count]
    BY <1>1, <1>3 DEF Aged, RemediationData
  <2>3. Older(data.age) \in 0 .. Cap
    BY <2>1, OlderInRange
  <2>4. Older(data.age) # None
    BY <2>3, CapBounds, RetryAssumption
  <2>5. QED
    BY <1>3, <2>1, <2>2, <2>3, <2>4 DEF RemediationData
<1>4. QED
  BY <1>2, <1>3

\* What checkRetryLimits decides: the count stays within MaxRetry, a count that
\* is not zero follows a remediation that is RetryPeriod old, and within
\* MinHealthyPeriod the count goes up by one.
LEMMA RetryDecision ==
  ASSUME NEW last \in RemediationData \cup {None}, CheckRetryLimits(last).can
  PROVE  /\ CheckRetryLimits(last).count \in Counts
         /\ CheckRetryLimits(last).count > 0 =>
              last # None /\ last.age # None /\ last.age >= RetryPeriod
         /\ last # None /\ last.age # None /\ last.age < MinHealthyPeriod =>
              CheckRetryLimits(last).count = last.count + 1
<1>1. 0 \in Counts
  BY RetryAssumption DEF Counts
<1>2. CASE last = None
  BY <1>1, <1>2 DEF CheckRetryLimits
<1>3. CASE last # None /\ LastRemediation(last) >= MinHealthyPeriod
  <2>1. CheckRetryLimits(last) = [can |-> TRUE, count |-> 0]
    BY <1>3 DEF CheckRetryLimits
  <2>2. last.age # None /\ last.age < MinHealthyPeriod => FALSE
    BY <1>3, DataIsNotNone, RetryAssumption DEF LastRemediation
  <2>3. QED
    BY <1>1, <2>1, <2>2
<1>4. CASE last # None /\ ~(LastRemediation(last) >= MinHealthyPeriod)
  <2>1. last \in RemediationData
    BY <1>4
  <2>2. last.age # None
    BY <1>4, RetryAssumption DEF LastRemediation, maxDuration
  <2>3. last.age \in Nat /\ last.count \in Counts /\ last.count \in Nat
    BY <2>1, <2>2, DataIsNotNone DEF RemediationData
  <2>4. LastRemediation(last) = last.age
    BY <2>2 DEF LastRemediation
  <2>5. CheckRetryLimits(last) =
          IF LastRemediation(last) < RetryPeriod \/ (MaxRetry # None /\ last.count >= MaxRetry)
          THEN [can |-> FALSE, count |-> last.count]
          ELSE [can |-> TRUE, count |-> last.count + 1]
    BY <1>4, Zenon DEF CheckRetryLimits
  <2>6. /\ ~(last.age < RetryPeriod) /\ ~(MaxRetry # None /\ last.count >= MaxRetry)
        /\ CheckRetryLimits(last).count = last.count + 1
    BY <2>4, <2>5
  <2>7. last.count + 1 \in Counts
    BY <2>3, <2>6, RetryAssumption DEF Counts
  <2>8. QED
    BY <1>4, <2>2, <2>3, <2>6, <2>7, RetryAssumption
<1>5. QED
  BY <1>2, <1>3, <1>4

-----------------------------------------------------------------------------

LEMMA InitHolds == Init => IInv
<1> SUFFICES ASSUME Init PROVE IInv
  OBVIOUS
<1>1. TypeOK
  BY CapBounds, RetryAssumption DEF Init, TypeOK
<1>2. NotedInTime /\ SequenceCounted
  BY DEF Init, NotedInTime, SequenceCounted, AgeFits, LastNoted, Alive
<1>3. QED
  BY <1>1, <1>2 DEF IInv

\* Time passes: both sides of every comparison move.
LEMMA TickStep ==
  ASSUME IInv, Tick
  PROVE  IInv'
<1> USE DEF Tick
<1>1. TypeOK
  BY DEF IInv
<1>2. /\ remFor' \in RemediationData \cup {None}
      /\ inProgress' \in RemediationData \cup {None}
      /\ (remFor' = None) <=> (remFor = None)
      /\ (inProgress' = None) <=> (inProgress = None)
  <2>1. Aged(None) = None
    BY DEF Aged
  <2>2. \A data \in RemediationData \cup {None} :
          Aged(data) \in RemediationData \cup {None} /\ ((Aged(data) = None) <=> (data = None))
    BY <2>1, AgedData, DataIsNotNone
  <2>3. QED
    BY <1>1, <2>2 DEF TypeOK
<1>3. since \in 0 .. Cap /\ since' \in 0 .. Cap /\ since <= since'
  BY <1>1, OlderInRange DEF TypeOK
<1>4. phase' \in 0 .. Second - 1
  BY <1>1, RetryAssumption DEF TypeOK
<1>5. TypeOK'
  BY <1>1, <1>2, <1>3, <1>4 DEF TypeOK
<1>6. LastNoted' = Aged(LastNoted) /\ LastNoted \in RemediationData \cup {None}
  BY <1>1 DEF LastNoted, Alive, TypeOK
<1>7. CASE LastNoted = None
  <2>1. LastNoted' = None
    BY <1>6, <1>7 DEF Aged
  <2>2. sequence' = 0
    BY <1>1, <1>7 DEF IInv, SequenceCounted, TypeOK
  <2>3. QED
    BY <1>5, <2>1, <2>2 DEF IInv, NotedInTime, SequenceCounted, AgeFits
<1>8. CASE LastNoted \in RemediationData
  <2>1. /\ LastNoted' \in RemediationData /\ LastNoted'.count = LastNoted.count
        /\ (LastNoted'.age = None) <=> (LastNoted.age = None)
        /\ LastNoted.age # None => LastNoted'.age = Older(LastNoted.age)
    BY <1>6, <1>8, AgedData
  <2>2. LastNoted # None /\ LastNoted' # None
    BY <1>8, <2>1, DataIsNotNone
  <2>3. ASSUME LastNoted.age # None PROVE Older(LastNoted.age) <= Older(since) + Second - 1
    <3>1. LastNoted.age \in 0 .. Cap
      BY <1>8, <2>3 DEF RemediationData
    <3>2. LastNoted.age <= since + Second - 1
      BY <2>2, <2>3 DEF IInv, NotedInTime, AgeFits
    <3>3. QED
      BY <1>3, <3>1, <3>2, CapBounds, RetryAssumption DEF Older
  <2>4. NotedInTime'
    BY <2>1, <2>2, <2>3 DEF NotedInTime, AgeFits
  <2>5. SequenceCounted'
    BY <2>1, <2>2 DEF IInv, SequenceCounted
  <2>6. QED
    BY <1>5, <2>4, <2>5 DEF IInv
<1>9. QED
  BY <1>5, <1>6, <1>7, <1>8 DEF IInv

\* The heart of the bound: a machine that is remediated again soon enough to
\* belong to the sequence carries an annotation that is young enough to be
\* counted from.
LEMMA RemediateStep ==
  ASSUME IInv, Remediate
  PROVE  IInv'
<1> USE DEF Remediate
<1> DEFINE count == CheckRetryLimits(remFor).count
<1>1. TypeOK /\ remFor \in RemediationData \cup {None} /\ LastNoted = remFor
  BY DEF IInv, TypeOK, LastNoted, Alive
<1>2. /\ count \in Counts
      /\ remFor # None /\ remFor.age # None /\ remFor.age < MinHealthyPeriod =>
           count = remFor.count + 1
  BY <1>1, RetryDecision
<1>3. count \in Nat
  BY <1>2, RetryAssumption DEF Counts
<1> HIDE DEF count
<1>4. inProgress' = [age |-> phase, count |-> count]
  BY DEF Marshal, count
<1>5. inProgress' \in RemediationData
  <2>1. phase \in 0 .. Cap
    BY <1>1, CapBounds, RetryAssumption DEF TypeOK
  <2>2. QED
    BY <1>2, <1>4, <2>1 DEF RemediationData
<1>6. inProgress' # None /\ inProgress'.age = phase /\ inProgress'.count = count
  BY <1>4, <1>5, DataIsNotNone
<1>7. phase \in 0 .. Second - 1 /\ phase # None
  BY <1>1, RetryAssumption DEF TypeOK
<1>8. sequence' \in Nat /\ sequence' <= count + 1
  <2>1. since \in Nat /\ sequence \in Nat
    BY <1>1, CapBounds DEF TypeOK
  <2>2. CASE sequence = 0 \/ ~(since + Second - 1 < MinHealthyPeriod)
    BY <1>3, <2>1, <2>2
  <2>3. CASE sequence > 0 /\ since + Second - 1 < MinHealthyPeriod
    <3>1. /\ remFor # None /\ remFor.age # None /\ sequence <= remFor.count + 1
          /\ remFor.age <= since + Second - 1
      BY <1>1, <2>3 DEF IInv, SequenceCounted, NotedInTime, AgeFits
    <3>2. remFor.age \in Nat /\ remFor.count \in Nat
      BY <1>1, <3>1, DataIsNotNone
    <3>3. remFor.age < MinHealthyPeriod
      BY <2>1, <2>3, <3>1, <3>2, RetryAssumption
    <3>4. count = remFor.count + 1
      BY <1>2, <3>1, <3>3
    <3>5. QED
      BY <2>1, <2>3, <3>1, <3>2, <3>4
  <2>4. QED
    BY <2>1, <2>2, <2>3
<1>9. LastNoted' = inProgress'
  BY DEF LastNoted, Alive
<1>10. TypeOK'
  BY <1>1, <1>5, <1>8, CapBounds DEF TypeOK
<1>11. NotedInTime'
  BY <1>6, <1>7, <1>9, RetryAssumption DEF NotedInTime, AgeFits
<1>12. SequenceCounted'
  BY <1>6, <1>7, <1>8, <1>9 DEF SequenceCounted
<1>13. QED
  BY <1>10, <1>11, <1>12 DEF IInv

LEMMA StepPreserves == IInv /\ [Next]_vars => IInv'
<1> SUFFICES ASSUME IInv, [Next]_vars PROVE IInv'
  OBVIOUS
<1>1. TypeOK
  BY DEF IInv
<1>2. CASE Tick
  BY <1>2, TickStep
<1>3. CASE HealthCheckFails
  BY <1>1, <1>3 DEF HealthCheckFails, IInv, TypeOK, NotedInTime, SequenceCounted, AgeFits,
                    LastNoted, Alive
<1>4. CASE HealthCheckRecovers
  BY <1>1, <1>4 DEF HealthCheckRecovers, IInv, TypeOK, NotedInTime, SequenceCounted, AgeFits,
                    LastNoted, Alive
<1>5. CASE AnnotationChanged
  <2> USE <1>5 DEF AnnotationChanged
  <2>1. remFor \in RemediationData
    BY <1>1 DEF TypeOK
  <2>2. /\ [remFor EXCEPT !.age = None] \in RemediationData
        /\ [remFor EXCEPT !.age = None].age = None
    BY <2>1 DEF RemediationData
  <2>3. TypeOK'
    BY <1>1, <2>2 DEF TypeOK
  <2>4. remFor' = None \/ remFor'.age = None
    BY <2>2
  <2>5. NotedInTime'
    <3>1. CASE Alive
      BY <2>4, <3>1 DEF NotedInTime, AgeFits, LastNoted, Alive
    <3>2. CASE ~Alive
      BY <3>2 DEF IInv, NotedInTime, AgeFits, LastNoted, Alive
    <3>3. QED
      BY <3>1, <3>2
  <2>6. SequenceCounted'
    BY DEF SequenceCounted
  <2>7. QED
    BY <2>3, <2>5, <2>6 DEF IInv
<1>6. CASE Remediate
  BY <1>6, RemediateStep
<1>7. CASE RemediateUnpatched
  <2> USE <1>7 DEF RemediateUnpatched
  <2>1. TypeOK'
    BY <1>1, CapBounds DEF TypeOK
  <2>2. LastNoted' = None
    BY DEF LastNoted, Alive
  <2>3. QED
    BY <2>1, <2>2 DEF IInv, NotedInTime, AgeFits, SequenceCounted
<1>8. CASE MachineGone
  BY <1>1, <1>8 DEF MachineGone, IInv, TypeOK, NotedInTime, SequenceCounted, AgeFits,
                    LastNoted, Alive
<1>12. CASE CreateAnother
  BY <1>1, <1>12 DEF CreateAnother, IInv, TypeOK, NotedInTime, SequenceCounted, AgeFits,
                    LastNoted, Alive
<1>9. CASE CreateReplacement \/ CreateUnpatched
  BY <1>1, <1>9 DEF CreateReplacement, CreateUnpatched, IInv, TypeOK, NotedInTime, SequenceCounted, AgeFits,
                    LastNoted, Alive
<1>10. CASE UNCHANGED vars
  BY <1>1, <1>10 DEF vars, IInv, TypeOK, NotedInTime, SequenceCounted, AgeFits, LastNoted, Alive
<1>11. QED
  BY <1>2, <1>3, <1>4, <1>5, <1>6, <1>7, <1>8, <1>9, <1>10, <1>12 DEF Next

LEMMA Inductive == Spec => []IInv
BY InitHolds, StepPreserves, PTL DEF Spec

-----------------------------------------------------------------------------

(* The annotations are well formed, and the retry count in them never exceeds  *)
(* MaxRetry, for every limit (RemediationData.Marshal, checkRetryLimits).      *)
THEOREM TypeCorrect == Spec => []TypeOK
<1>1. IInv => TypeOK
  BY DEF IInv
<1>2. QED
  BY <1>1, Inductive, PTL

(* However the health check, the clock and the machine controller interleave   *)
(* with the reconciliations, a sequence of remediations that each follow the   *)
(* last within MinHealthyPeriod ends after MaxRetry retries                    *)
(* (checkRetryLimits in remediation.go).                                      *)
THEOREM RetriesAreBounded == Spec => []RetriesBounded
<1>1. IInv => RetriesBounded
  <2> SUFFICES ASSUME IInv, MaxRetry # None PROVE sequence <= MaxRetry + 1
    BY DEF RetriesBounded
  <2>1. TypeOK /\ MaxRetry \in Nat /\ sequence \in Nat
    BY RetryAssumption DEF IInv, TypeOK
  <2>2. CASE sequence = 0
    BY <2>1, <2>2
  <2>3. CASE sequence > 0
    <3>1. LastNoted # None /\ sequence <= LastNoted.count + 1
      BY <2>3 DEF IInv, SequenceCounted
    <3>2. LastNoted \in RemediationData
      BY <2>1, <3>1 DEF LastNoted, TypeOK
    <3>3. LastNoted.count \in 0 .. MaxRetry
      BY <3>2 DEF RemediationData, Counts
    <3>4. QED
      BY <2>1, <3>1, <3>3
  <2>4. QED
    BY <2>1, <2>2, <2>3
<1>2. QED
  BY <1>1, Inductive, PTL

(* A retry, a remediation noted with a count above zero, comes RetryPeriod     *)
(* after the last remediation, up to the fraction of a second that the         *)
(* timestamp in the annotation lost (checkRetryLimits, Marshal).               *)
THEOREM RetriesAreSpaced == Spec => RetriesSpaced
<1> DEFINE A == inProgress = None /\ inProgress' # None /\ inProgress'.count > 0
                  => since + Second - 1 >= RetryPeriod
<1>1. IInv /\ [Next]_vars => [A]_vars
  <2> SUFFICES ASSUME IInv, Next, inProgress = None, inProgress' # None, inProgress'.count > 0
               PROVE  since + Second - 1 >= RetryPeriod
    OBVIOUS
  <2>1. Remediate
    BY Zenon DEF Next, Tick, Aged, HealthCheckFails, HealthCheckRecovers, AnnotationChanged,
           RemediateUnpatched, MachineGone, CreateReplacement, CreateUnpatched, CreateAnother
  <2>2. TypeOK /\ remFor \in RemediationData \cup {None} /\ LastNoted = remFor
    BY <2>1 DEF IInv, TypeOK, LastNoted, Alive, Remediate
  <2>3. CheckRetryLimits(remFor).can /\ CheckRetryLimits(remFor).count > 0
    BY <2>1 DEF Remediate, Marshal
  <2>4. remFor # None /\ remFor.age # None /\ remFor.age >= RetryPeriod
    BY <2>2, <2>3, RetryDecision
  <2>5. remFor.age <= since + Second - 1
    BY <2>2, <2>4 DEF IInv, NotedInTime, AgeFits
  <2>6. remFor.age \in Nat /\ since \in Nat
    BY <2>2, <2>4, DataIsNotNone, CapBounds DEF TypeOK
  <2>7. QED
    BY <2>4, <2>5, <2>6, RetryAssumption
<1>2. QED
  BY <1>1, Inductive, PTL DEF Spec, RetriesSpaced

-----------------------------------------------------------------------------
(* The placement of machines, for every number of failure domains and          *)
(* machines and any number of changes.                                        *)

\* Positions of the up-to-date machines in a failure domain.
UpToDate(s, d) == {j \in 1 .. Len(s) : ~s[j].outdated /\ s[j].fd = d}

LEMMA UpToDateCount ==
  ASSUME NEW s \in Seq(Machine), NEW d
  PROVE  IsFiniteSet(UpToDate(s, d)) /\ Cardinality(UpToDate(s, d)) \in Nat
<1>1. Len(s) \in Nat
  OBVIOUS
<1>2. IsFiniteSet(1 .. Len(s)) /\ UpToDate(s, d) \in SUBSET (1 .. Len(s))
  BY <1>1, FS_Interval DEF UpToDate
<1>3. IsFiniteSet(UpToDate(s, d))
  BY <1>2, FS_Subset
<1>4. QED
  BY <1>3, FS_CardinalityType

\* A new machine is one more in its failure domain.
LEMMA CountAfterAppend ==
  ASSUME NEW s \in Seq(Machine), NEW m \in Machine, ~m.outdated, NEW d
  PROVE  Cardinality(UpToDate(Append(s, m), d)) =
           IF m.fd = d THEN Cardinality(UpToDate(s, d)) + 1 ELSE Cardinality(UpToDate(s, d))
<1> DEFINE r == Append(s, m)
           n == Len(s) + 1
<1>1. /\ Len(s) \in Nat /\ Len(r) = n /\ r[n] = m
      /\ \A j \in 1 .. Len(s) : r[j] = s[j]
  OBVIOUS
<1>2. n \notin UpToDate(s, d)
  BY <1>1 DEF UpToDate
<1>3. CASE m.fd = d
  <2>1. UpToDate(r, d) = UpToDate(s, d) \cup {n}
    BY <1>1, <1>3 DEF UpToDate
  <2>2. QED
    BY <1>2, <1>3, <2>1, UpToDateCount, FS_AddElement
<1>4. CASE m.fd # d
  <2>1. UpToDate(r, d) = UpToDate(s, d)
    BY <1>1, <1>4 DEF UpToDate
  <2>2. QED
    BY <1>4, <2>1
<1>5. QED
  BY <1>3, <1>4

LEMMA ConcatLength ==
  ASSUME NEW S, NEW a \in Seq(S), NEW b \in Seq(S)
  PROVE  Len(a \o b) = Len(a) + Len(b)
OBVIOUS

LEMMA RemoveAtElements ==
  ASSUME NEW s \in Seq(Machine), NEW i \in 1 .. Len(s)
  PROVE  /\ RemoveAt(s, i) \in Seq(Machine)
         /\ Len(RemoveAt(s, i)) = Len(s) - 1
         /\ \A j \in 1 .. Len(s) - 1 :
              RemoveAt(s, i)[j] = IF j < i THEN s[j] ELSE s[j + 1]
<1> DEFINE a == SubSeq(s, 1, i - 1)
           b == SubSeq(s, i + 1, Len(s))
<1>1. Len(s) \in Nat /\ i \in Nat /\ 1 <= i /\ i <= Len(s)
  OBVIOUS
<1>2. /\ a \in Seq(Machine) /\ Len(a) = i - 1
      /\ \A j \in 1 .. i - 1 : a[j] = s[j]
  BY <1>1
<1>3. /\ b \in Seq(Machine) /\ Len(b) = Len(s) - i
      /\ \A j \in 1 .. Len(s) - i : b[j] = s[i + j]
  BY <1>1
<1> HIDE DEF a, b
<1>4. /\ a \o b \in Seq(Machine) /\ Len(a \o b) = Len(s) - 1
      /\ \A j \in 1 .. Len(s) - 1 : (a \o b)[j] = IF j <= Len(a) THEN a[j] ELSE b[j - Len(a)]
  <2>1. a \o b \in Seq(Machine)
    BY <1>2, <1>3
  <2>2. Len(a \o b) = Len(a) + Len(b)
    BY <1>2, <1>3, ConcatLength
  <2>3. Len(a) + Len(b) = Len(s) - 1
    BY <1>1, <1>2, <1>3
  <2>4. \A j \in 1 .. Len(a) + Len(b) : (a \o b)[j] = IF j <= Len(a) THEN a[j] ELSE b[j - Len(a)]
    BY <1>2, <1>3
  <2>5. QED
    BY <2>1, <2>2, <2>3, <2>4
<1>5. ASSUME NEW j \in 1 .. Len(s) - 1 PROVE (a \o b)[j] = IF j < i THEN s[j] ELSE s[j + 1]
  <2>1. CASE j < i
    BY <1>1, <1>2, <1>4, <2>1
  <2>2. CASE ~(j < i)
    <3>1. j - Len(a) \in 1 .. Len(s) - i /\ i + (j - Len(a)) = j + 1
      BY <1>1, <1>2, <2>2
    <3>2. (a \o b)[j] = b[j - Len(a)]
      BY <1>1, <1>2, <1>4, <2>2
    <3>3. b[j - Len(a)] = s[i + (j - Len(a))]
      BY <1>3, <3>1
    <3>4. QED
      BY <2>2, <3>1, <3>2, <3>3
  <2>3. QED
    BY <2>1, <2>2
<1>6. RemoveAt(s, i) = a \o b
  BY DEF RemoveAt, a, b
<1>7. QED
  BY <1>4, <1>5, <1>6

\* A machine that is removed is one less in its failure domain.
LEMMA CountAfterRemoval ==
  ASSUME NEW s \in Seq(Machine), NEW i \in 1 .. Len(s), NEW d
  PROVE  Cardinality(UpToDate(RemoveAt(s, i), d)) =
           IF i \in UpToDate(s, d) THEN Cardinality(UpToDate(s, d)) - 1
           ELSE Cardinality(UpToDate(s, d))
<1> DEFINE r == RemoveAt(s, i)
           f == [j \in UpToDate(r, d) |-> IF j < i THEN j ELSE j + 1]
           g(k) == IF k < i THEN k ELSE k - 1
<1>1. /\ r \in Seq(Machine) /\ Len(r) = Len(s) - 1
      /\ \A j \in 1 .. Len(s) - 1 : r[j] = IF j < i THEN s[j] ELSE s[j + 1]
  BY RemoveAtElements
<1>2. Len(s) \in Nat /\ i \in Nat /\ 1 <= i /\ i <= Len(s)
  OBVIOUS
<1> HIDE DEF r
<1>3. \A j \in UpToDate(r, d) : f[j] \in UpToDate(s, d) \ {i}
  <2> TAKE j \in UpToDate(r, d)
  <2>1. j \in 1 .. Len(s) - 1 /\ ~r[j].outdated /\ r[j].fd = d
    BY <1>1 DEF UpToDate
  <2>2. f[j] \in 1 .. Len(s) /\ f[j] # i /\ r[j] = s[f[j]]
    BY <1>1, <1>2, <2>1
  <2>3. QED
    BY <2>1, <2>2 DEF UpToDate
<1>4. \A k \in UpToDate(s, d) \ {i} : g(k) \in UpToDate(r, d) /\ f[g(k)] = k
  <2> TAKE k \in UpToDate(s, d) \ {i}
  <2>1. k \in 1 .. Len(s) /\ k # i /\ ~s[k].outdated /\ s[k].fd = d
    BY DEF UpToDate
  <2>2. g(k) \in 1 .. Len(s) - 1 /\ r[g(k)] = s[k]
    BY <1>1, <1>2, <2>1
  <2>3. g(k) \in UpToDate(r, d)
    BY <1>1, <2>1, <2>2 DEF UpToDate
  <2>4. QED
    BY <1>2, <2>1, <2>3
<1>5. \A j, k \in UpToDate(r, d) : f[j] = f[k] => j = k
  <2>1. \A j \in UpToDate(r, d) : j \in Nat
    BY <1>1, <1>2 DEF UpToDate
  <2>2. QED
    BY <1>2, <2>1
<1>6. f \in Bijection(UpToDate(r, d), UpToDate(s, d) \ {i})
  <2>1. f \in [UpToDate(r, d) -> UpToDate(s, d) \ {i}]
    BY <1>3
  <2> HIDE DEF f
  <2>2. QED
    BY <1>4, <1>5, <2>1 DEF Bijection, Injection, Surjection, IsInjective
<1>7. IsFiniteSet(UpToDate(r, d)) /\ IsFiniteSet(UpToDate(s, d))
  BY <1>1, UpToDateCount
<1>8. Cardinality(UpToDate(s, d) \ {i}) = Cardinality(UpToDate(r, d))
  <2>1. ExistsBijection(UpToDate(r, d), UpToDate(s, d) \ {i})
    BY <1>6, Zenon DEF ExistsBijection
  <2>2. QED
    BY <1>7, <2>1, FS_Bijection
<1>9. QED
  BY <1>7, <1>8, FS_RemoveElement DEF r

\* A set of positions that is not empty has a first one.
LEMMA FirstExists ==
  ASSUME NEW S \in SUBSET Nat, S # {}
  PROVE  \E m \in S : \A n \in S : m <= n
<1> DEFINE R == {ss \in Nat \X Nat : ss[1] < ss[2]}
<1>1. IsWellFoundedOn(R, Nat)
  BY NatLessThanWellFounded DEF OpToRel
<1>2. PICK x \in S : \A y \in S : ~ (<<y, x>> \in R)
  <2> HIDE DEF R
  <2>1. S \subseteq Nat
    OBVIOUS
  <2>2. QED
    BY <1>1, <2>1, WFMin
<1>3. \A y \in S : x <= y
  <2> TAKE y \in S
  <2>1. x \in Nat /\ y \in Nat
    OBVIOUS
  <2>2. y < x => <<y, x>> \in R
    BY <2>1
  <2>3. QED
    BY <1>2, <2>1, <2>2
<1>4. QED
  BY <1>3

\* Oldest() returns one of the machines it is asked about.
LEMMA OldestIsOne ==
  ASSUME NEW S \in SUBSET Nat, S # {}
  PROVE  Oldest(S) \in S
<1>1. \E m \in S : \A n \in S : m <= n
  BY FirstExists
<1>2. QED
  BY <1>1, Zenon DEF Oldest

\* The up-to-date machines are spread over these domains, and no other machine
\* was chosen by a user.
SpreadOver(s, fds) ==
  /\ \A j \in 1 .. Len(s) : s[j].marked => s[j].outdated
  /\ \A d, e \in fds : Cardinality(UpToDate(s, d)) <= Cardinality(UpToDate(s, e)) + 1

LEMMA AppendSpreads ==
  ASSUME NEW s \in Seq(Machine), NEW fds, SpreadOver(s, fds),
         NEW m \in Machine, ~m.outdated, ~m.marked,
         \A e \in fds : Cardinality(UpToDate(s, m.fd)) <= Cardinality(UpToDate(s, e))
  PROVE  SpreadOver(Append(s, m), fds)
<1> DEFINE c(d) == Cardinality(UpToDate(s, d))
           r == Append(s, m)
<1>1. \A d : c(d) \in Nat
  BY UpToDateCount
<1>2. \A d : Cardinality(UpToDate(r, d)) = IF m.fd = d THEN c(d) + 1 ELSE c(d)
  BY CountAfterAppend
<1>3. \A j \in 1 .. Len(r) : r[j].marked => r[j].outdated
  <2>1. /\ Len(s) \in Nat /\ Len(r) = Len(s) + 1 /\ r[Len(s) + 1] = m
        /\ \A j \in 1 .. Len(s) : r[j] = s[j]
    OBVIOUS
  <2> HIDE DEF r
  <2>2. \A j \in 1 .. Len(r) : j \in 1 .. Len(s) \/ j = Len(s) + 1
    BY <2>1
  <2>3. QED
    BY <2>1, <2>2 DEF SpreadOver
<1>4. \A d, e \in fds : c(d) <= c(e) + 1 /\ c(m.fd) <= c(e)
  BY DEF SpreadOver
<1> HIDE DEF c, r
<1>5. \A d, e \in fds : Cardinality(UpToDate(r, d)) <= Cardinality(UpToDate(r, e)) + 1
  <2> TAKE d, e \in fds
  <2>1. c(d) \in Nat /\ c(e) \in Nat /\ c(d) <= c(e) + 1 /\ c(m.fd) <= c(e)
    BY <1>1, <1>4
  <2>2. /\ Cardinality(UpToDate(r, d)) = IF m.fd = d THEN c(d) + 1 ELSE c(d)
        /\ Cardinality(UpToDate(r, e)) = IF m.fd = e THEN c(e) + 1 ELSE c(e)
    BY <1>2
  <2>3. CASE m.fd = d
    BY <2>1, <2>2, <2>3
  <2>4. CASE m.fd # d
    BY <2>1, <2>2, <2>4
  <2>5. QED
    BY <2>3, <2>4
<1>6. QED
  BY <1>3, <1>5 DEF SpreadOver, r

\* Removing a machine that does not count, or one of the most, keeps the spread.
LEMMA RemovalSpreads ==
  ASSUME NEW s \in Seq(Machine), NEW fds, SpreadOver(s, fds), NEW i \in 1 .. Len(s),
         \A e \in fds : i \in UpToDate(s, e) =>
           \A d \in fds : Cardinality(UpToDate(s, d)) <= Cardinality(UpToDate(s, e))
  PROVE  SpreadOver(RemoveAt(s, i), fds)
<1> DEFINE c(d) == Cardinality(UpToDate(s, d))
           r == RemoveAt(s, i)
<1>1. \A d : c(d) \in Nat
  BY UpToDateCount
<1>2. \A d : Cardinality(UpToDate(r, d)) = IF i \in UpToDate(s, d) THEN c(d) - 1 ELSE c(d)
  BY CountAfterRemoval
<1>3. \A j \in 1 .. Len(r) : r[j].marked => r[j].outdated
  <2>1. /\ Len(s) \in Nat /\ Len(r) = Len(s) - 1
        /\ \A j \in 1 .. Len(s) - 1 : r[j] = IF j < i THEN s[j] ELSE s[j + 1]
    BY RemoveAtElements
  <2> HIDE DEF r
  <2>2. \A j \in 1 .. Len(r) : \E k \in 1 .. Len(s) : r[j] = s[k]
    <3> TAKE j \in 1 .. Len(r)
    <3>1. j \in 1 .. Len(s) /\ j + 1 \in 1 .. Len(s) /\ r[j] = IF j < i THEN s[j] ELSE s[j + 1]
      BY <2>1
    <3>2. QED
      BY <3>1
  <2>3. QED
    BY <2>2 DEF SpreadOver
<1>4. \A d, e \in fds : c(d) <= c(e) + 1 /\ (i \in UpToDate(s, e) => c(d) <= c(e))
  BY DEF SpreadOver
<1> HIDE DEF c, r
<1>5. \A d, e \in fds : Cardinality(UpToDate(r, d)) <= Cardinality(UpToDate(r, e)) + 1
  <2> TAKE d, e \in fds
  <2>1. c(d) \in Nat /\ c(e) \in Nat /\ c(d) <= c(e) + 1 /\ (i \in UpToDate(s, e) => c(d) <= c(e))
    BY <1>1, <1>4
  <2>2. /\ Cardinality(UpToDate(r, d)) \in {c(d) - 1, c(d)}
        /\ Cardinality(UpToDate(r, e)) = IF i \in UpToDate(s, e) THEN c(e) - 1 ELSE c(e)
    BY <1>2
  <2>3. CASE i \in UpToDate(s, e)
    BY <2>1, <2>2, <2>3
  <2>4. CASE i \notin UpToDate(s, e)
    BY <2>1, <2>2, <2>4
  <2>5. QED
    BY <2>3, <2>4
<1>6. QED
  BY <1>3, <1>5 DEF SpreadOver, r

-----------------------------------------------------------------------------

\* The positions that the model speaks about.
LEMMA Positions ==
  ASSUME machines \in Seq(Machine)
  PROVE  /\ All = 1 .. Len(machines)
         /\ \A d : UpToDateIn(d) = UpToDate(machines, d)
BY DEF All, UpToDateIn, InFailureDomain, UpToDateMachines,
   MachinesNeedingRollout, UpToDate

LEMMA PositionsNext ==
  ASSUME machines' \in Seq(Machine)
  PROVE  /\ All' = 1 .. Len(machines')
         /\ \A d : UpToDateIn(d)' = UpToDate(machines', d)
BY DEF All, UpToDateIn, InFailureDomain, UpToDateMachines,
   MachinesNeedingRollout, UpToDate

LEMMA SpreadInvIs ==
  SpreadInv <=>
    /\ PlacementTypeOK
    /\ spreading => SpreadOver(machines, ControlPlaneFailureDomains)
<1>1. CASE PlacementTypeOK
  <2>1. machines \in Seq(Machine)
    BY <1>1 DEF PlacementTypeOK
  <2>2. Balanced <=>
          \A d, e \in ControlPlaneFailureDomains :
            Cardinality(UpToDate(machines, d)) <= Cardinality(UpToDate(machines, e)) + 1
    BY <2>1, Positions DEF Balanced
  <2>3. QED
    BY <1>1, <2>1, <2>2, Positions DEF SpreadInv, SpreadOver
<1>2. CASE ~PlacementTypeOK
  BY <1>2 DEF SpreadInv
<1>3. QED
  BY <1>1, <1>2

LEMMA SpreadInvIsNext ==
  SpreadInv' <=>
    /\ PlacementTypeOK'
    /\ spreading' => SpreadOver(machines', ControlPlaneFailureDomains')
<1>1. CASE PlacementTypeOK'
  <2>1. machines' \in Seq(Machine)
    BY <1>1 DEF PlacementTypeOK, Machine
  <2>2. Balanced' <=>
          \A d, e \in ControlPlaneFailureDomains' :
            Cardinality(UpToDate(machines', d)) <= Cardinality(UpToDate(machines', e)) + 1
    BY <2>1, PositionsNext DEF Balanced
  <2>3. QED
    BY <1>1, <2>1, <2>2, PositionsNext DEF SpreadInv, SpreadOver
<1>2. CASE ~PlacementTypeOK'
  BY <1>2 DEF SpreadInv
<1>3. QED
  BY <1>1, <1>2

LEMMA NewMachineStep ==
  ASSUME SpreadInv, NewMachine, Len(machines) <= replicas
  PROVE  SpreadInv'
<1>1. /\ PlacementTypeOK /\ machines \in Seq(Machine)
      /\ replicas \in Nat /\ replicas <= MaxReplicas /\ MaxReplicas \in Nat
  BY DomainsAssumption DEF SpreadInv, PlacementTypeOK
<1>2. UNCHANGED <<domains, replicas, spreading, changes>>
  BY DEF NewMachine
<1>3. PICK fd \in NextFailureDomainForScaleUp :
        machines' = Append(machines, [fd |-> fd, outdated |-> FALSE, marked |-> FALSE])
  BY DEF NewMachine
<1> DEFINE m == [fd |-> fd, outdated |-> FALSE, marked |-> FALSE]
           fds == ControlPlaneFailureDomains
<1>4. fds \subseteq Domains
  BY DEF ControlPlaneFailureDomains
<1>5. fd \in Domains \cup {NoDomain}
  BY <1>4 DEF NextFailureDomainForScaleUp, PickFewest
<1>6. m \in Machine /\ ~m.outdated /\ ~m.marked /\ m.fd = fd
  BY <1>5 DEF Machine
<1>7. \A e \in fds : Cardinality(UpToDate(machines, fd)) <= Cardinality(UpToDate(machines, e))
  <2> TAKE e \in fds
  <2>1. \A d : InFailureDomain(UpToDateMachines, d) = UpToDate(machines, d)
    BY <1>1, Positions DEF UpToDateIn
  <2>2. fd \in PickFewest(fds, UpToDateMachines)
    BY DEF NextFailureDomainForScaleUp
  <2>3. QED
    BY <2>1, <2>2 DEF PickFewest
<1> HIDE DEF m, fds
<1>8. machines' = Append(machines, m)
  BY <1>3 DEF m
<1>9. machines' \in Seq(Machine) /\ Len(machines') = Len(machines) + 1
      /\ Len(machines) \in Nat
  BY <1>1, <1>6, <1>8
<1>10. PlacementTypeOK'
  <2>1. Len(machines') <= MaxReplicas + 1
    BY <1>1, <1>9
  <2>2. QED
    BY <1>1, <1>2, <1>9, <2>1 DEF PlacementTypeOK, Machine
<1>11. ControlPlaneFailureDomains' = fds
  BY <1>2 DEF fds, ControlPlaneFailureDomains
<1>12. ASSUME spreading PROVE SpreadOver(machines', fds)
  <2>1. SpreadOver(machines, fds)
    BY <1>12, SpreadInvIs DEF fds
  <2>2. QED
    BY <1>1, <1>6, <1>7, <1>8, <2>1, AppendSpreads
<1>13. QED
  BY <1>2, <1>10, <1>11, <1>12, SpreadInvIsNext

\* The machine that scale down picks is outdated, or in a domain with the most
\* machines, or in none for control planes.
LEMMA ScaleDownStep ==
  ASSUME SpreadInv,
         ScaleDownControlPlane(MachinesNeedingRollout)
  PROVE  SpreadInv'
<1> DEFINE O == MachinesNeedingRollout
           E == SelectMachineForScaleDown(O)
           fds == ControlPlaneFailureDomains
<1>1. /\ PlacementTypeOK /\ machines \in Seq(Machine) /\ MaxReplicas \in Nat
      /\ All = 1 .. Len(machines)
  BY Positions, DomainsAssumption DEF SpreadInv, PlacementTypeOK
<1>2. UNCHANGED <<domains, replicas, spreading, changes>>
  BY DEF ScaleDownControlPlane
<1>3. PICK fd \in FailureDomainWithMostMachines(E) :
        /\ InFailureDomain(E, fd) # {}
        /\ machines' = RemoveAt(machines,
                         Oldest(InFailureDomain(E, fd)))
  BY Zenon DEF ScaleDownControlPlane
<1> DEFINE i == Oldest(InFailureDomain(E, fd))
<1>4. O = {j \in All : machines[j].outdated}
  BY DEF MachinesNeedingRollout
<1>5. \/ E = {j \in O : machines[j].marked}
      \/ E = {j \in All : machines[j].marked} /\ {j \in O : machines[j].marked} = {}
      \/ E = O
      \/ E = All /\ O = {}
  BY DEF SelectMachineForScaleDown, MachineWithDeleteAnnotation
<1>6. E \in SUBSET All
  BY <1>4, <1>5
<1> HIDE DEF O, E
<1>7. i \in E /\ machines[i].fd = fd /\ i \in 1 .. Len(machines)
  <2>1. InFailureDomain(E, fd) \in SUBSET Nat
    <3>1. E \subseteq Nat
      BY <1>1, <1>6
    <3>2. InFailureDomain(E, fd) \subseteq E
      BY DEF InFailureDomain
    <3>3. QED
      BY <3>1, <3>2
  <2>2. i \in InFailureDomain(E, fd)
    BY <1>3, <2>1, OldestIsOne
  <2>3. QED
    BY <1>1, <1>6, <2>2 DEF InFailureDomain
<1>8. machines' = RemoveAt(machines, i)
  BY <1>3
<1> HIDE DEF i, fds
<1>9. machines' \in Seq(Machine) /\ Len(machines') = Len(machines) - 1
  BY <1>1, <1>7, <1>8, RemoveAtElements
<1>10. PlacementTypeOK'
  <2>1. Len(machines') <= MaxReplicas + 1
    BY <1>1, <1>9 DEF PlacementTypeOK
  <2>2. QED
    BY <1>1, <1>2, <1>9, <2>1 DEF PlacementTypeOK, Machine
<1>11. ControlPlaneFailureDomains' = fds
  BY <1>2 DEF fds, ControlPlaneFailureDomains
<1>12. ASSUME spreading PROVE SpreadOver(machines', fds)
  <2>1. SpreadOver(machines, fds)
    BY <1>12, SpreadInvIs DEF fds
  <2>2. ASSUME NEW e \in fds, i \in UpToDate(machines, e), NEW d \in fds
        PROVE  Cardinality(UpToDate(machines, d)) <= Cardinality(UpToDate(machines, e))
    <3>1. ~machines[i].outdated /\ e = fd
      BY <1>7, <2>2 DEF UpToDate
    <3>2. ~machines[i].marked
      BY <1>7, <2>1, <3>1 DEF SpreadOver
    <3>3. E = All /\ O = {}
      BY <1>4, <1>5, <1>7, <3>1, <3>2
    <3>4. \A f : InFailureDomain(All, f) = UpToDate(machines, f)
      BY <1>1, <1>4, <3>3 DEF InFailureDomain, UpToDate
    <3>5. fd \in FailureDomainNames
      BY <2>2, <3>1 DEF fds, ControlPlaneFailureDomains, FailureDomainNames
    <3> DEFINE notIn == {j \in All : machines[j].fd \notin FailureDomainNames}
    <3>6. fd \in PickMost(fds, All)
      <4>1. CASE notIn # {}
        <5>1. notIn \in SUBSET Nat
          BY <1>1
        <5>2. Oldest(notIn) \in notIn
          BY <4>1, <5>1, OldestIsOne
        <5>3. fd = machines[Oldest(notIn)].fd
          BY <1>3, <3>3, <4>1 DEF FailureDomainWithMostMachines
        <5>4. QED
          BY <3>5, <5>2, <5>3
      <4>2. CASE notIn = {}
        BY <1>3, <3>3, <4>2 DEF FailureDomainWithMostMachines, fds
      <4>3. QED
        BY <4>1, <4>2
    <3>7. i \in InFailureDomain(All, fd)
      BY <2>2, <3>1, <3>4
    <3>8. \A f \in fds : InFailureDomain(All, f) # {} =>
            Cardinality(InFailureDomain(All, f)) <=
              Cardinality(InFailureDomain(All, fd))
      BY <2>2, <3>1, <3>6, <3>7 DEF PickMost
    <3>9. CASE UpToDate(machines, d) # {}
      BY <3>1, <3>4, <3>8, <3>9
    <3>10. CASE UpToDate(machines, d) = {}
      BY <1>1, <3>10, UpToDateCount, FS_EmptySet
    <3>11. QED
      BY <3>9, <3>10
  <2>3. QED
    BY <1>1, <1>7, <1>8, <2>1, <2>2, RemovalSpreads
<1>13. QED
  BY <1>2, <1>10, <1>11, <1>12, SpreadInvIsNext

\* Other machines than those of the controller's choice end the history.
LEMMA ChangeStep ==
  ASSUME SpreadInv,
         TemplateChanges \/ ReplicasChange \/ DomainChanges
           \/ MachineMarked \/ MachineLost
  PROVE  SpreadInv'
<1>1. /\ PlacementTypeOK /\ machines \in Seq(Machine) /\ changes \in Nat
      /\ MaxChanges \in Nat /\ MaxReplicas \in Nat
      /\ All = 1 .. Len(machines) /\ Len(machines) \in Nat
      /\ Len(machines) <= MaxReplicas + 1
  BY Positions, DomainsAssumption DEF SpreadInv, PlacementTypeOK
<1>2. changes' \in 0 .. MaxChanges
  BY <1>1 DEF TemplateChanges, ReplicasChange, DomainChanges,
     MachineMarked, MachineLost, Change
<1>3. \A i \in 1 .. Len(machines) : machines[i] \in Machine
  BY <1>1
<1>4. CASE TemplateChanges
  <2> DEFINE new(i) == [machines[i] EXCEPT !.outdated = TRUE]
  <2>1. /\ machines' = [i \in 1 .. Len(machines) |-> new(i)]
        /\ spreading' = TRUE /\ UNCHANGED <<domains, replicas>>
    BY <1>1, <1>4 DEF TemplateChanges
  <2>2. \A i \in 1 .. Len(machines) : new(i) \in Machine /\ new(i).outdated = TRUE
    BY <1>3 DEF Machine
  <2> HIDE DEF new
  <2>3. machines' \in Seq(Machine) /\ Len(machines') = Len(machines)
    BY <1>1, <2>1, <2>2
  <2>4. PlacementTypeOK'
    BY <1>1, <1>2, <2>1, <2>3 DEF PlacementTypeOK, Machine
  <2>5. \A i \in 1 .. Len(machines') : machines'[i].outdated
    BY <2>1, <2>2, <2>3
  <2>6. \A d : UpToDate(machines', d) = {}
    BY <2>5 DEF UpToDate
  <2>7. \A d : Cardinality(UpToDate(machines', d)) = 0
    BY <2>6, FS_EmptySet
  <2>8. SpreadOver(machines', ControlPlaneFailureDomains')
    BY <2>5, <2>7 DEF SpreadOver
  <2>9. QED
    BY <2>4, <2>8, SpreadInvIsNext
<1>5. CASE ReplicasChange
  <2>1. replicas' \in 1 .. MaxReplicas /\ UNCHANGED <<domains, machines, spreading>>
    BY <1>5 DEF ReplicasChange
  <2>2. PlacementTypeOK'
    BY <1>1, <1>2, <2>1 DEF PlacementTypeOK, Machine
  <2>3. ControlPlaneFailureDomains' = ControlPlaneFailureDomains
    BY <2>1 DEF ControlPlaneFailureDomains
  <2>4. QED
    BY <2>1, <2>2, <2>3, SpreadInvIs, SpreadInvIsNext
<1>6. CASE DomainChanges
  <2>1. spreading' = FALSE /\ UNCHANGED <<machines, replicas>>
    BY <1>6 DEF DomainChanges
  <2>2. domains' \in [Domains -> {"absent", "other", "control"}]
    BY <1>1, <1>6 DEF DomainChanges, PlacementTypeOK
  <2>3. PlacementTypeOK'
    BY <1>1, <1>2, <2>1, <2>2 DEF PlacementTypeOK, Machine
  <2>4. QED
    BY <2>1, <2>3, SpreadInvIsNext
<1>7. CASE MachineMarked
  <2>1. spreading' = FALSE /\ UNCHANGED <<domains, replicas>>
    BY <1>7 DEF MachineMarked
  <2>2. PICK i \in 1 .. Len(machines) : machines' = [machines EXCEPT ![i].marked = TRUE]
    BY <1>1, <1>7 DEF MachineMarked
  <2> DEFINE new == [machines[i] EXCEPT !.marked = TRUE]
  <2>3. new \in Machine
    BY <1>3 DEF Machine
  <2>4. machines' = [machines EXCEPT ![i] = new]
    BY <2>2
  <2> HIDE DEF new
  <2>5. machines' \in Seq(Machine) /\ Len(machines') = Len(machines)
    BY <1>1, <2>3, <2>4
  <2>6. PlacementTypeOK'
    BY <1>1, <1>2, <2>1, <2>5 DEF PlacementTypeOK, Machine
  <2>7. QED
    BY <2>1, <2>6, SpreadInvIsNext
<1>8. CASE MachineLost
  <2>1. spreading' = FALSE /\ UNCHANGED <<domains, replicas>>
    BY <1>8 DEF MachineLost
  <2>2. PICK i \in 1 .. Len(machines) : machines' = RemoveAt(machines, i)
    BY <1>1, <1>8 DEF MachineLost
  <2>3. machines' \in Seq(Machine) /\ Len(machines') = Len(machines) - 1
    BY <1>1, <2>2, RemoveAtElements
  <2>4. Len(machines') <= MaxReplicas + 1
    BY <1>1, <2>3
  <2>5. PlacementTypeOK'
    BY <1>1, <1>2, <2>1, <2>3, <2>4 DEF PlacementTypeOK, Machine
  <2>6. QED
    BY <2>1, <2>5, SpreadInvIsNext
<1>9. QED
  BY <1>4, <1>5, <1>6, <1>7, <1>8

LEMMA SpreadInvariance ==
  PlacementSpec => []SpreadInv
<1>1. ASSUME PlacementInit PROVE SpreadInv
  <2>1. machines = <<>> /\ machines \in Seq(Machine) /\ Len(machines) = 0
    BY <1>1 DEF PlacementInit
  <2>2. PlacementTypeOK
    BY <1>1, <2>1, DomainsAssumption DEF PlacementInit, PlacementTypeOK
  <2>3. \A d : UpToDate(machines, d) = {}
    BY <2>1 DEF UpToDate
  <2>4. \A d : Cardinality(UpToDate(machines, d)) = 0
    BY <2>3, FS_EmptySet
  <2>5. SpreadOver(machines, ControlPlaneFailureDomains)
    BY <2>1, <2>4 DEF SpreadOver
  <2>6. QED
    BY <2>2, <2>5, SpreadInvIs
<1>2. ASSUME SpreadInv, [PlacementNext]_(placementVars) PROVE SpreadInv'
  <2>1. replicas \in Nat /\ Len(machines) \in Nat
    BY <1>2 DEF SpreadInv, PlacementTypeOK
  <2>2. CASE UpgradeControlPlane
    BY <1>2, <2>1, <2>2, NewMachineStep, ScaleDownStep DEF UpgradeControlPlane
  <2>3. CASE Scale
    BY <1>2, <2>1, <2>3, NewMachineStep, ScaleDownStep DEF Scale
  <2>4. CASE UNCHANGED placementVars
    <3>1. UNCHANGED <<domains, machines, replicas, spreading, changes>>
      BY <2>4 DEF placementVars
    <3>2. PlacementTypeOK'
      BY <1>2, <3>1 DEF SpreadInv, PlacementTypeOK, Machine
    <3>3. ControlPlaneFailureDomains' = ControlPlaneFailureDomains
      BY <3>1 DEF ControlPlaneFailureDomains
    <3>4. QED
      BY <1>2, <3>1, <3>2, <3>3, SpreadInvIs, SpreadInvIsNext
  <2>5. QED
    BY <1>2, <2>2, <2>3, <2>4, ChangeStep DEF PlacementNext, Reconcile
<1>3. PlacementInit => SpreadInv
  BY <1>1
<1>4. SpreadInv /\ [PlacementNext]_(placementVars) => SpreadInv'
  BY <1>2
<1>5. QED
  BY <1>3, <1>4, PTL DEF PlacementSpec

(* A rollout that nobody disturbs leaves the machines of any two failure        *)
(* domains for control planes at most one apart, whatever the spread was before *)
(* and through changes of the replicas, for any number of domains and machines: *)
(* NextFailureDomainForScaleUp and FailureDomainWithMostMachines balance the    *)
(* up-to-date machines although the outdated ones are still in their way.       *)
THEOREM RolloutsSpread ==
  PlacementSpec => []RolloutSpreads
<1>1. SpreadInv => RolloutSpreads
  <2> SUFFICES ASSUME SpreadInv, spreading, MachinesNeedingRollout = {}
               PROVE  \A d, e \in ControlPlaneFailureDomains :
                        Cardinality(InFailureDomain(All, d)) <=
                          Cardinality(InFailureDomain(All, e)) + 1
    BY DEF RolloutSpreads
  <2>1. UpToDateMachines = All
    BY DEF UpToDateMachines
  <2>2. QED
    BY <2>1 DEF SpreadInv, Balanced, UpToDateIn
<1>2. QED
  BY <1>1, SpreadInvariance, PTL

-----------------------------------------------------------------------------
(* Conversion between the versions of the API, for every set of values and of  *)
(* clients and any number of writes.                                          *)

AllKinds == {"kcp", "config", "template"}

LEMMA EmptyIsValue ==
  Empty \in Values
BY ConversionAssumption DEF Empty

\* Two objects with the same fields are the same.
LEMMA SameObject ==
  ASSUME NEW o \in Objects, NEW p \in Objects,
         o.server = p.server, o.agent = p.agent, o.moved = p.moved, o.timeouts = p.timeouts
  PROVE  o = p
BY DEF Objects

LEMMA SameServer ==
  ASSUME NEW s \in ServerConfigs, NEW t \in ServerConfigs,
         s.args = t.args, s.disable = t.disable, s.provider = t.provider,
         s.controller = t.controller, s.registry = t.registry
  PROVE  s = t
BY DEF ServerConfigs

LEMMA SameAgent ==
  ASSUME NEW s \in AgentConfigs, NEW t \in AgentConfigs,
         s.args = t.args, s.script = t.script
  PROVE  s = t
BY DEF AgentConfigs

\* What ServerConfigTo makes of a v1beta1 server configuration.
LEMMA ServerConfigToFields ==
  ASSUME NEW in \in [args : Values, disable : BOOLEAN],
         NEW s, s = ServerConfigTo(in)
  PROVE  /\ s \in ServerConfigs
         /\ s.args = in.args /\ s.disable = in.disable
         /\ s.provider = IF in.disable THEN "" ELSE "external"
         /\ s.controller = ~in.disable
         /\ s.registry = Empty
<1> DEFINE r == AutoServerConfigTo(in)
           p == IF in.disable THEN "" ELSE "external"
           c == ~in.disable
           b == in.disable
<1>1. r \in ServerConfigs /\ r.args = in.args /\ r.registry = Empty
  BY EmptyIsValue DEF AutoServerConfigTo, ServerConfigs, Providers
<1>2. p \in Providers
  BY DEF Providers
<1>3. c \in BOOLEAN
  OBVIOUS
<1>4. b \in BOOLEAN
  OBVIOUS
<1>5. s = [r EXCEPT !.disable = b, !.provider = p, !.controller = c]
  BY DEF ServerConfigTo
<1> HIDE DEF r, p, c, b
<1>6. /\ s \in ServerConfigs
      /\ s.args = r.args /\ s.disable = b /\ s.provider = p /\ s.controller = c
      /\ s.registry = r.registry
  BY <1>1, <1>2, <1>3, <1>4, <1>5 DEF ServerConfigs
<1>7. QED
  BY <1>1, <1>6 DEF p, c, b

\* What ConvertTo makes of an object without the annotation.
LEMMA ConvertPlain ==
  ASSUME NEW k \in AllKinds, NEW in \in OldObjects,
         in.data = Unset, NEW o, o = ConvertTo(k, in)
  PROVE  /\ o \in Objects
         /\ o.server = ServerConfigTo(in.server)
         /\ o.agent.args = in.agent.args /\ o.agent.script = Empty
         /\ o.moved = IF k = "kcp" THEN in.moved ELSE Unset
         /\ o.timeouts = IF k = "kcp" THEN Empty ELSE Unset
<1> DEFINE s == ServerConfigTo(in.server)
           a == AgentConfigTo(in.agent)
           r == ConfigTo(in)
           e == Empty
<1>1. /\ in.server \in [args : Values, disable : BOOLEAN] /\ in.agent \in [args : Values]
      /\ in.moved \in Values \cup {Unset} /\ e \in Values
  BY EmptyIsValue DEF OldObjects
<1>2. s \in ServerConfigs
  BY <1>1, ServerConfigToFields
<1>3. a \in AgentConfigs /\ a.args = in.agent.args /\ a.script = e
  BY <1>1 DEF AgentConfigs, AgentConfigTo
<1> HIDE DEF s, a, e
<1>4. r = [server |-> s, agent |-> a, moved |-> Unset, timeouts |-> Unset]
  BY DEF ConfigTo, s, a
<1>5. /\ r \in Objects /\ r.server = s /\ r.agent = a
      /\ r.moved = Unset /\ r.timeouts = Unset
  BY <1>2, <1>3, <1>4 DEF Objects
<1> HIDE DEF r
<1>6. CASE k = "kcp"
  <2>1. o = [r EXCEPT !.moved = in.moved, !.timeouts = e]
    BY <1>6 DEF ConvertTo, ControlPlaneTo, r, e
  <2>2. /\ o \in Objects /\ o.server = s /\ o.agent = a
        /\ o.moved = in.moved /\ o.timeouts = e
    BY <1>1, <1>5, <2>1 DEF Objects
  <2>3. QED
    BY <1>3, <1>6, <2>2 DEF s, e
<1>7. CASE k # "kcp"
  <2>1. o = r
    BY <1>7 DEF ConvertTo, TemplateTo, AllKinds, r
  <2>2. QED
    BY <1>3, <1>5, <1>7, <2>1 DEF s, e
<1>8. QED
  BY <1>6, <1>7

\* RestoreConfig takes over the fields of the annotation that v1beta1 has no
\* place for, and leaves the others alone.
LEMMA RestoreFields ==
  ASSUME NEW r \in Objects, NEW d \in Objects,
         NEW o, o = RestoreConfig(r, d)
  PROVE  /\ o \in Objects
         /\ o.server.args = r.server.args
         /\ o.server.disable = d.server.disable
         /\ o.server.provider = d.server.provider
         /\ o.server.controller = d.server.controller
         /\ o.server.registry = d.server.registry
         /\ o.agent.args = r.agent.args /\ o.agent.script = d.agent.script
         /\ o.moved = r.moved /\ o.timeouts = r.timeouts
<1> DEFINE p == d.server.provider
           b == d.server.disable
           c == d.server.controller
           g == d.server.registry
           x == d.agent.script
           r1 == [r EXCEPT !.server.provider = p]
           r2 == [r1 EXCEPT !.server.disable = b]
           r3 == [r2 EXCEPT !.server.controller = c]
           r4 == [r3 EXCEPT !.server.registry = g]
           r5 == [r4 EXCEPT !.agent.script = x]
<1>1. d.server \in ServerConfigs /\ d.agent \in AgentConfigs
  BY DEF Objects
<1>2. /\ p \in Providers /\ b \in BOOLEAN /\ c \in BOOLEAN \cup {Unset}
      /\ g \in Values /\ x \in Values
  BY <1>1 DEF ServerConfigs, AgentConfigs
<1>3. o = r5
  BY DEF RestoreConfig
<1> HIDE DEF p, b, c, g, x
<1>4. /\ r1 \in Objects
      /\ r1.server = [r.server EXCEPT !.provider = p]
      /\ r1.agent = r.agent /\ r1.moved = r.moved /\ r1.timeouts = r.timeouts
  BY <1>2 DEF Objects, ServerConfigs
<1> HIDE DEF r1
<1>5. /\ r2 \in Objects
      /\ r2.server = [r1.server EXCEPT !.disable = b]
      /\ r2.agent = r1.agent /\ r2.moved = r1.moved /\ r2.timeouts = r1.timeouts
  BY <1>2, <1>4 DEF Objects, ServerConfigs
<1> HIDE DEF r2
<1>6. /\ r3 \in Objects
      /\ r3.server = [r2.server EXCEPT !.controller = c]
      /\ r3.agent = r2.agent /\ r3.moved = r2.moved /\ r3.timeouts = r2.timeouts
  BY <1>2, <1>5 DEF Objects, ServerConfigs
<1> HIDE DEF r3
<1>7. /\ r4 \in Objects
      /\ r4.server = [r3.server EXCEPT !.registry = g]
      /\ r4.agent = r3.agent /\ r4.moved = r3.moved /\ r4.timeouts = r3.timeouts
  BY <1>2, <1>6 DEF Objects, ServerConfigs
<1> HIDE DEF r4
<1>8. /\ r5 \in Objects
      /\ r5.agent = [r4.agent EXCEPT !.script = x]
      /\ r5.server = r4.server /\ r5.moved = r4.moved /\ r5.timeouts = r4.timeouts
  BY <1>2, <1>7 DEF Objects, AgentConfigs
<1> HIDE DEF r5
<1>9. /\ r.server \in ServerConfigs /\ r1.server \in ServerConfigs
      /\ r2.server \in ServerConfigs /\ r3.server \in ServerConfigs
      /\ r4.agent \in AgentConfigs
  BY <1>4, <1>5, <1>6, <1>7 DEF Objects
<1>10. /\ r1.server.args = r.server.args /\ r1.server.provider = p
  BY <1>4, <1>9 DEF ServerConfigs
<1>11. /\ r2.server.args = r1.server.args /\ r2.server.provider = r1.server.provider
       /\ r2.server.disable = b
  BY <1>5, <1>9 DEF ServerConfigs
<1>12. /\ r3.server.args = r2.server.args /\ r3.server.provider = r2.server.provider
       /\ r3.server.disable = r2.server.disable /\ r3.server.controller = c
  BY <1>6, <1>9 DEF ServerConfigs
<1>13. /\ r4.server.args = r3.server.args /\ r4.server.provider = r3.server.provider
       /\ r4.server.disable = r3.server.disable /\ r4.server.controller = r3.server.controller
       /\ r4.server.registry = g
  BY <1>7, <1>9 DEF ServerConfigs
<1>14. r5.agent.args = r4.agent.args /\ r5.agent.script = x
  BY <1>8, <1>9 DEF AgentConfigs
<1>15. QED
  BY <1>3, <1>4, <1>5, <1>6, <1>7, <1>8, <1>10, <1>11, <1>12, <1>13, <1>14 DEF p, b, c, g, x

\* RestoreControlPlane restores one field more.
LEMMA RestoreControlPlaneIs ==
  ASSUME NEW r, NEW d
  PROVE  RestoreControlPlane(r, d)
           = [RestoreConfig(r, d) EXCEPT !.timeouts = d.timeouts]
BY DEF RestoreControlPlane, RestoreConfig

\* What ConvertTo makes of an object with the annotation: the fields v1beta1 has
\* no place for are the ones of the annotation.
LEMMA ConvertRestored ==
  ASSUME NEW k \in AllKinds, NEW in \in OldObjects,
         in.data # Unset, NEW o, o = ConvertTo(k, in)
  PROVE  /\ o \in Objects
         /\ o.server.args = in.server.args
         /\ o.server.disable = in.data.server.disable
         /\ o.server.provider = in.data.server.provider
         /\ o.server.controller = in.data.server.controller
         /\ o.server.registry = in.data.server.registry
         /\ o.agent.args = in.agent.args /\ o.agent.script = in.data.agent.script
         /\ o.moved = IF k = "kcp" THEN in.moved ELSE Unset
         /\ o.timeouts = IF k = "kcp" THEN in.data.timeouts ELSE Unset
<1> DEFINE plain == [in EXCEPT !.data = Unset]
           r == ConvertTo(k, plain)
           d == in.data
           q == RestoreConfig(r, d)
<1>1. /\ plain \in OldObjects /\ plain.data = Unset
      /\ plain.server = in.server /\ plain.agent = in.agent /\ plain.moved = in.moved
      /\ in.server \in [args : Values, disable : BOOLEAN]
      /\ d \in Objects
  BY DEF OldObjects
<1>2. d.timeouts \in Values \cup {Unset}
  BY <1>1 DEF Objects
<1> HIDE DEF plain, r, d, q
<1>3. /\ r \in Objects
      /\ r.server = ServerConfigTo(in.server)
      /\ r.agent.args = in.agent.args
      /\ r.moved = IF k = "kcp" THEN in.moved ELSE Unset
      /\ r.timeouts = IF k = "kcp" THEN Empty ELSE Unset
  BY <1>1, ConvertPlain DEF r
<1>4. r.server.args = in.server.args
  BY <1>1, <1>3, ServerConfigToFields
<1>5. /\ q \in Objects
      /\ q.server.args = r.server.args
      /\ q.server.disable = d.server.disable
      /\ q.server.provider = d.server.provider
      /\ q.server.controller = d.server.controller
      /\ q.server.registry = d.server.registry
      /\ q.agent.args = r.agent.args /\ q.agent.script = d.agent.script
      /\ q.moved = r.moved /\ q.timeouts = r.timeouts
  BY <1>1, <1>3, RestoreFields DEF q
<1>6. CASE k = "kcp"
  <2>1. r = ControlPlaneTo(plain)
    BY <1>1, <1>6 DEF ConvertTo, r
  <2>2. ControlPlaneTo(plain) = ControlPlaneTo(in)
    BY <1>1 DEF ControlPlaneTo, ConfigTo
  <2>3. o = RestoreControlPlane(r, d)
    BY <1>6, <2>1, <2>2 DEF ConvertTo, d
  <2>4. o = [q EXCEPT !.timeouts = d.timeouts]
    BY <2>3, RestoreControlPlaneIs DEF q
  <2>5. /\ o \in Objects /\ o.server = q.server /\ o.agent = q.agent
        /\ o.moved = q.moved /\ o.timeouts = d.timeouts
    BY <1>2, <1>5, <2>4 DEF Objects
  <2>6. QED
    BY <1>3, <1>4, <1>5, <1>6, <2>5 DEF d
<1>7. CASE k # "kcp"
  <2>1. r = ConfigTo(plain)
    BY <1>1, <1>7 DEF ConvertTo, TemplateTo, AllKinds, r
  <2>2. ConfigTo(plain) = ConfigTo(in)
    BY <1>1 DEF ConfigTo
  <2>3. o = q
    BY <1>7, <2>1, <2>2 DEF ConvertTo, RestoreTemplate,
       TemplateTo, AllKinds, d, q
  <2>4. QED
    BY <1>3, <1>4, <1>5, <1>7, <2>3 DEF d
<1>8. QED
  BY <1>6, <1>7

\* What ConvertFrom makes of an object.
LEMMA ConvertFromFields ==
  ASSUME NEW k \in AllKinds, NEW o \in Objects,
         NEW old, old = ConvertFrom(k, o)
  PROVE  /\ old \in OldObjects
         /\ old.server.args = o.server.args /\ old.server.disable = o.server.disable
         /\ old.agent.args = o.agent.args
         /\ old.moved = IF k = "kcp" THEN o.moved ELSE Unset
         /\ old.data = o
<1> DEFINE s == ServerConfigFrom(o.server)
           a == AgentConfigFrom(o.agent)
           r == ConfigFrom(o)
           b == o.server.disable
<1>1. /\ o.server \in ServerConfigs /\ o.agent \in AgentConfigs
      /\ o.moved \in Values \cup {Unset}
  BY DEF Objects
<1>2. o.server.args \in Values /\ b \in BOOLEAN /\ o.agent.args \in Values
  BY <1>1 DEF ServerConfigs, AgentConfigs
<1>3. s = [AutoServerConfigFrom(o.server) EXCEPT !.disable = b]
  BY DEF ServerConfigFrom
<1> HIDE DEF b
<1>4. s \in [args : Values, disable : BOOLEAN] /\ s.args = o.server.args /\ s.disable = b
  BY <1>2, <1>3 DEF AutoServerConfigFrom
<1>5. a \in [args : Values] /\ a.args = o.agent.args
  BY <1>2 DEF AgentConfigFrom
<1> HIDE DEF s, a
<1>6. r = [server |-> s, agent |-> a, moved |-> Unset, data |-> Unset]
  BY DEF ConfigFrom, s, a
<1>7. r \in OldObjects /\ r.server = s /\ r.agent = a /\ r.moved = Unset
  BY <1>4, <1>5, <1>6 DEF OldObjects
<1> HIDE DEF r
<1>8. CASE k = "kcp"
  <2>1. old = [[r EXCEPT !.moved = o.moved] EXCEPT !.data = o]
    BY <1>8 DEF ConvertFrom, MarshalData, ControlPlaneFrom, r
  <2>2. /\ old \in OldObjects /\ old.server = s /\ old.agent = a
        /\ old.moved = o.moved /\ old.data = o
    BY <1>1, <1>7, <2>1 DEF OldObjects
  <2>3. QED
    BY <1>4, <1>5, <1>8, <2>2 DEF b
<1>9. CASE k # "kcp"
  <2>1. old = [r EXCEPT !.data = o]
    BY <1>9 DEF ConvertFrom, MarshalData, TemplateFrom,
       AllKinds, r
  <2>2. /\ old \in OldObjects /\ old.server = s /\ old.agent = a
        /\ old.moved = Unset /\ old.data = o
    BY <1>1, <1>7, <2>1 DEF OldObjects
  <2>3. QED
    BY <1>4, <1>5, <1>9, <2>2 DEF b
<1>10. QED
  BY <1>8, <1>9

\* The fields a kind of object does not have.
Fitting(k, o) == k # "kcp" => o.moved = Unset /\ o.timeouts = Unset

\* An object shown as v1beta1 and converted back is the same object.
LEMMA RoundTrip ==
  ASSUME NEW k \in AllKinds, NEW o \in Objects, Fitting(k, o)
  PROVE  ConvertTo(k, ConvertFrom(k, o)) = o
<1> DEFINE old == ConvertFrom(k, o)
           back == ConvertTo(k, old)
<1>1. /\ old \in OldObjects
      /\ old.server.args = o.server.args
      /\ old.agent.args = o.agent.args
      /\ old.moved = IF k = "kcp" THEN o.moved ELSE Unset
      /\ old.data = o
  BY ConvertFromFields
<1>2. old.data # Unset
  BY <1>1, ConversionAssumption
<1> HIDE DEF old
<1>3. /\ back \in Objects
      /\ back.server.args = o.server.args
      /\ back.server.disable = o.server.disable
      /\ back.server.provider = o.server.provider
      /\ back.server.controller = o.server.controller
      /\ back.server.registry = o.server.registry
      /\ back.agent.args = o.agent.args /\ back.agent.script = o.agent.script
      /\ back.moved = IF k = "kcp" THEN old.moved ELSE Unset
      /\ back.timeouts = IF k = "kcp" THEN o.timeouts ELSE Unset
  BY <1>1, <1>2, ConvertRestored
<1> HIDE DEF back
<1>4. /\ back.server \in ServerConfigs /\ o.server \in ServerConfigs
      /\ back.agent \in AgentConfigs /\ o.agent \in AgentConfigs
  BY <1>3 DEF Objects
<1>5. back.server = o.server
  BY <1>3, <1>4, SameServer
<1>6. back.agent = o.agent
  BY <1>3, <1>4, SameAgent
<1>7. back.moved = o.moved /\ back.timeouts = o.timeouts
  BY <1>1, <1>3 DEF Fitting
<1>8. back = o
  BY <1>3, <1>5, <1>6, <1>7, SameObject
<1>9. QED
  BY <1>8 DEF back, old

\* The defaults are there where the webhook sets them.
Defaulted(k, o) == k # "template" => o.server.provider # Unset /\ o.server.controller # Unset

\* Defaulting sets the two fields if they are not set, and no other.
LEMMA DefaultFields ==
  ASSUME NEW k \in AllKinds, NEW o \in Objects,
         NEW q, q = Default(k, o)
  PROVE  /\ q \in Objects /\ Defaulted(k, q)
         /\ q.server.args = o.server.args /\ q.server.disable = o.server.disable
         /\ q.server.registry = o.server.registry
         /\ o.server.provider # Unset => q.server.provider = o.server.provider
         /\ o.server.controller # Unset => q.server.controller = o.server.controller
         /\ q.agent = o.agent /\ q.moved = o.moved /\ q.timeouts = o.timeouts
<1> DEFINE c == IF o.server.controller = Unset THEN TRUE ELSE o.server.controller
           p == IF o.server.provider = Unset THEN "external" ELSE o.server.provider
<1>1. o.server \in ServerConfigs
  BY DEF Objects
<1>2. o.server.controller \in BOOLEAN \cup {Unset} /\ o.server.provider \in Providers
  BY <1>1 DEF ServerConfigs
<1>3. c \in BOOLEAN \cup {Unset} /\ c # Unset
  BY <1>2, ConversionAssumption
<1>4. p \in Providers /\ p # Unset
  BY <1>2, ConversionAssumption DEF Providers
<1>5. /\ o.server.provider # Unset => p = o.server.provider
      /\ o.server.controller # Unset => c = o.server.controller
  OBVIOUS
<1>6. CASE k = "template"
  BY <1>6 DEF Default, Defaulted
<1>7. CASE k # "template"
  <2> DEFINE r == [o EXCEPT !.server.controller = c]
  <2>1. q = [r EXCEPT !.server.provider = p]
    BY <1>7 DEF Default, DefaultControlPlane, DefaultConfig,
       AllKinds
  <2> HIDE DEF c, p
  <2>2. /\ r \in Objects /\ r.server = [o.server EXCEPT !.controller = c]
        /\ r.agent = o.agent /\ r.moved = o.moved /\ r.timeouts = o.timeouts
    BY <1>3 DEF Objects, ServerConfigs
  <2> HIDE DEF r
  <2>3. /\ q \in Objects /\ q.server = [r.server EXCEPT !.provider = p]
        /\ q.agent = r.agent /\ q.moved = r.moved /\ q.timeouts = r.timeouts
    BY <1>4, <2>1, <2>2 DEF Objects, ServerConfigs
  <2>4. r.server \in ServerConfigs
    BY <2>2 DEF Objects
  <2>5. /\ r.server.args = o.server.args /\ r.server.disable = o.server.disable
        /\ r.server.registry = o.server.registry /\ r.server.controller = c
    BY <1>1, <2>2 DEF ServerConfigs
  <2>6. /\ q.server.args = r.server.args /\ q.server.disable = r.server.disable
        /\ q.server.registry = r.server.registry /\ q.server.controller = r.server.controller
        /\ q.server.provider = p
    BY <2>3, <2>4 DEF ServerConfigs
  <2>7. QED
    BY <1>3, <1>4, <1>5, <2>2, <2>3, <2>5, <2>6 DEF Defaulted
<1>8. QED
  BY <1>6, <1>7

\* What has its defaults is not changed by defaulting.
LEMMA DefaultIsIdempotent ==
  ASSUME NEW k \in AllKinds, NEW o \in Objects, Defaulted(k, o)
  PROVE  Default(k, o).server = o.server
<1> DEFINE q == Default(k, o)
<1>1. CASE k = "template"
  BY <1>1 DEF Default
<1>2. CASE k # "template"
  <2>1. /\ q \in Objects
        /\ q.server.args = o.server.args /\ q.server.disable = o.server.disable
        /\ q.server.registry = o.server.registry
        /\ q.server.provider = o.server.provider
        /\ q.server.controller = o.server.controller
    BY <1>2, DefaultFields DEF Defaulted
  <2> HIDE DEF q
  <2>2. q.server \in ServerConfigs /\ o.server \in ServerConfigs
    BY <2>1 DEF Objects
  <2>3. q.server = o.server
    BY <2>1, <2>2, SameServer
  <2>4. QED
    BY <2>3 DEF q
<1>3. QED
  BY <1>1, <1>2

\* An object converted from v1beta1 is one of v1beta2, without the fields its
\* kind does not have.
LEMMA ConvertFits ==
  ASSUME NEW k \in AllKinds, NEW in \in OldObjects
  PROVE  /\ ConvertTo(k, in) \in Objects
         /\ Fitting(k, ConvertTo(k, in))
<1>1. CASE in.data = Unset
  BY <1>1, ConvertPlain DEF Fitting
<1>2. CASE in.data # Unset
  BY <1>2, ConvertRestored DEF Fitting
<1>3. QED
  BY <1>1, <1>2

\* The configuration that comes out of ConvertTo depends on the configuration
\* and the annotation that go in, and not on the fields kept elsewhere.
LEMMA SameConfigConverts ==
  ASSUME NEW k \in AllKinds, NEW l \in AllKinds,
         NEW x \in OldObjects, NEW y \in OldObjects,
         x.server = y.server, x.agent = y.agent, x.data = y.data
  PROVE  /\ ConvertTo(k, x).server = ConvertTo(l, y).server
         /\ ConvertTo(k, x).agent = ConvertTo(l, y).agent
<1> DEFINE v == ConvertTo(k, x)
           w == ConvertTo(l, y)
<1>1. v \in Objects /\ w \in Objects
  BY ConvertFits
<1>2. /\ v.server \in ServerConfigs /\ w.server \in ServerConfigs
      /\ v.agent \in AgentConfigs /\ w.agent \in AgentConfigs
  BY <1>1 DEF Objects
<1>3. CASE x.data = Unset
  <2>1. /\ v.server = ServerConfigTo(x.server)
        /\ v.agent.args = x.agent.args /\ v.agent.script = Empty
    BY <1>3, ConvertPlain
  <2>2. /\ w.server = ServerConfigTo(y.server)
        /\ w.agent.args = y.agent.args /\ w.agent.script = Empty
    BY <1>3, ConvertPlain
  <2> HIDE DEF v, w
  <2>3. v.agent = w.agent
    BY <1>2, <2>1, <2>2, SameAgent
  <2>4. QED
    BY <2>1, <2>2, <2>3 DEF v, w
<1>4. CASE x.data # Unset
  <2>1. /\ v.server.args = x.server.args
        /\ v.server.disable = x.data.server.disable
        /\ v.server.provider = x.data.server.provider
        /\ v.server.controller = x.data.server.controller
        /\ v.server.registry = x.data.server.registry
        /\ v.agent.args = x.agent.args /\ v.agent.script = x.data.agent.script
    BY <1>4, ConvertRestored
  <2>2. /\ w.server.args = x.server.args
        /\ w.server.disable = x.data.server.disable
        /\ w.server.provider = x.data.server.provider
        /\ w.server.controller = x.data.server.controller
        /\ w.server.registry = x.data.server.registry
        /\ w.agent.args = x.agent.args /\ w.agent.script = x.data.agent.script
    BY <1>4, ConvertRestored
  <2> HIDE DEF v, w
  <2>3. v.server = w.server
    BY <1>2, <2>1, <2>2, SameServer
  <2>4. v.agent = w.agent
    BY <1>2, <2>1, <2>2, SameAgent
  <2>5. QED
    BY <2>3, <2>4 DEF v, w
<1>5. QED
  BY <1>3, <1>4

\* What is stored when a v1beta1 object is written is what the webhook made of
\* it: converting it back and forth once more changes nothing.
LEMMA OldWriteStored ==
  ASSUME NEW k \in AllKinds, NEW in \in OldObjects
  PROVE  Stored(k, "v1beta1", in) = Default(k, ConvertTo(k, in))
<1> DEFINE o == ConvertTo(k, in)
           q == Default(k, o)
<1>1. o \in Objects /\ Fitting(k, o)
  BY ConvertFits
<1> HIDE DEF o
<1>2. q \in Objects /\ q.moved = o.moved /\ q.timeouts = o.timeouts
  BY <1>1, DefaultFields
<1>3. Fitting(k, q)
  BY <1>1, <1>2 DEF Fitting
<1> HIDE DEF q
<1>4. ConvertTo(k, ConvertFrom(k, q)) = q
  BY <1>2, <1>3, RoundTrip
<1>5. QED
  BY <1>4 DEF Stored, o, q

\* Whatever is written is stored as an object with its defaults.
LEMMA StoredIsWell ==
  ASSUME NEW k \in AllKinds,
         NEW f \in Versions, NEW in,
         f = "v1beta1" => in \in OldObjects,
         f = "v1beta2" => in \in Objects /\ Fitting(k, in)
  PROVE  /\ Stored(k, f, in) \in Objects
         /\ Fitting(k, Stored(k, f, in))
         /\ Defaulted(k, Stored(k, f, in))
<1> DEFINE o == IF f = "v1beta1" THEN ConvertTo(k, in) ELSE in
           q == Default(k, o)
<1>1. o \in Objects /\ Fitting(k, o)
  BY ConvertFits DEF Versions
<1>2. Stored(k, f, in) = q
  BY OldWriteStored DEF Stored, Versions
<1> HIDE DEF o
<1>3. /\ q \in Objects /\ Defaulted(k, q)
      /\ q.moved = o.moved /\ q.timeouts = o.timeouts
  BY <1>1, DefaultFields
<1> HIDE DEF q
<1>4. QED
  BY <1>1, <1>2, <1>3 DEF Fitting

\* What a client may make of what it read.
LEMMA OldEditIs ==
  ASSUME NEW x \in OldObjects, NEW y \in OldEdits(x)
  PROVE  /\ y \in OldObjects
         /\ y.data = x.data \/ y.data = Unset
         /\ x.moved = Unset => y.moved = Unset
<1>0. \/ y \in {x, [x EXCEPT !.data = Unset]}
      \/ y \in {[x EXCEPT !.server.args = v] : v \in Values}
      \/ y \in {[x EXCEPT !.moved = v] : v \in IF x.moved = Unset THEN {} ELSE Values}
      \/ y \in {[x EXCEPT !.server.disable = b] : b \in BOOLEAN}
      \/ y \in {[x EXCEPT !.server.disable = b, !.data = Unset] : b \in BOOLEAN}
  BY DEF OldEdits
<1>1. CASE y = x
  BY <1>1
<1>2. CASE y = [x EXCEPT !.data = Unset]
  BY <1>2 DEF OldObjects
<1>3. CASE \E v \in Values : y = [x EXCEPT !.server.args = v]
  BY <1>3 DEF OldObjects
<1>4. CASE x.moved # Unset /\ \E v \in Values : y = [x EXCEPT !.moved = v]
  BY <1>4 DEF OldObjects
<1>5. CASE \E b \in BOOLEAN : y = [x EXCEPT !.server.disable = b]
  BY <1>5 DEF OldObjects
<1>6. CASE \E b \in BOOLEAN : y = [x EXCEPT !.server.disable = b, !.data = Unset]
  BY <1>6 DEF OldObjects
<1>7. QED
  BY <1>0, <1>1, <1>2, <1>3, <1>4, <1>5, <1>6

LEMMA NewEditIs ==
  ASSUME NEW k \in AllKinds, NEW x \in Objects, Fitting(k, x),
         NEW y \in NewEdits(x)
  PROVE  y \in Objects /\ Fitting(k, y)
<1>0. x.server \in ServerConfigs /\ x.agent \in AgentConfigs
  BY DEF Objects
<1>1. CASE y = x
  BY <1>1
<1>2. CASE \E v \in Values : y = [x EXCEPT !.server.args = v]
  BY <1>0, <1>2 DEF Objects, ServerConfigs, Fitting
<1>3. CASE x.moved # Unset /\ \E v \in Values : y = [x EXCEPT !.moved = v]
  BY <1>3 DEF Objects, Fitting
<1>4. CASE x.timeouts # Unset /\ \E v \in Values : y = [x EXCEPT !.timeouts = v]
  BY <1>4 DEF Objects, Fitting
<1>5. CASE \E b \in BOOLEAN : y = [x EXCEPT !.server.disable = b]
  BY <1>0, <1>5 DEF Objects, ServerConfigs, Fitting
<1>6. CASE \E p \in Providers : y = [x EXCEPT !.server.provider = p]
  BY <1>0, <1>6 DEF Objects, ServerConfigs, Fitting
<1>7. CASE \E b \in BOOLEAN \cup {Unset} : y = [x EXCEPT !.server.controller = b]
  BY <1>0, <1>7 DEF Objects, ServerConfigs, Fitting
<1>8. CASE \E v \in Values : y = [x EXCEPT !.server.registry = v]
  BY <1>0, <1>8 DEF Objects, ServerConfigs, Fitting
<1>9. CASE \E v \in Values : y = [x EXCEPT !.agent.script = v]
  BY <1>0, <1>9 DEF Objects, AgentConfigs, Fitting
<1>10. QED
  BY <1>1, <1>2, <1>3, <1>4, <1>5, <1>6, <1>7, <1>8, <1>9 DEF NewEdits

-----------------------------------------------------------------------------
(* The invariant of conversion.                                              *)

\* What the controllers see is an object of v1beta2 with its defaults.
LEMMA SeenIsWell ==
  ASSUME NEW k \in AllKinds, WellStored(k)
  PROVE  /\ Seen(k) \in Objects
         /\ Fitting(k, Seen(k)) /\ Defaulted(k, Seen(k))
<1>1. CASE stored[k].format = "v1beta1"
  BY <1>1, ConvertFits DEF WellStored, Seen, Defaulted
<1>2. CASE stored[k].format = "v1beta2"
  BY <1>2 DEF WellStored, Seen, Defaulted, Fitting
<1>3. QED
  BY <1>1, <1>2 DEF WellStored

\* What a client of either version is shown converts to what the controllers see.
LEMMA ShownConverts ==
  ASSUME NEW k \in AllKinds, WellStored(k)
  PROVE  /\ Shown(k, "v1beta2") = Seen(k)
         /\ Shown(k, "v1beta1") \in OldObjects
         /\ ConvertTo(k, Shown(k, "v1beta1")) = Seen(k)
         /\ Shown(k, "v1beta1").data \in {Unset, Seen(k)}
         /\ k # "kcp" => Shown(k, "v1beta1").moved = Unset
<1>1. CASE stored[k].format = "v1beta1"
  BY <1>1 DEF WellStored, Seen, Shown
<1>2. CASE stored[k].format = "v1beta2"
  <2> DEFINE o == stored[k].object
  <2>1. /\ Seen(k) = o /\ Shown(k, "v1beta2") = o
        /\ Shown(k, "v1beta1") = ConvertFrom(k, o)
    BY <1>2 DEF Seen, Shown
  <2>2. o \in Objects /\ Fitting(k, o)
    BY <2>1, SeenIsWell
  <2> HIDE DEF o
  <2>3. ConvertTo(k, ConvertFrom(k, o)) = o
    BY <2>2, RoundTrip
  <2>4. /\ ConvertFrom(k, o) \in OldObjects
        /\ ConvertFrom(k, o).data = o
        /\ k # "kcp" => ConvertFrom(k, o).moved = Unset
    BY <2>2, ConvertFromFields
  <2>5. QED
    BY <2>1, <2>3, <2>4
<1>3. QED
  BY <1>1, <1>2 DEF WellStored

\* An accepted write is one of what is shown now.
LEMMA CurrentCopy ==
  ASSUME ConversionInv,
         NEW c \in Clients, copy[c] # Unset,
         copy[c].version = stored[copy[c].kind].version,
         NEW y \in Edits(c)
  PROVE  /\ copy[c].kind \in Kinds /\ copy[c].kind \in AllKinds
         /\ WellStored(copy[c].kind)
         /\ copy[c].format \in Versions
         /\ copy[c].object = Shown(copy[c].kind, copy[c].format)
         /\ copy[c].format = "v1beta1" =>
              y \in OldEdits(copy[c].object) /\ y \in OldObjects
         /\ copy[c].format = "v1beta2" =>
              /\ copy[c].object = Seen(copy[c].kind)
              /\ y \in Objects /\ Fitting(copy[c].kind, y)
<1> DEFINE k == copy[c].kind
<1>1. /\ k \in Kinds /\ k \in AllKinds /\ WellStored(k)
      /\ copy[c].format \in Versions
      /\ copy[c].object = Shown(k, copy[c].format)
  BY DEF ConversionInv, WellRead, AllKinds
<1> HIDE DEF k
<1>2. ASSUME copy[c].format = "v1beta1"
      PROVE  y \in OldEdits(copy[c].object) /\ y \in OldObjects
  <2>1. y \in OldEdits(copy[c].object)
    BY <1>2 DEF Edits
  <2>2. copy[c].object \in OldObjects
    BY <1>1, <1>2, ShownConverts
  <2>3. QED
    BY <2>1, <2>2, OldEditIs
<1>3. ASSUME copy[c].format = "v1beta2"
      PROVE  /\ copy[c].object = Seen(k)
             /\ y \in Objects /\ Fitting(k, y)
  <2>1. y \in NewEdits(copy[c].object)
    BY <1>3 DEF Edits
  <2>2. copy[c].object = Seen(k)
    BY <1>1, <1>3, ShownConverts
  <2>3. Seen(k) \in Objects /\ Fitting(k, Seen(k))
    BY <1>1, SeenIsWell
  <2>4. QED
    BY <1>1, <2>1, <2>2, <2>3, NewEditIs
<1>4. QED
  BY <1>1, <1>2, <1>3 DEF k

\* A write that changes no configuration leaves what the controllers compare.
LEMMA ConfigKept ==
  ASSUME ConversionInv,
         NEW c \in Clients, copy[c] # Unset,
         copy[c].version = stored[copy[c].kind].version,
         NEW y \in Edits(c), ~ChangesConfig(c, y),
         NEW q, q = Stored(copy[c].kind, copy[c].format, y)
  PROVE  /\ q.server = Seen(copy[c].kind).server
         /\ q.agent = Seen(copy[c].kind).agent
<1> DEFINE k == copy[c].kind
           x == copy[c].object
           now == Seen(k)
<1>1. /\ k \in AllKinds /\ WellStored(k) /\ copy[c].format \in Versions
      /\ x = Shown(k, copy[c].format)
      /\ copy[c].format = "v1beta1" => y \in OldObjects
      /\ copy[c].format = "v1beta2" => x = now /\ y \in Objects
  BY CurrentCopy
<1>2. /\ y.server = x.server /\ y.agent = x.agent
      /\ copy[c].format = "v1beta1" => y.data = x.data
  BY DEF ChangesConfig
<1> HIDE DEF k, x
<1>3. now \in Objects /\ Defaulted(k, now)
  BY <1>1, SeenIsWell
<1> HIDE DEF now
<1>4. PICK o \in Objects :
        q = Default(k, o) /\ o.server = now.server /\ o.agent = now.agent
  <2>1. CASE copy[c].format = "v1beta1"
    <3> DEFINE o == ConvertTo(k, y)
    <3>1. /\ x \in OldObjects /\ y \in OldObjects
          /\ ConvertTo(k, x) = now
      BY <1>1, <2>1, ShownConverts DEF now
    <3>2. o.server = now.server /\ o.agent = now.agent
      BY <1>1, <1>2, <2>1, <3>1, SameConfigConverts
    <3>3. q = Default(k, o)
      BY <1>1, <2>1, <3>1, OldWriteStored DEF k
    <3>4. o \in Objects
      BY <1>1, <3>1, ConvertFits
    <3>5. QED
      BY <3>2, <3>3, <3>4
  <2>2. CASE copy[c].format = "v1beta2"
    <3>1. q = Default(k, y)
      BY <2>2 DEF Stored, k
    <3>2. QED
      BY <1>1, <1>2, <2>2, <3>1
  <2>3. QED
    BY <1>1, <2>1, <2>2 DEF Versions
<1>5. Defaulted(k, o)
  BY <1>3, <1>4 DEF Defaulted
<1>6. q.server = o.server
  BY <1>1, <1>4, <1>5, DefaultIsIdempotent
<1>7. q.agent = o.agent
  BY <1>1, <1>4, DefaultFields
<1>8. QED
  BY <1>4, <1>6, <1>7 DEF now, k

LEMMA ConversionInvInit ==
  ASSUME ConversionInit
  PROVE  ConversionInv
<1>1. PICK ks \in KindSets, f \in Versions, v \in Values, b \in BOOLEAN :
        stored = [k \in ks |->
                    [format |-> f, version |-> 0,
                     object |-> IF f = "v1beta1" THEN OldObject(k, v, b)
                                ELSE Default(k, ConvertTo(k,
                                       OldObject(k, v, b)))]]
  BY DEF ConversionInit
<1>2. ks \subseteq AllKinds /\ Kinds = ks
  BY <1>1, ConversionAssumption DEF AllKinds, Kinds
<1> DEFINE old(k) == OldObject(k, v, b)
           new(k) == ConvertTo(k, old(k))
           s == [args |-> v, disable |-> b]
           a == [args |-> v]
<1>3. ASSUME NEW k \in AllKinds
      PROVE  /\ old(k) \in OldObjects /\ old(k).data = Unset
             /\ old(k).server = s /\ old(k).agent = a
             /\ k # "kcp" => old(k).moved = Unset
  BY EmptyIsValue DEF OldObject, OldObjects
<1>4. s \in [args : Values, disable : BOOLEAN]
  OBVIOUS
<1> HIDE DEF old, s, a
<1>5. ASSUME NEW k \in AllKinds
      PROVE  /\ new(k) \in Objects /\ Fitting(k, new(k)) /\ Defaulted(k, new(k))
  <2>1. new(k) \in Objects /\ Fitting(k, new(k))
    BY <1>3, ConvertFits
  <2>2. new(k).server = ServerConfigTo(s)
    BY <1>3, ConvertPlain
  <2> DEFINE t == ServerConfigTo(s)
  <2>3. t.provider \in {"", "external"}
    BY <1>4, ServerConfigToFields
  <2>4. t.controller \in BOOLEAN
    <3>1. t.controller = ~s.disable
      BY <1>4, ServerConfigToFields
    <3> DEFINE d == ~s.disable
    <3>2. d \in BOOLEAN
      OBVIOUS
    <3>3. QED
      BY <3>1, <3>2, Zenon
  <2> HIDE DEF t
  <2>5. new(k).server = t
    BY <2>2 DEF t
  <2>6. QED
    BY <2>1, <2>3, <2>4, <2>5, ConversionAssumption DEF Defaulted
<1>6. ASSUME NEW k \in AllKinds, NEW l \in AllKinds
      PROVE  new(k).server = new(l).server /\ new(k).agent = new(l).agent
  BY <1>3, SameConfigConverts
<1> DEFINE kept(k) == Default(k, new(k))
<1> HIDE DEF new
<1>7. ASSUME NEW k \in AllKinds
      PROVE  /\ kept(k) \in Objects /\ Fitting(k, kept(k)) /\ Defaulted(k, kept(k))
             /\ kept(k).server = new(k).server /\ kept(k).agent = new(k).agent
  <2>1. /\ kept(k) \in Objects /\ Defaulted(k, kept(k))
        /\ kept(k).agent = new(k).agent
        /\ kept(k).moved = new(k).moved /\ kept(k).timeouts = new(k).timeouts
    BY <1>5, DefaultFields
  <2>2. kept(k).server = new(k).server
    BY <1>5, DefaultIsIdempotent
  <2>3. QED
    BY <1>5, <2>1, <2>2 DEF Fitting
<1>8. ASSUME NEW k \in ks
      PROVE  /\ stored[k].version = 0 /\ stored[k].format = f
             /\ stored[k].object = IF f = "v1beta1" THEN old(k) ELSE kept(k)
  BY <1>1 DEF old, new
<1> HIDE DEF kept
<1>9. ASSUME NEW k \in ks
      PROVE  Seen(k) = IF f = "v1beta1" THEN new(k) ELSE kept(k)
  BY <1>8 DEF Seen, new, Versions
<1>10. ASSUME NEW k \in ks
       PROVE  WellStored(k)
  <2>1. CASE f = "v1beta1"
    BY <1>2, <1>3, <1>5, <1>8, <1>9, <2>1 DEF WellStored, Fitting, Defaulted
  <2>2. CASE f = "v1beta2"
    BY <1>2, <1>7, <1>8, <1>9, <2>2 DEF WellStored, Fitting, Defaulted
  <2>3. QED
    BY <2>1, <2>2 DEF Versions
<1>11. ASSUME NEW k \in ks, NEW l \in ks
       PROVE  /\ Seen(k).server = Seen(l).server
              /\ Seen(k).agent = Seen(l).agent
  BY <1>2, <1>6, <1>7, <1>9
<1>12. NoSpuriousRollout
  BY <1>2, <1>11 DEF NoSpuriousRollout, MatchesKThreesBootstrapConfig
<1>13. /\ copy = [c \in Clients |-> Unset] /\ edited = FALSE
  BY DEF ConversionInit
<1>14. QED
  BY <1>2, <1>10, <1>12, <1>13 DEF ConversionInv, WellRead, AllKinds

\* A new version of one object: the other objects are as they were, and no
\* earlier copy of it is current any more.
LEMMA StoredStep ==
  ASSUME ConversionInv,
         NEW k \in Kinds, NEW o \in Objects,
         Fitting(k, o), Defaulted(k, o),
         stored' = [stored EXCEPT ![k] = [format |-> "v1beta2",
                                          version |-> stored[k].version + 1, object |-> o]]
  PROVE  /\ Kinds' = Kinds
         /\ \A l \in Kinds : WellStored(l)'
         /\ \A c \in Clients : copy'[c] = copy[c] => WellRead(c)'
         /\ Seen(k)' = o
         /\ \A l \in Kinds \ {k} : Seen(l)' = Seen(l)
<1> DEFINE n == stored[k].version + 1
<1>1. /\ Kinds' = Kinds
      /\ stored'[k] = [format |-> "v1beta2", version |-> n, object |-> o]
      /\ \A l \in Kinds \ {k} : stored'[l] = stored[l]
  BY DEF Kinds
<1>2. stored[k].version \in Nat /\ n \in Nat /\ n > stored[k].version
  BY DEF ConversionInv, WellStored
<1> HIDE DEF n
<1>3. stored'[k].format = "v1beta2" /\ stored'[k].version = n /\ stored'[k].object = o
  BY <1>1
<1>4. Seen(k)' = o
  BY <1>3 DEF Seen
<1>5. \A l \in Kinds \ {k} : Seen(l)' = Seen(l)
  BY <1>1 DEF Seen
<1>6. ASSUME NEW l \in Kinds
      PROVE  WellStored(l)'
  <2>1. CASE l = k
    BY <1>2, <1>3, <1>4, <2>1 DEF WellStored, Fitting, Defaulted
  <2>2. CASE l # k
    <3>1. WellStored(l)
      BY DEF ConversionInv
    <3>2. stored'[l] = stored[l] /\ Seen(l)' = Seen(l)
      BY <1>1, <1>5, <2>2
    <3>3. QED
      BY <3>1, <3>2 DEF WellStored
  <2>3. QED
    BY <2>1, <2>2
<1>7. ASSUME NEW c \in Clients, copy'[c] = copy[c], copy[c] # Unset
      PROVE  WellRead(c)'
  <2>1. WellRead(c)
    BY DEF ConversionInv
  <2>2. CASE copy[c].kind = k
    BY <1>1, <1>2, <1>3, <1>7, <2>1, <2>2 DEF WellRead
  <2>3. CASE copy[c].kind # k
    <3>1. copy[c].kind \in Kinds \ {k}
      BY <1>7, <2>1, <2>3 DEF WellRead
    <3>2. stored'[copy[c].kind] = stored[copy[c].kind]
      BY <1>1, <3>1
    <3>3. QED
      BY <1>1, <1>7, <2>1, <3>2 DEF WellRead, Shown
  <2>4. QED
    BY <2>2, <2>3
<1>8. QED
  BY <1>1, <1>4, <1>5, <1>6, <1>7 DEF WellRead

\* A read, and a write that is refused, leave everything that is stored.
LEMMA StoredUnchanged ==
  ASSUME ConversionInv, UNCHANGED <<stored, edited>>
  PROVE  /\ Kinds' = Kinds
         /\ \A k \in Kinds : WellStored(k)'
         /\ \A c \in Clients : copy'[c] = copy[c] => WellRead(c)'
         /\ edited' \in BOOLEAN
         /\ NoSpuriousRollout'
         /\ \A k, v : Shown(k, v)' = Shown(k, v)
<1>1. Kinds' = Kinds
  BY DEF Kinds
<1>2. \A k : Seen(k)' = Seen(k)
  BY DEF Seen
<1>3. \A k, v : Shown(k, v)' = Shown(k, v)
  BY DEF Shown
<1>4. \A k \in Kinds : WellStored(k)'
  BY <1>2 DEF ConversionInv, WellStored
<1>5. ASSUME NEW c \in Clients, copy'[c] = copy[c]
      PROVE  WellRead(c)'
  <2>1. WellRead(c)
    BY DEF ConversionInv
  <2>2. QED
    BY <1>1, <1>5, <2>1 DEF WellRead, Shown
<1>6. edited' \in BOOLEAN
  BY DEF ConversionInv
<1>7. NoSpuriousRollout'
  BY <1>1, <1>2 DEF ConversionInv, NoSpuriousRollout,
     MatchesKThreesBootstrapConfig
<1>8. QED
  BY <1>1, <1>3, <1>4, <1>5, <1>6, <1>7

LEMMA ReadKeeps ==
  ASSUME ConversionInv, NEW c \in Clients, NEW k \in Kinds,
         NEW v \in Versions, Read(c, k, v)
  PROVE  ConversionInv'
<1>1. UNCHANGED <<stored, edited>>
  BY DEF Read
<1>2. /\ Kinds' = Kinds
      /\ \A l \in Kinds : WellStored(l)'
      /\ \A d \in Clients : copy'[d] = copy[d] => WellRead(d)'
      /\ edited' \in BOOLEAN /\ NoSpuriousRollout'
      /\ Shown(k, v)' = Shown(k, v)
  BY <1>1, StoredUnchanged
<1>3. /\ DOMAIN copy' = Clients
      /\ copy'[c] = [kind |-> k, format |-> v, object |-> Shown(k, v),
                     version |-> stored[k].version]
      /\ \A d \in Clients \ {c} : copy'[d] = copy[d]
  BY DEF Read, ConversionInv
<1>4. stored[k].version \in Nat
  BY DEF ConversionInv, WellStored
<1>5. /\ copy'[c].kind = k /\ copy'[c].format = v /\ copy'[c].version = stored[k].version
      /\ copy'[c].object = Shown(k, v)
  BY <1>3
<1>6. WellRead(c)'
  BY <1>1, <1>2, <1>4, <1>5 DEF WellRead
<1>7. \A d \in Clients : WellRead(d)'
  BY <1>2, <1>3, <1>6
<1>8. QED
  BY <1>2, <1>3, <1>7 DEF ConversionInv

LEMMA WriteKeeps ==
  ASSUME ConversionInv, NEW c \in Clients, copy[c] # Unset,
         NEW y \in Edits(c), Write(c, y)
  PROVE  ConversionInv'
<1>1. /\ DOMAIN copy' = Clients /\ copy'[c] = Unset
      /\ \A d \in Clients \ {c} : copy'[d] = copy[d]
  BY DEF Write, ConversionInv
<1>2. WellRead(c)'
  BY <1>1 DEF WellRead
<1>3. CASE copy[c].version = stored[copy[c].kind].version
  <2>0. PICK k \in AllKinds : k = copy[c].kind
    BY <1>3, CurrentCopy
  <2> DEFINE o == Stored(k, copy[c].format, y)
  <2>1. /\ k \in Kinds /\ k \in AllKinds
        /\ copy[c].format \in Versions
        /\ copy[c].format = "v1beta1" => y \in OldObjects
        /\ copy[c].format = "v1beta2" => y \in Objects /\ Fitting(k, y)
    BY <1>3, <2>0, CurrentCopy
  <2>2. /\ stored' = [stored EXCEPT ![k] = [format |-> "v1beta2",
                                            version |-> stored[k].version + 1, object |-> o]]
        /\ edited' = (edited \/ ChangesConfig(c, y))
    BY <1>3, <2>0 DEF Write
  <2>3. o \in Objects /\ Fitting(k, o) /\ Defaulted(k, o)
    BY <2>1, StoredIsWell
  <2>4. ASSUME ~ChangesConfig(c, y)
        PROVE  o.server = Seen(k).server /\ o.agent = Seen(k).agent
    BY <1>3, <2>0, <2>4, ConfigKept
  <2> HIDE DEF o
  <2>5. /\ Kinds' = Kinds
        /\ \A l \in Kinds : WellStored(l)'
        /\ \A d \in Clients : copy'[d] = copy[d] => WellRead(d)'
        /\ Seen(k)' = o
        /\ \A l \in Kinds \ {k} : Seen(l)' = Seen(l)
    BY <2>1, <2>2, <2>3, StoredStep
  <2>6. ASSUME {"kcp", "config"} \subseteq Kinds, ~edited'
        PROVE  MatchesKThreesBootstrapConfig'
    <3>1. ~edited /\ ~ChangesConfig(c, y)
      BY <2>2, <2>6
    <3>2. /\ Seen("config").server = Seen("kcp").server
          /\ Seen("config").agent = Seen("kcp").agent
      BY <2>6, <3>1 DEF ConversionInv, NoSpuriousRollout,
         MatchesKThreesBootstrapConfig
    <3>3. \A l \in Kinds : /\ Seen(l)'.server = Seen(l).server
                                      /\ Seen(l)'.agent = Seen(l).agent
      BY <2>4, <2>5, <3>1
    <3>4. QED
      BY <2>6, <3>2, <3>3 DEF MatchesKThreesBootstrapConfig
  <2>7. NoSpuriousRollout'
    BY <2>5, <2>6 DEF NoSpuriousRollout
  <2>8. edited' \in BOOLEAN
    BY <2>2
  <2>9. QED
    BY <1>1, <1>2, <2>5, <2>7, <2>8 DEF ConversionInv
<1>4. CASE copy[c].version # stored[copy[c].kind].version
  <2>1. UNCHANGED <<stored, edited>>
    BY <1>4 DEF Write
  <2>2. /\ Kinds' = Kinds
        /\ \A l \in Kinds : WellStored(l)'
        /\ \A d \in Clients : copy'[d] = copy[d] => WellRead(d)'
        /\ edited' \in BOOLEAN /\ NoSpuriousRollout'
    BY <2>1, StoredUnchanged
  <2>3. QED
    BY <1>1, <1>2, <2>2 DEF ConversionInv
<1>5. QED
  BY <1>3, <1>4

LEMMA CloneKeeps ==
  ASSUME ConversionInv, CloneConfig
  PROVE  ConversionInv'
<1> DEFINE now == Seen("kcp")
           z == [now EXCEPT !.moved = Unset, !.timeouts = Unset]
           o == Default("config", z)
<1>1. /\ "kcp" \in Kinds /\ "config" \in Kinds
      /\ "kcp" \in AllKinds /\ "config" \in AllKinds
  BY DEF CloneConfig, AllKinds
<1>2. now \in Objects /\ Defaulted("kcp", now)
  BY <1>1, SeenIsWell DEF ConversionInv
<1>3. /\ stored' = [stored EXCEPT !["config"] =
                      [format |-> "v1beta2", version |-> stored["config"].version + 1,
                       object |-> o]]
      /\ edited' = FALSE /\ copy' = copy
  BY DEF CloneConfig, Default
<1> HIDE DEF now
<1>4. /\ z \in Objects /\ z.server = now.server /\ z.agent = now.agent
      /\ z.moved = Unset /\ z.timeouts = Unset
  BY <1>2 DEF Objects
<1> HIDE DEF z
<1>5. Defaulted("config", z) /\ Fitting("config", z)
  BY <1>2, <1>4 DEF Defaulted, Fitting
<1>6. /\ o \in Objects /\ Defaulted("config", o) /\ o.agent = now.agent
      /\ o.moved = z.moved /\ o.timeouts = z.timeouts
  BY <1>1, <1>4, DefaultFields
<1>7. o.server = now.server
  BY <1>1, <1>4, <1>5, DefaultIsIdempotent
<1> HIDE DEF o
<1>8. Fitting("config", o)
  BY <1>5, <1>6 DEF Fitting
<1>9. /\ Kinds' = Kinds
      /\ \A l \in Kinds : WellStored(l)'
      /\ \A d \in Clients : copy'[d] = copy[d] => WellRead(d)'
      /\ Seen("config")' = o
      /\ Seen("kcp")' = now
  BY <1>1, <1>3, <1>6, <1>8, StoredStep DEF now
<1>10. NoSpuriousRollout'
  BY <1>6, <1>7, <1>9 DEF NoSpuriousRollout, MatchesKThreesBootstrapConfig
<1>11. QED
  BY <1>3, <1>9, <1>10 DEF ConversionInv

LEMMA ConversionStep ==
  ASSUME ConversionInv, [ConversionNext]_conversionVars
  PROVE  ConversionInv'
<1>1. CASE \E c \in Clients, k \in Kinds, v \in Versions :
             Read(c, k, v)
  BY <1>1, ReadKeeps
<1>2. CASE \E c \in Clients : copy[c] # Unset /\ \E y \in Edits(c) : Write(c, y)
  BY <1>2, WriteKeeps
<1>3. CASE CloneConfig
  BY <1>3, CloneKeeps
<1>4. CASE UNCHANGED conversionVars
  <2>1. UNCHANGED <<stored, edited>> /\ copy' = copy
    BY <1>4 DEF conversionVars
  <2>2. QED
    BY <2>1, StoredUnchanged DEF ConversionInv
<1>5. QED
  BY <1>1, <1>2, <1>3, <1>4 DEF ConversionNext

LEMMA ConversionInvariance ==
  ConversionSpec => []ConversionInv
<1>1. ConversionInit => ConversionInv
  BY ConversionInvInit
<1>2. ConversionInv /\ [ConversionNext]_conversionVars => ConversionInv'
  BY ConversionStep
<1>3. QED
  BY <1>1, <1>2, PTL DEF ConversionSpec

(* A machine made from the control plane's configuration goes on matching it   *)
(* until a client changes one of the two, however the two are read and written *)
(* in either version (MatchesKThreesBootstrapConfig; conversion.go).           *)
THEOREM NoRolloutFromConversion ==
  ConversionSpec => []NoSpuriousRollout
<1>1. ConversionInv => NoSpuriousRollout
  BY DEF ConversionInv
<1>2. QED
  BY <1>1, ConversionInvariance, PTL

\* An accepted write of a v1beta1 client: it was made from what is shown now, and
\* what is stored is what the webhook made of the converted object.
LEMMA AcceptedWrite ==
  ASSUME ConversionInv,
         NEW c \in Clients, NEW k \in Kinds, NEW y \in OldDrafts(c),
         Accepted(c, k, y)
  PROVE  /\ k \in AllKinds /\ WellStored(k)
         /\ y \in OldObjects
         /\ y.data # Unset => y.data = Seen(k)
         /\ k # "kcp" => y.moved = Unset
         /\ Seen(k)' = Default(k, ConvertTo(k, y))
<1>1. /\ copy[c] # Unset /\ copy[c].format = "v1beta1" /\ copy[c].kind = k
      /\ y \in OldEdits(copy[c].object)
  BY DEF OldDrafts, Accepted
<1>2. copy[c].version = stored[k].version
  BY <1>1 DEF Accepted, Write
<1>3. y \in Edits(c)
  BY <1>1 DEF Edits
<1>4. /\ k \in AllKinds /\ WellStored(k)
      /\ copy[c].object = Shown(k, "v1beta1") /\ y \in OldObjects
  BY <1>1, <1>2, <1>3, CurrentCopy
<1>5. /\ copy[c].object \in OldObjects
      /\ copy[c].object.data \in {Unset, Seen(k)}
      /\ k # "kcp" => copy[c].object.moved = Unset
  BY <1>4, ShownConverts
<1>6. /\ y.data = copy[c].object.data \/ y.data = Unset
      /\ copy[c].object.moved = Unset => y.moved = Unset
  BY <1>1, <1>5, OldEditIs
<1> DEFINE o == Stored(k, "v1beta1", y)
<1>7. stored' = [stored EXCEPT ![k] = [format |-> "v1beta2",
                                       version |-> stored[k].version + 1, object |-> o]]
  BY <1>1, <1>2 DEF Accepted, Write
<1> HIDE DEF o
<1>8. stored'[k].format = "v1beta2" /\ stored'[k].object = o
  BY <1>7 DEF Kinds
<1>9. Seen(k)' = o
  BY <1>8 DEF Seen
<1>10. o = Default(k, ConvertTo(k, y))
  BY <1>4, OldWriteStored DEF o
<1>11. QED
  BY <1>4, <1>5, <1>6, <1>9, <1>10

\* NewFieldsSurvive, for one step.
LEMMA NewFieldsSurviveStep ==
  ASSUME ConversionInv,
         NEW c \in Clients, NEW k \in Kinds, NEW y \in OldDrafts(c),
         Accepted(c, k, y), y.data # Unset
  PROVE  NewOnly(Seen(k)') = NewOnly(Seen(k))
<1> DEFINE now == Seen(k)
           o == ConvertTo(k, y)
           q == Default(k, o)
<1>1. /\ k \in AllKinds /\ WellStored(k) /\ y \in OldObjects
      /\ y.data = now /\ Seen(k)' = q
  BY AcceptedWrite
<1>2. now \in Objects /\ Fitting(k, now) /\ Defaulted(k, now)
  BY <1>1, SeenIsWell
<1> HIDE DEF now
<1>3. /\ o \in Objects
      /\ o.server.provider = now.server.provider
      /\ o.server.controller = now.server.controller
      /\ o.server.registry = now.server.registry
      /\ o.agent.script = now.agent.script
      /\ o.timeouts = IF k = "kcp" THEN now.timeouts ELSE Unset
  BY <1>1, ConvertRestored
<1> HIDE DEF o
<1>4. Defaulted(k, o) /\ o.timeouts = now.timeouts
  BY <1>2, <1>3 DEF Defaulted, Fitting
<1>5. q.server = o.server
  BY <1>1, <1>3, <1>4, DefaultIsIdempotent
<1>6. q.agent = o.agent /\ q.timeouts = o.timeouts
  BY <1>1, <1>3, DefaultFields
<1> HIDE DEF q
<1>7. NewOnly(q) = NewOnly(now)
  BY <1>3, <1>4, <1>5, <1>6 DEF NewOnly
<1>8. QED
  BY <1>1, <1>7 DEF now

\* The kubelet runs with the external cloud provider if the configuration says so.
LEMMA ExternalProvider ==
  ASSUME NEW s
  PROVE  <<"cloud-provider", "external">> \notin KubeletArgs(s)
           <=> s.provider \in {Unset, ""} \/ s.provider # "external"
<1> DEFINE args == getKubeletExtraArgs(s)
           init == GenerateInitControlPlaneConfig(s)
<1>1. init.kubeletArgs = args /\ DOMAIN init = {"clusterInit", "disableCloudController",
                                               "controllerManagerArgs", "kubeletArgs"}
  BY DEF GenerateInitControlPlaneConfig
<1>2. GenerateWorkerConfig(s).kubeletArgs = args
  BY DEF GenerateWorkerConfig
<1> HIDE DEF args, init
<1>3. GenerateJoinControlPlaneConfig(s).kubeletArgs = args
  BY <1>1 DEF GenerateJoinControlPlaneConfig, init
<1>4. KubeletArgs(s) = args
  BY <1>1, <1>2, <1>3 DEF KubeletArgs, init
<1>5. CASE s.provider \in {Unset, ""}
  BY <1>4, <1>5 DEF getKubeletExtraArgs, args
<1>6. CASE s.provider \notin {Unset, ""}
  <2>1. args = {<<"cloud-provider", s.provider>>}
    BY <1>6 DEF getKubeletExtraArgs, args
  <2>2. <<"cloud-provider", "external">> = <<"cloud-provider", s.provider>>
          <=> s.provider = "external"
    OBVIOUS
  <2>3. QED
    BY <1>4, <1>6, <2>1, <2>2
<1>7. QED
  BY <1>5, <1>6

\* OldEditsTakeEffect, for one step.
LEMMA OldEditsTakeEffectStep ==
  ASSUME ConversionInv,
         NEW c \in Clients, NEW k \in Kinds, NEW y \in OldDrafts(c),
         Accepted(c, k, y)
  PROVE  /\ Seen(k)'.server.args = y.server.args
         /\ Seen(k)'.moved = y.moved
         /\ y.data = Unset =>
              /\ Seen(k)'.server.disable = y.server.disable
              /\ y.server.disable <=>
                   <<"cloud-provider", "external">> \notin KubeletArgs(Seen(k)'.server)
         /\ y.data # Unset => Seen(k)'.server.disable = Seen(k).server.disable
<1> DEFINE o == ConvertTo(k, y)
           q == Default(k, o)
<1>1. /\ k \in AllKinds /\ y \in OldObjects
      /\ y.data # Unset => y.data = Seen(k)
      /\ k # "kcp" => y.moved = Unset
      /\ Seen(k)' = q
  BY AcceptedWrite
<1>2. y.server \in [args : Values, disable : BOOLEAN]
  BY <1>1 DEF OldObjects
<1>3. o \in Objects
  BY <1>1, ConvertFits
<1>4. o.server.args = y.server.args /\ o.moved = IF k = "kcp" THEN y.moved ELSE Unset
  <2>1. CASE y.data = Unset
    <3>1. o.server = ServerConfigTo(y.server)
      BY <1>1, <2>1, ConvertPlain
    <3>2. o.moved = IF k = "kcp" THEN y.moved ELSE Unset
      BY <1>1, <2>1, ConvertPlain
    <3>3. QED
      BY <1>2, <3>1, <3>2, ServerConfigToFields
  <2>2. CASE y.data # Unset
    BY <1>1, <2>2, ConvertRestored
  <2>3. QED
    BY <2>1, <2>2
<1>5. ASSUME y.data = Unset
      PROVE  /\ o.server.provider = IF y.server.disable THEN "" ELSE "external"
             /\ o.server.disable = y.server.disable
  <2>1. o.server = ServerConfigTo(y.server)
    BY <1>1, <1>5, ConvertPlain
  <2>2. QED
    BY <1>2, <2>1, ServerConfigToFields
<1>6. y.data # Unset => o.server.disable = Seen(k).server.disable
  BY <1>1, ConvertRestored
<1> HIDE DEF o
<1>7. /\ q.server.args = o.server.args /\ q.moved = o.moved /\ q.server.disable = o.server.disable
      /\ o.server.provider # Unset => q.server.provider = o.server.provider
  BY <1>1, <1>3, DefaultFields
<1> HIDE DEF q
<1>8. ASSUME y.data = Unset
      PROVE  y.server.disable <=>
               <<"cloud-provider", "external">> \notin KubeletArgs(q.server)
  <2>1. q.server.provider = IF y.server.disable THEN "" ELSE "external"
    BY <1>5, <1>7, <1>8, ConversionAssumption
  <2>2. QED
    BY <1>2, <2>1, ExternalProvider, ConversionAssumption
<1>9. QED
  BY <1>1, <1>4, <1>5, <1>6, <1>7, <1>8

(* A v1beta1 client that writes back what it read, whatever it changed in it   *)
(* and whoever wrote before it, loses no field that only v1beta2 has           *)
(* (ConvertTo restores them from the annotation).                             *)
THEOREM NewFieldsAreKept ==
  ConversionSpec => NewFieldsSurvive
<1>1. ConversionInv => NewFieldsKept
  BY NewFieldsSurviveStep DEF NewFieldsKept
<1>2. QED
  BY <1>1, ConversionInvariance, PTL DEF NewFieldsSurvive, ConversionSpec

(* What a v1beta1 client wrote in a field both versions have is stored, except *)
(* that a change of disableExternalCloudProvider in an object that carries the *)
(* annotation is discarded (conversion.go:94); without the annotation it       *)
(* suppresses the external cloud provider on every machine exactly if it says  *)
(* so (ConvertTo, the defaulting webhooks, getKubeletExtraArgs).              *)
THEOREM OldEditsAreStored ==
  ConversionSpec => OldEditsTakeEffect
<1>1. ConversionInv => OldEditsStored
  BY OldEditsTakeEffectStep DEF OldEditsStored
<1>2. QED
  BY <1>1, ConversionInvariance, PTL DEF OldEditsTakeEffect, ConversionSpec
=============================================================================
