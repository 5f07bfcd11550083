--------------------------- MODULE RemediationRetry ---------------------------
(***************************************************************************)
(* The retry limits of remediation: a machine fails and is remediated, its   *)
(* replacement fails, and so on.  What is known of the last remediation goes *)
(* from the machine that is remediated (RemediationForAnnotation) to the     *)
(* control plane (RemediationInProgressAnnotation) and from there to the     *)
(* replacement, once the machine is gone and the replacement is made.        *)
(*                                                                         *)
(* Time passes in ticks.  A timestamp is the age of what it marks, which     *)
(* grows with every tick up to a cap beyond every period; written into an    *)
(* annotation it loses the fraction of the second.  The health check and the *)
(* machine controller are external.                                         *)
(***************************************************************************)
EXTENDS Integers

CONSTANTS
  None,
  MaxRetry,          \* RemediationStrategy, None if not set
  RetryPeriod,       \* in ticks
  MinHealthyPeriod,  \* in ticks
  Second             \* ticks in a second

ASSUME RetryAssumption ==
  /\ MaxRetry \in Nat \cup {None}
  /\ RetryPeriod \in Nat /\ MinHealthyPeriod \in Nat /\ Second \in Nat \ {0}
  /\ None \notin Nat /\ None \notin [age : Nat \cup {None}, count : Nat]

VARIABLES
  phase,       \* ticks since the last full second
  state,       \* of the machine: "healthy", "unhealthy", "deleting", "gone"
  remFor,      \* its RemediationForAnnotation: [age, count]
  inProgress,  \* the RemediationInProgressAnnotation of the control plane
  since,       \* ticks since the last remediation (history)
  sequence     \* remediations that follow each other closely (history)

vars == <<phase, state, remFor, inProgress, since, sequence>>

maxDuration(x, y) == IF x < y THEN y ELSE x

\* Ages beyond this are alike.
Cap == maxDuration(MinHealthyPeriod, RetryPeriod) + Second
Older(age) == IF age < Cap THEN age + 1 ELSE Cap

Counts == IF MaxRetry = None THEN Nat ELSE 0 .. MaxRetry
RemediationData == [age : (0 .. Cap) \cup {None}, count : Counts]

(* The retry count stays within MaxRetry in both annotations.                 *)
TypeOK ==
  /\ phase \in 0 .. Second - 1
  /\ state \in {"healthy", "unhealthy", "deleting", "gone"}
  /\ remFor \in RemediationData \cup {None}
  /\ inProgress \in RemediationData \cup {None}
  /\ since \in 0 .. Cap
  /\ sequence \in Nat

Init ==
  /\ phase = 0
  /\ state = "healthy"
  /\ remFor = None /\ inProgress = None
  /\ since = Cap
  /\ sequence = 0

-----------------------------------------------------------------------------

Aged(data) ==
  IF data = None THEN None
  ELSE IF data.age = None THEN data ELSE [data EXCEPT !.age = Older(@)]

Tick ==
  /\ phase' = (phase + 1) % Second
  /\ remFor' = Aged(remFor) /\ inProgress' = Aged(inProgress)
  /\ since' = Older(since)
  /\ UNCHANGED <<state, sequence>>

HealthCheckFails ==
  /\ state = "healthy"
  /\ state' = "unhealthy"
  /\ UNCHANGED <<phase, remFor, inProgress, since, sequence>>

HealthCheckRecovers ==
  /\ state = "unhealthy"
  /\ state' = "healthy"
  /\ UNCHANGED <<phase, remFor, inProgress, since, sequence>>

\* Somebody changes the annotation of a machine: drops it, or its timestamp.
AnnotationChanged ==
  /\ remFor # None
  /\ remFor' \in {None, [remFor EXCEPT !.age = None]}
  /\ sequence' = 0
  /\ UNCHANGED <<phase, state, inProgress, since>>

-----------------------------------------------------------------------------

\* A timestamp that is missing counts as old enough for both periods.
LastRemediation(data) ==
  IF data.age = None THEN 2 * maxDuration(MinHealthyPeriod, RetryPeriod) ELSE data.age

\* Bug: the retry period is not waited for.
BugRetryAtOnce(last) ==
  CASE last = None -> [can |-> TRUE, count |-> 0]
    [] last # None /\ LastRemediation(last) >= MinHealthyPeriod -> [can |-> TRUE, count |-> 0]
    [] OTHER ->
         IF MaxRetry # None /\ last.count >= MaxRetry
         THEN [can |-> FALSE, count |-> last.count]
         ELSE [can |-> TRUE, count |-> last.count + 1]

\* Bug: a machine that ran out of retries never gets another one.
BugGiveUp(last) ==
  CASE last = None -> [can |-> TRUE, count |-> 0]
    [] last # None /\ MaxRetry # None /\ last.count >= MaxRetry -> [can |-> FALSE, count |-> last.count]
    [] last # None /\ ~(MaxRetry # None /\ last.count >= MaxRetry) ->
         [can |-> LastRemediation(last) >= RetryPeriod, count |-> last.count + 1]

\* Whether a machine with this annotation may be remediated, and the count its
\* replacement gets.
CheckRetryLimits(last) ==
  CASE last = None -> [can |-> TRUE, count |-> 0]
    [] last # None /\ LastRemediation(last) >= MinHealthyPeriod -> [can |-> TRUE, count |-> 0]
    [] OTHER ->
         IF LastRemediation(last) < RetryPeriod \/ (MaxRetry # None /\ last.count >= MaxRetry)
         THEN [can |-> FALSE, count |-> last.count]
         ELSE [can |-> TRUE, count |-> last.count + 1]

\* Marshal writes the time of the reconciliation in full seconds.
Marshal(count) == [age |-> phase, count |-> count]

\* reconcileUnhealthyMachines deletes the machine and notes the remediation.
Remediate ==
  /\ state = "unhealthy" /\ inProgress = None
  /\ CheckRetryLimits(remFor).can
  /\ inProgress' = Marshal(CheckRetryLimits(remFor).count)
  /\ state' = "deleting"
  /\ since' = 0
  /\ sequence' = IF since + Second - 1 < MinHealthyPeriod THEN sequence + 1 ELSE 1
  /\ UNCHANGED <<phase, remFor>>

\* The machine is deleted, but the patch that adds the annotation to the control
\* plane is lost (an API error or a crash): the replacement starts a new chain.
RemediateUnpatched ==
  /\ state = "unhealthy" /\ inProgress = None
  /\ CheckRetryLimits(remFor).can
  /\ state' = "deleting"
  /\ since' = 0
  /\ sequence' = 0
  /\ UNCHANGED <<phase, remFor, inProgress>>

MachineGone ==
  /\ state = "deleting"
  /\ state' = "gone"
  /\ UNCHANGED <<phase, remFor, inProgress, since, sequence>>

\* Bug: the replacement does not learn what it replaces.
BugCreateReplacement ==
  /\ state = "gone"
  /\ state' = "healthy"
  /\ remFor' = None
  /\ inProgress' = None
  /\ UNCHANGED <<phase, since, sequence>>

\* The new machine carries the annotation.  createMachine takes it off the control
\* plane in memory, and the patch at the end of the reconcile in the store ...
CreateReplacement ==
  /\ state = "gone"
  /\ state' = "healthy"
  /\ remFor' = inProgress
  /\ inProgress' = None
  /\ UNCHANGED <<phase, since, sequence>>

\* ... unless that patch is lost (an API error or a crash), or the answer to the
\* creation was: the annotation is left behind, and no machine is remediated ...
CreateUnpatched ==
  /\ state = "gone"
  /\ state' = "healthy"
  /\ remFor' = inProgress
  /\ UNCHANGED <<phase, inProgress, since, sequence>>

\* ... before the control plane makes another machine, for a rollout or a scale up,
\* which carries the annotation in turn.
CreateAnother ==
  /\ inProgress # None
  /\ state \in {"healthy", "unhealthy"}
  /\ inProgress' = None
  /\ UNCHANGED <<phase, state, remFor, since, sequence>>

Next ==
  \/ Tick
  \/ HealthCheckFails \/ HealthCheckRecovers \/ AnnotationChanged
  \/ Remediate \/ RemediateUnpatched \/ MachineGone \/ CreateReplacement
  \/ CreateUnpatched \/ CreateAnother

Spec == Init /\ [][Next]_vars

\* Time passes, the controller retries, what it deleted goes and is replaced.
FairSpec ==
  Spec /\ WF_vars(Tick) /\ WF_vars(Remediate) /\ WF_vars(MachineGone)
       /\ WF_vars(CreateReplacement \/ CreateUnpatched)

-----------------------------------------------------------------------------
(* "NOTE: Counting the number of retries is required In order to prevent       *)
(* infinite remediation": as long as the annotations are neither edited nor    *)
(* lost, at most MaxRetry retries follow a remediation when each machine of    *)
(* the chain is remediated again within MinHealthyPeriod.                     *)
RetriesBounded == MaxRetry # None => sequence <= MaxRetry + 1

(* "A retry could happen only after RetryPeriod from the previous retry": up   *)
(* to the fraction of a second that the timestamp lost.                       *)
RetriesSpaced ==
  [][inProgress = None /\ inProgress' # None /\ inProgress'.count > 0
       => since + Second - 1 >= RetryPeriod]_vars

(* A machine that stays unhealthy is remediated in the end, unless a lost patch  *)
(* left the annotation of an earlier remediation behind (remediation.go:104,     *)
(* scale.go:400).  That goes for a chain that ran out of retries too: what       *)
(* counts is that MinHealthyPeriod has passed when the control plane is          *)
(* reconciled (remediation.go:359), not when the machine was marked unhealthy.   *)
UnhealthyRemediated == (state = "unhealthy" /\ inProgress = None) ~> (state # "unhealthy")

-----------------------------------------------------------------------------
(* What the retry limits rest on: the annotation with which the next decision  *)
(* will be made is as old as the last remediation, up to the fraction of a     *)
(* second that it lost, and counts the remediations of the sequence.           *)

Alive == state \in {"healthy", "unhealthy"}

\* Where the data of the last remediation is now.
LastNoted == IF Alive THEN remFor ELSE inProgress

AgeFits(data) == data # None /\ data.age # None => data.age <= since + Second - 1

NotedInTime == AgeFits(LastNoted)

SequenceCounted ==
  sequence > 0 =>
    LastNoted # None /\ LastNoted.age # None /\ sequence <= LastNoted.count + 1

IInv == TypeOK /\ NotedInTime /\ SequenceCounted
=============================================================================
