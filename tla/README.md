# A TLA+ model of cluster-api-k3s

This project models the core of the k3s bootstrap and control plane providers for
Cluster API, checks it with TLC on small instances, and proves its main safety
properties with TLAPS for instances of any size.

## The system

Two managers run beside Cluster API in a management cluster. They share no memory;
they meet in API objects, which they read through informer caches unless noted.

| Component | State it keeps | Operations | Interacts with |
|---|---|---|---|
| Bootstrap controller (`bootstrap/controllers`) | none in memory; KThreesConfig status and a data secret per machine | Reconcile: restore status, init, join control plane, join worker | init mutex; Cluster and Machine status set by Cluster API |
| Init mutex (`pkg/locking`) | one ConfigMap per cluster that names its holder | Lock, Unlock | the bootstrap controller's reconciles |
| KThreesControlPlane controller (`controlplane/controllers`, `pkg/k3s/control_plane.go`) | KThreesControlPlane spec, status and annotations; Machines and their annotations | read, sync machines, update conditions, reconcile etcd members, remediate, initialize, scale up, scale down, roll out, update status, patch; delete | machine reconciler through Machines and the hook annotation; workload cluster; users |
| Machine reconciler (`machine_controller.go`) | none | ask k3s to remove a member, take the pre-terminate hook off | Cluster API, which waits for the hook; k3s, which removes members of annotated nodes |
| Workload cluster access (`pkg/k3s/workload_cluster*.go`, `pkg/etcd`) | none | list nodes, health conditions, list/remove members, move the leader | API server and etcd of the workload cluster |
| Etcd client generator, proxy (`pkg/k3s/etcd_client_generator.go`, `pkg/proxy`) | none | client for a node, client for the leader | etcd proxy pods |
| Cluster secrets (`pkg/secret`, `pkg/token`, `pkg/kubeconfig`) | secrets | look up or create | both controllers |
| Server-side apply (`pkg/util/ssa`) | a cache of requests without effect | patch, filter, migrate managed fields | syncMachines |
| Machine filters (`pkg/machinefilters`) | none | does a machine match the spec | rollout decisions |
| API conversions and webhooks (`*/api/v1beta1/conversion.go`, `*/api/v1beta2/*_webhook.go`) | an annotation that holds a v1beta2 object | convert both ways, restore, default | the API server, for clients of two versions |
| cloud-init, CoreDNS, managers, release tools | data and text | - | - |

What is hard here: every reconcile is a sequence of calls with other actors between
them; it can be cut short between any two calls; caches trail; machines, nodes and
etcd members are three views of one host that change at different times; and etcd's
quorum has to survive all of it.  For each component, what makes it correct:

* bootstrap: one machine initializes, nobody initializes an initialized cluster (both
  but for the races named below), everybody else gets join data eventually;
* control plane: one deletion at a time, one surplus machine at most, never the last
  machine, quorum kept when one host fails, no live member removed, members leave
  before their hosts, leadership moved first, and convergence to the wanted state;
* machine reconciler: the hook comes off only when the member is gone;
* creation and deletion: the three objects of a machine live and go together, no
  machine is made for a control plane that is gone, its machines wait for the workers that
  its list has shown, everything goes;
* retries: bounded, spaced, and never given up without reason;
* failure domains: a machine to delete is found whenever one is wanted, and a finished
  rollout is spread;
* conditions: healthy was seen, in one etcd cluster with one list of members;
* secrets: one set of certificate authorities and one token for all hosts, whoever
  makes them, and a kubeconfig that fits them and is renewed;
* etcd clients: none leaked, no recycled pod dialled again, the leader reached;
* server-side apply: a skipped request would have had no effect; labels follow the
  template; the filter keeps exactly what it should;
* conversions: no field lost, no edit lost, no rollout that nobody asked for.

`PROJECT.json` lists the hazards line by line.

## Modules

**InitLock** models the bootstrap controller and the mutex. `pc[c]` is the next API
call of the reconcile of config `c`; at most `Concurrency` reconciles run. The lock
ConfigMap is `lockWatch`, the sequence of its values from the cached one to the stored
one; `machineCache`, `initCache` and `readyCache` are the other caches.
`StartReconcile` is Reconcile up to its first write; `read` is what it has read and will
act on later; `LockGet`/`LockCreate` are Lock,
`UnlockGet`/`UnlockDelete` are Unlock with its three callers, `StoreBootstrapData`
writes the secret and `PatchConfig` is the deferred patch. `CallFails` lets any call
fail, with its effect applied or not, and runs what the code then runs; `Restart` ends
the process; `Restore` does so on objects that were moved or restored without their status.
Cluster API, the infrastructure and the informers are external actions. `slipped` is a
history variable: it remembers that one of the races happened which the lock does not
exclude (see Disagreements).

**Cluster** holds the shared objects and what everybody else does to them: hosts
join, fail, are marked unhealthy or terminated, k3s removes members on request, users
scale, upgrade, annotate and delete. Machines are numbered by creation, so
`Oldest`/`Newest` are minimum and maximum. `Reachable` says that the workload API
answers, which it does while etcd has a quorum.

**KThreesControlPlane** models one reconcile. `Start` reads the object (from `cache`
if `CacheLag`), `ListMachines` the machines, `UpdateConditions` syncs machines and sets
the health conditions (`AgentHealthy`, `EtcdMemberHealthy`), `ReconcileEtcdMembers`
removes members without a machine. At `pc = "decide"` one of remediation,
initialization, scale up, scale down and waiting is chosen from what was read; a
rollout is a scale up or a scale down, as in `upgradeControlPlane`. Then follow
`ForwardEtcdLeadership`, `AddPreTerminateHook`, `DeleteMachine`, the deferred
`PatchRemediatedMachine`, or `CreateMachine`, and finally `PatchKThreesControlPlane`
with the status update. `ann` is the remediation annotation in memory; it reaches
`rip` only with that last patch. `CallFails` and `Restart` cut a reconcile short.

**MachineReconciler** models the removal of a member and of the hook.
**ControlPlaneSystem** composes the two controllers with the environment and states
the properties. The theorems about a module are in the module of its name with
`_proofs`; **ControlPlane_proofs** is about ControlPlaneSystem, **ControlPlaneDeletion_proofs**
about MachineCreation too, **MachineReplacement_proofs** about RemediationRetry,
FailureDomains and ApiConversion, that is, whether, when and where a machine is replaced
(the specifications of the last two are `PlacementSpec` and `ConversionSpec`, so that one module
can extend all three).
Each **MC** module instantiates the specification it is named after for TLC. Operators
whose name starts with `Bug` are faulty variants of an operator that follows them; each
of them makes a property fail.

Simplifications of the control plane model: infrastructure, endpoint and etcd CA are
there; an etcd member votes as soon as it joins, and etcd elects at once when it has
to; a host is up or down as a whole (kubelet and etcd together); the machine reconciler
reads current objects, and its wait for the drain (`machine_controller.go:99`) is left to
the interleaving: it may take its steps at any later time. A workload cluster that does not
answer makes reconcileEtcdMembers fail if its client cannot be made, and is passed over
otherwise. The control plane's deletion, failure domains, the times of
retries, the single node's conditions and the parts of a new machine are abstracted
there and detailed in the modules below.

**MachineCreation** is cloneConfigsAndGenerateMachine call by call with
cleanupFromGeneration. A call is refused or its answer is lost; `refs` are the
references the clean-up goes through; `owned` says which objects go with the control
plane when nobody else took them; `marred` remembers the attempts that a lost answer, a
failed clean-up or a crash cut short. A machine is made when one is missing, and at any
time as the surge of a rollout.

**ControlPlaneDeletion** extends it with the life of the KThreesControlPlane object:
`AddFinalizer` and `StartReconcile` are Reconcile up to its branch, `CreateMachines` is
the normal reconcile as far as it makes machines (uncached list), `WaitForWorkers`,
`DeleteMachines` and `RemoveFinalizer` are the branches of reconcileDelete (cached
list), and `PatchKThreesControlPlane` is the last patch, with which the finalizer really
goes. So a control plane can be deleted between any two calls of a machine's creation.
Workers come (`WorkerMade`) and go at any time; `seen` is what the cached list has ever
shown of them and of the machines.
The machine controller and the garbage collector end what is left.

**RemediationRetry** is checkRetryLimits over time. A timestamp is an age in ticks;
written into an annotation it loses the fraction of a second, as RFC 3339 does. The
data goes from machine to control plane to replacement as in the code. The last patch of
a reconcile may be lost: the annotation is then missing after the deletion
(`RemediateUnpatched`), or stays behind after the creation (`CreateUnpatched`) until
another machine is made (`CreateAnother`). A user may change it.

**FailureDomains** keeps the machines as a sequence, oldest first, with domain, delete
mark and `outdated`. `UpgradeControlPlane` and `Scale` are the two callers of scaling;
PickMost, PickFewest and Oldest belong to Cluster API and are external. `Unmarking` lets
a domain that has machines stop being one for control planes.

**HealthConditions** is reconcileControlPlaneConditions: list, node by node, the second
Get of the agent inspection with its early returns, the baseline of the etcd
inspection, the aggregation, and PatchMachines. A condition that is not set keeps its
earlier value.

**ClusterSecrets** has the two controllers as processes with a cache each;
`LookupCertificate`, `Generate` and `SaveGenerated` are the loops of LookupOrGenerate,
one API call a step. `hosts` is what bootstrap data handed out. **ClusterIdentity** is
the abstract specification: keys are chosen once, and a host that boots gets the chosen
ones. `ImplementsIdentity` says that ClusterSecrets implements it, with the identity
mapped to the key that the API server stores. The init lock is taken as InitLock
establishes it.

**EtcdClients** is forLeader, getLeaderClient and findEtcdProxyPod with the map of
proxy pods, over nodes whose pods are recycled and whose etcd fails; `open` is the set
of connections.

**ServerSideApply** is one object of syncMachines: adoption of managed fields, the
request identifier, the cached patch. The API server's apply and its managers are
external. `kind`, chosen at the start, tells machines made by apply from machines of an
earlier version and from external objects (made by Create, read from a cache). `early` are
the labels that left the template while the controller did not own them.
**IntentFilter** is FilterObject as an algorithm: an object is a set of paths. Its
assumption `FilterKeepsOpinions`, which TLC evaluates in the apply run, compares the
algorithm with a definition that looks at whole paths, for every object of depth 3 over
two fields and every choice of allowed and ignored paths.

**ApiConversion** has clients of both versions write a control plane with its configs, or
a config template, with optimistic locking; which of them is chosen at the start. A field stands for each fate that a field can have
(kept, renamed, new, defaulted). `GenerateInitControlPlaneConfig` and its siblings say
what the hosts get, `MatchesKThreesBootstrapConfig` whether a rollout starts.

## Runs

| Run | Instance | Shows |
|---|---|---|
| init_lock | 2 control plane machines, 2 reconciles at a time, caches one event behind, 1 fault, fair | TypeOK, OnlyRacesInitTwice, InitProtected, NoInitOnceInitialized, EveryoneBootstraps |
| init_lock_race | 3 control plane machines, 1 worker, 2 reconciles at a time, nothing stale, no fault | a violation of OnlyOneInit |
| convergence | 3 machines, room for 7, outdated cache, 1 failure, an upgrade, 1 fault, fair | TypeOK, SurgeBound, OneDeletionAtATime, QuorumKept, LeaderForwarded, Convergence |
| users | from nothing to 1 or 3, room for 4, 1 failure, 2 requests of any kind, 1 fault | InitializesOneMachine, NeverTheLastMachine, LiveMemberNotRemoved, MemberLeavesBeforeHost |
| secrets | 2 configs, a user's server CA (with key or malformed), client CA without key or token without value, a new cluster or one with the token of an older version, 4 keys, 1 rotation, 1 fault, fair | KubeconfigFits, ImplementsIdentity, KubeconfigRotated, Provisioned |
| apply | each kind of object, 2 label values, 2 changes, 1 fault, fair | CachedRequestsAreNoOps, TemplateApplied; the assumption FilterKeepsOpinions |
| etcd_clients | 3 nodes, 4 changes, fair | ClientsClosed, RecycledPodsForgotten, LeaderReached |
| conversion | control plane and config, or template, 2 clients, 3 writes | NewFieldsSurvive, OldEditsTakeEffect, NoSpuriousRollout |
| health | 3 machines, 2 changes, 1 fault | LostNodesNotHealthy, EtcdHealthyMeansConsistent |
| deletion | 2 attempts for 1 replica and a surge, a worker that comes and goes, 1 fault, fair | TypeOK, NothingDangles, MachinesAreWhole, NoMachineForDeletedControlPlane, DeletedInOrder, DeletionCompletes |
| retry | 2 retries, periods of 4 and 8 ticks, 2 ticks a second, fair | RetriesBounded, RetriesSpaced, UnhealthyRemediated |
| domains | 3 domains, up to 4 replicas, 3 changes, fair | RolloutSpreads, RolloutCompletes |

Every module has a type invariant. It is a property of a run where it says more than
types (InitLock, the control plane, ControlPlaneDeletion); in the other modules it
documents the state, and their runs pass with it as well.

Why the bounds suffice. Three machines are the smallest control plane that survives a
failure and the usual one; a rollout replaces each once and a remediation one more,
hence room for seven. One failure is what three members tolerate; QuorumKept is not
meant to hold beyond it. One fault is enough to lose the tail of any reconcile, and the
steps that follow are those of a fresh one. Two user requests are enough for a request
to meet another one's effects. With users, room for four is three machines and the one that
replaces or surges (room for five, and an outdated cache, pass as well, and the theorems
cover every number). Two control plane machines are enough for each
of the five races named below to happen; two forms of them take a third machine (the
one of init_lock_race, where nothing is stale, and two machines that take the lock of a
deleted one), and the theorems cover any number. `MaxLag` lets each cache be behind, the lock's by one value.

Four keys let each controller generate one while the store and a host hold others. Two
labels tell a dropped label from a kept one. Two ticks a second let a period end within
a second, where the written timestamp and the clock disagree. Three domains and four
replicas give an uneven spread; with three nodes the leader need not be the node first
asked, and a failed host leaves a quorum. Two attempts let one fail and the other
succeed, or a machine surge. Three writes are a read by one version, a write by the other and a stale or
a fresh write back. Two changes during an inspection let a node or member differ both
from the list and from the first answer.

`CHECK_DEADLOCK FALSE` stands where the system may stop: every machine has booted or is
gone and the names are used up (InitLock), the writes are used up (ApiConversion), the
control plane is as wanted (FailureDomains).

## Disagreements met while modelling

Where the code does not do what a comment of it says, the properties of the passing runs
say what holds instead and name the exception. The first case is shown by a run of its own;
others can be seen with the change named.

* "Lock allows a control plane node to be the first and only node to run k3s init"
  (`control_plane_init_mutex.go:50`). It does not always; OnlyOneInit says it, and
  `init_lock_race` violates it. A reconcile reads ControlPlaneInitialized before it takes the lock and
  does not look again (`kthreesconfig_controller.go:197`): while `m2` waits, `m1` boots and
  the cluster becomes initialized, the join of `m3` releases the lock (line 205), and `m2` gets
  it. There are five such races, and OnlyRacesInitTwice, InitProtected and NoInitOnceInitialized say that there is
  no other: (1) that one, also through a stale Cluster; (2) `Unlock` deletes the ConfigMap
  by name, whoever holds it by then (`control_plane_init_mutex.go:130`), when it
  takes the lock of a deleted machine or gives back its own; (3) the holder's
  Machine has not reached the cache, and its lock is taken (line 77); (4) a machine sees
  its own lock in the cache after it was taken away (line 72); (5) a second reconcile of
  a config that the cache does not show ready fails and releases the lock that
  protects the data handed out (`kthreesconfig_controller.go:448`). The last three need a
  cache that lags; with one reconcile at a time (the default) and caches that never lag, none happens
  on three machines and a worker with two faults.
* `createMachine` drops the RemediationInProgress annotation in memory only
  (`scale.go:400`); a reconcile that ends before its last patch leaves it, and
  `remediation.go:101` ("but the new Machine is not yet created") then skips every
  remediation until another scale up. UnhealthyRemediated excepts machines that become
  unhealthy while it is there.
* `scaleDownControlPlane` names `Machines.Newest()` as the next leader (`scale.go:137`),
  which is the machine to be deleted if a user annotated the newest one. With
  `UserRequests = {"scale", "annotate"}`, `MaxUserOps = 2` and `Replicas = {1, 3}` in
  `MCConvergence.cfg`, LeaderForwarded fails.
* A machine without a node is remediated while its slow host joins etcd; the machine
  reconciler skips the member since there is no NodeRef (`machine_controller.go:177`),
  and the end of the host leaves a dead member. This is why MemberLeavesBeforeHost
  excepts machines whose node is known too late (`lateNode`), and why a second failure
  can cost the quorum while one host only is down.
* The first machine's remediation is decided before the control plane is initialized and
  can take effect after it; `initializeControlPlane` then runs a second time
  (`scale.go:58` looks at machines only).
* A label that an object was made with by Create, and that leaves the template before
  the first apply, has no owner after the adoption (`managedfields.go:46`, `112`) and
  stays; so does one that leaves it after a sync of an outdated copy adopted the object a second
  time. TemplateApplied excepts these labels (`early`) and asks every kind of object to lose the
  others.
* `ConvertTo` restores CloudProviderName from the annotation whatever the v1beta1 object
  says (`controlplane/api/v1beta1/conversion.go:94`), so DisableExternalCloudProvider set
  by a v1beta1 client on an object it read has no effect
  (`bootstrap/api/v1beta1/kthreesconfig_types.go:112` says that it "suppresses the
  'cloud-provider=external' kubelet argument"). OldEditsTakeEffect states both: with the
  annotation what was stored stays, without it the field has its effect. The deprecated v1beta2 field is
  read by nobody (`pkg/k3s/config.go:164`).
* A node that is not ready and not unreachable leaves an earlier AgentHealthy in place
  (`workload_cluster.go:280`). A node that is gone between the list and its Get ends the
  inspection before the control plane's condition is aggregated (line 267).
* `reconcileDelete` takes the finalizer off on the word of a cached list
  (`kthreescontrolplane_controller.go:205`), which may not show the newest machine; the
  garbage collector then ends it, and DeletionCompletes holds through that. For the same reason
  it overlooks a worker that was just made; DeletedInOrder speaks of what the list has
  shown. Its comment says that it "does not take non-control plane workloads into
  consideration" (line 198), but line 242 waits for the workers.
* MinHealthyPeriod is counted from the remediation, not from the creation of the
  replacement (`remediation.go:359`; `kthreescontrolplane_types.go:146` says "after the
  creation"), so a slow deletion uses it up. And it is compared when the control plane is
  reconciled: once the retries ran out, a machine that was marked unhealthy within the period is
  remediated after it all the same, though line 127 speaks of one that "is marked as unhealthy after
  MinHealthyPeriod". UnhealthyRemediated includes this case.
* Machines outside the failure domains are found by the names of all domains, but
  PickMost counts those for control planes only (`control_plane.go:196`). With
  `Unmarking = TRUE` in `MCDomains.cfg`, RolloutCompletes fails: a domain that
  lost its mark hides its machines, and scale down fails for good.
* When the answer to the creation of a Machine is lost, the clean-up deletes the objects
  of a machine that exists (`scale.go:308`); MachinesAreWhole excepts these attempts.

## Fairness

`InitLock!Fairness`: the workqueue is FIFO and requeues a config that is not ready
(30 seconds when the lock is taken), so a config that again and again could get a
worker gets one (SF on the start); running reconciles, watches, Cluster API and the
boot make progress (WF, on the events of all machines together where each happens finitely
often). `ControlPlaneSystem!Fairness`: a reconcile is started again
after errors (rate-limited requeue), after waiting (`deleteRequeueAfter`,
`preflightFailedRequeueAfter`, the 20 seconds while not ready or unhealthy), after
every change of an owned Machine and at resync; a started reconcile goes on; the
informer, the machine reconciler (watch, `etcdRemovalRequeueAfter`), Cluster API,
health checks, infrastructure and k3s make progress. Failures, timeouts, faults and
user requests are not fair and are bounded, so Convergence speaks of the time after
the last of them.

In the other modules: reconciles are repeated as above and started ones go on (WF on the
controllers' steps, failing ones included, whose number is bounded); informers deliver (WF on `Deliver*`); the garbage collector, the
machine controller and time go on. EtcdClients needs strong fairness for
`GetWorkloadCluster`, because each reconcile makes a generator while others' calls come
in between, and for a pod list that succeeds in the end. Faults, changes and users are
bounded and not fair.

## Proofs

`InitLock_proofs`: `TypeCorrect`, `FirstAndOnlyInit` (OnlyRacesInitTwice), `LockProtectsInit` and
`NoSecondInit`, for any number of machines, reconciles at a time, faults and any lag of the
caches. They speak of the time up to the first race. OnlyOneInit speaks of booted hosts
and is not inductive: `IInv` adds, as long as nothing slipped, that the reconcile on its way to init
data holds the lock, that a lock which is taken over belongs to a machine that is gone, and that
nobody joins before the cluster is initialized (`StepFacts`); that names are known before they are
used (`KnownNames`); and that one machine at most has init data to boot with, covered by
the lock or by the initialized cluster (`OneCommitted`). The attempt to prove this without an
assumption on the caches found races 4 and 5.

`ControlPlane_proofs`: `TypeCorrect`, `DeletesOneAtATime`, `InitializesAlone`,
`MembersStay` and `MemberLeavesFirst` for all constants: any number of machines, replicas,
failures, faults and requests, and any lag of the cached KThreesControlPlane. TypeCorrect
includes that no step names a machine that is gone. The inductive invariant `IInv` of the
others says what a reconcile may rely on between its steps: `ReadTrails` (the initialized
flag is never read before it is set, and always after it was first read),
`AloneUntilKnown` (as long as nobody has read it, there is one machine at most), `ListCovers`
(the list covers the machines there are, because nobody else creates machines, and
their deletions except those of users), `OperationAlone` (an operation began with no
deletion of the controller under way), `HookFirst` (the hook precedes the deletion),
`HookGuards` (the hook stays while there is a member to remove) and `NodeFacts`. The
argument for one deletion at a time: a deletion needs `pc = "delete"`, where
`OperationAlone` says there is none yet; a reconcile that does not know of the
initialization skips that check, but then `AloneUntilKnown` leaves it only one machine. The
argument for members: orphans are members outside the list, and the list covers all
machines. Four more theorems count, or follow the leader:

* `SurgesByOne` (SurgeBound, no assumption). `SurgeInv` adds `ReplicasRead` (the replicas
  a reconcile works with were wanted at some time) and `RoomForOne` (the list covers the
  machines there are; at the creation there are at most as many as the replicas read).
  Only CreateMachine adds a machine, and it adds one.
* `LastMachineStays` (NeverTheLastMachine, for `0 \notin Replicas`). The webhook does not
  forbid zero replicas; a user who asks for none loses the last machine. `LastInv` adds
  `AnotherStays`: while users delete nothing, what the list shows as staying is still
  there, and from the choice of a target to its deletion another machine stays.
* `QuorumIsKept` (QuorumKept), for a control plane that starts with, and is always asked to
  have, at least `2 * MaxFailures + 1` machines (`LargeEnough`; the convergence run is the case
  of one failure and three machines). The argument is about a set `H` of machines, at most one
  per failure, that were hit: it holds every host that is down, every machine with a mark of a
  health check, and every machine whose host may end without having left etcd (`HitBy`).
  The members that stay, together with `H`, are at least `2f + 1` at all times, the target
  of a deletion not counted (`EnoughStay`): scale down happens only with more machines than
  wanted, and remediation takes machines of `H`. Since `H` has at most `f`, more than half
  of the members are up. This counts only if scale down takes a machine that has a node,
  which is why `InOrder` is there: a machine is created only when all others have their node,
  an upgrade finds the older machines outdated first, and the oldest one of them is taken.
* `LeaderIsForwarded` (LeaderForwarded), for `0 \notin Replicas`. The target is the oldest of
  the machines, and there are at least two of them, so the newest, to which
  ForwardEtcdLeadership moves the leadership, is another one (`LeaderMoved`); without a
  failure nothing moves it back before the deletion.

The last two allow users to scale and to upgrade only. A machine that a user annotates need
not be the oldest, may have no node yet, and may be the newest (see Disagreements); a machine that
a user deletes is gone whatever the quorum.

`ControlPlaneDeletion_proofs`, for any number of attempts, replicas, workers and faults
(`Attempts` is `1 .. n`, `Replicas > 0`): `TypeCorrect`, `NothingIsLeftDangling`,
`MachinesStayWhole`, `NoMachineAfterTheEnd`, `ReconcileDeleteKeepsOrder` (DeletedInOrder). `IInv` says where the
objects of the current attempt are at each call and which references a clean-up would go
through (`AttemptInPlace`), that nobody else's objects are without a machine
(`OnlyAttemptDangles`), that names are fresh, that there is room for the machine being
made, that the list shows what it has shown before and what still exists (`ListShowsSeen`),
and `FinalizerHolds`: a cached control plane with a finalizer and no deletion
timestamp still has that finalizer, because only a reconcile that saw the deletion takes it
off. That is why a reconcile that works on a stale copy creates nothing for an object
that is gone.

`MachineReplacement_proofs`. For every limit (none included), both periods and length of a
second: `TypeCorrect`, `RetriesAreBounded`, `RetriesAreSpaced`. `IInv` ties the history
to the annotation: the last remediation noted has an age that is right up to the fraction of a
second which the written timestamp lost (`NotedInTime`), and the number of remediations in
a row is at most its count plus one (`SequenceCounted`). An annotation that was left behind
does not matter for them, since the next decision is made from the machine's own.

The placement, for any domains and number of replicas: `RolloutsSpread`. RolloutSpreads speaks of the end
of a rollout; `SpreadInv` says it of the up-to-date machines at every moment, and that only
machines that the rollout will replace are marked. A new machine goes to a domain with the
fewest of them; a rollout's scale down takes an outdated one; and once all are up to date,
scale down takes one from a domain with the most. Positions shift when a machine goes, so the
counts before and after are compared by a bijection.

The conversions, for any values, clients, sets of kinds and number of writes: `NoRolloutFromConversion`,
`NewFieldsAreKept`, `OldEditsAreStored`. The lemma they rest on is `RoundTrip`: an object
shown as v1beta1 and converted back is the same object, whatever its fields. So the two extra
conversions of a v1beta1 write change nothing (`OldWriteStored`), and what a client of
either version is shown converts to what the controllers see (`ShownConverts`).
OldEditsAreStored says of the one shared field that the annotation overrides that what was
stored stays.
`ConversionInv` adds that what is stored has its defaults and no fields of another kind
(`WellStored`), and that a copy of the current version is what is shown now (`WellRead`), so an
accepted write is an edit of it. `ConversionAssumption` says that a field that is
not set differs from every one that is.

`EtcdClients_proofs`, for any non-empty finite set of nodes and number of changes:
`TypeCorrect`, `AllClientsClosed`, `GonePodsForgotten`. `IInv` says which connection is
open at each call (`ClientsInPlace`), that a pod is dialled only if the map names it, that
pods are numbered in order and that a pod found gone is neither there nor in the map.

`ServerSideApply_proofs`, for any labels, values, kinds and faults: `TypeCorrect`,
`CacheSkipsNothing`. The type invariant carries what the proof needs: no version is ahead
of the API server's, and owners own only labels that are there. A cached request names a
version of the object; any write that changes the object makes a new version.

`ClusterSecrets_proofs`, for any configs, keys, user secrets, rotations and faults
(`Configs` is disjoint from the names `"kcp"` and `"none"` that stand for the other owners):
`TypeCorrect`, `KubeconfigAlwaysFits` and the refinement `SecretsImplementIdentity`. `IInv`:
a secret has a key unless it is absent or malformed (`FormsKeyed`); a cache shows a secret as stored or
not at all, up to its owner (`CacheTrails`); what a controller holds in memory is
what is stored, save what it has yet to store (`MemoryFits`); by the time a config may go no
secret is owned by one (`OwnedByControlPlane`); and the control plane controller stores every
secret before it makes a config (`StoredBeforeConfigs`). So no secret changes its key once it is
stored, which is the abstract step `Choose`, and every host gets stored keys, which is
`Boot`; all other steps stutter. The attempt to prove this showed that a token secret
without a value was taken for a token in the model; `TokenFound` now says what
token.Lookup does.

`HealthConditions_proofs`, for any finite set of machines, changes and faults:
`TypeCorrect`, `LostNodesAreNotHealthy`, `HealthyEtcdIsConsistent`. Both properties
speak of an inspection during which nothing changed (`calm`). `IInv` says what has been
established in the middle of it: the list shows the nodes as they are (`ListedNow`), the lost
ones among those looked at are marked (`AgentsMarked`), and a member found well agrees with the
baseline (`MembersMarked`), whichever member set it; a baseline that is set stays since a
member's list is never empty (`MembersKnown`).

Each inductive invariant was first checked with TLC on the instance of its run.

Every invariant and every action property that a run checks is stated by a theorem. Only
model-checked are:

* liveness, which is out of the prover's reach: EveryoneBootstraps, Convergence,
  Provisioned, KubeconfigRotated, TemplateApplied, LeaderReached, DeletionCompletes,
  UnhealthyRemediated, RolloutCompletes;
* the filter algorithm (induction over nested maps).

## Not modelled

See `PROJECT.json`, components. Text generation (cloud-init and the rest of the k3s
configuration), transport (etcd proxy and dialer), generated deep copies, CoreDNS (its
call is commented out), managers, manifests and release tools stay out. In the modelled
parts: the contents of certificates; a kubeconfig secret that a user brings (the code
leaves it alone); annotations under server-side apply (treated as labels are);
`MatchesTemplateClonedFrom` and `MatchesKubernetesVersion`, which are an input of
FailureDomains; status counters.

## Plan

1. Done: bootstrap under the lock; control plane, machine reconciler and their
   composition; types and the core safety theorems.
2. Done: deletion, creation, retry limits, failure domains, conditions, secrets with
   their abstract specification, etcd clients, server-side apply, conversions.
3. Done: types, safety and the refinement of ClusterIdentity for the new modules;
   SurgeBound and NeverTheLastMachine for any number of machines.
4. Done: QuorumKept and LeaderForwarded for any number of machines, the spread of rollouts,
   and the conversions.
5. Cached reads of the machine reconciler; quorum with machines that users annotate.
