--------------------------- MODULE ClusterSecrets ---------------------------
(***************************************************************************)
(* The secrets of a cluster: certificate authorities, token and kubeconfig. *)
(*                                                                         *)
(* Two controllers look them up and create what is missing: the control     *)
(* plane controller ("kcp") before it touches a machine, the bootstrap      *)
(* controller ("boot") before it writes the data of the first server.  They *)
(* run in two processes, each with a cache of the Secrets that trails the   *)
(* API server, and each API write is a step of its own.  A secret owned by  *)
(* a KThreesConfig is garbage collected with it; a user may bring secrets,  *)
(* in good shape or not.                                                    *)
(*                                                                         *)
(* The init lock is taken as InitLock establishes it: one config at a time. *)
(* Key material is a number; a generated key is one that is not in use.      *)
(* A cache catches up with all pending events in one step.                  *)
(***************************************************************************)
EXTENDS Naturals, Sequences, FiniteSets, SequencesExt

CONSTANTS
  Configs,        \* names of the KThreesConfigs of control plane machines
  NoConfig,
  EtcdEmbedded,   \* IsEtcdEmbedded of the configuration
  LegacyTokens,   \* whether the token may, or must, be one that an older version made
  UserSecrets,    \* what a user may bring: <<name, form>>
  MaxKeys,        \* bound: keys in use at once, for each secret
  MaxRotations,   \* bound: kubeconfig certificates that get near their end
  MaxFaults       \* bound: failing calls, panics and restarts

ASSUME ConstantsAssumption ==
  /\ IsFiniteSet(Configs) /\ Configs # {}
  /\ NoConfig \notin Configs /\ Configs \cap {"kcp", "none"} = {}
  /\ EtcdEmbedded \in BOOLEAN /\ LegacyTokens \subseteq BOOLEAN
  /\ UserSecrets \subseteq {"ca", "cca", "etcd", "token"} \X {"pair", "certOnly", "malformed"}
  /\ MaxKeys \in Nat \ {0} /\ MaxRotations \in Nat /\ MaxFaults \in Nat

Processes == {"kcp", "boot"}
Keys == 1 .. MaxKeys
NoKey == 0
Forms == {"absent", "pair", "certOnly", "malformed"}

NewCertificatesForInitialControlPlane ==
  IF EtcdEmbedded THEN <<"ca", "cca", "etcd">> ELSE <<"ca", "cca">>

Certificates == ToSet(NewCertificatesForInitialControlPlane)
Names == Certificates \cup {"token"}

VARIABLES
  store,      \* certificate and token secrets in the API server
  cache,      \* each process's cached copy
  kubeconfig, \* the kubeconfig secret
  kubeCache,  \* the control plane controller's cached copy of it
  expiring,   \* kubeconfig certificates up to this one are due for rotation
  endpoint,   \* Cluster.Spec.ControlPlaneEndpoint is valid
  created,    \* configs created so far; a name is not used again
  configs,    \* configs (and machines) in the API server
  ready,      \* configs with bootstrap data
  hosts,      \* identities handed out in bootstrap data
  initialized,\* the first server is up
  pc,         \* where the reconcile of each process is
  certs,      \* Certificates in memory: the KeyPair of each
  generated,  \* those with Generated set that are not saved yet
  todo,       \* certificates that Lookup has yet to visit
  current,    \* the config that the bootstrap controller works on
  faults

vars == <<store, cache, kubeconfig, kubeCache, expiring, endpoint, created, configs, ready,
          hosts, initialized, pc, certs, generated, todo, current, faults>>

cluster == <<expiring, endpoint, created, configs, ready, hosts, initialized>>
memory  == <<certs, generated, todo, current>>

Absent == [form |-> "absent", key |-> NoKey, owner |-> "none"]
NoKubeconfig == [serial |-> 0, ca |-> NoKey, cca |-> NoKey]
Owners == Configs \cup {"kcp", "none"}
Secret == [form : Forms, key : Keys \cup {NoKey}, owner : Owners]
Kubeconfig == [serial : 0 .. MaxRotations + 1, ca : Keys \cup {NoKey}, cca : Keys \cup {NoKey}]

TypeOK ==
  /\ store \in [Names -> Secret]
  /\ cache \in [Processes -> [Names -> Secret]]
  /\ kubeconfig \in Kubeconfig /\ kubeCache \in Kubeconfig
  /\ kubeCache.serial <= kubeconfig.serial
  /\ expiring \in 0 .. MaxRotations /\ expiring <= kubeconfig.serial
  /\ endpoint \in BOOLEAN /\ initialized \in BOOLEAN
  /\ created \subseteq Configs /\ configs \subseteq created /\ ready \subseteq created
  /\ pc \in [Processes -> {"idle", "lookup", "save", "token", "last", "machines"}]
  /\ certs \in [Processes -> [Certificates -> Keys \cup {NoKey}]]
  /\ generated \in [Processes -> SUBSET Certificates]
  /\ todo \in [Processes -> Seq(Certificates)]
  /\ current \in Configs \cup {NoConfig}
  /\ faults \in 0 .. MaxFaults

NoKeys == [n \in Certificates |-> NoKey]

\* A cluster before its first reconcile, or one that an earlier version brought
\* up: its token belongs to the config of its first machine.
Init ==
  /\ initialized \in LegacyTokens
  /\ \E first \in Configs :
       /\ configs = IF initialized THEN {first} ELSE {}
       /\ store = [n \in Names |->
            IF initialized
            THEN [form |-> "pair", key |-> 1, owner |-> IF n = "token" THEN first ELSE "kcp"]
            ELSE Absent]
  /\ created = configs /\ ready = configs
  /\ cache = [p \in Processes |-> store]
  /\ kubeconfig = NoKubeconfig /\ kubeCache = NoKubeconfig
  /\ expiring = 0
  /\ endpoint \in BOOLEAN
  /\ hosts = {}
  /\ pc = [p \in Processes |-> "idle"]
  /\ certs = [p \in Processes |-> NoKeys]
  /\ generated = [p \in Processes |-> {}]
  /\ todo = [p \in Processes |-> <<>>]
  /\ current = NoConfig
  /\ faults = 0

KeysInUse(n) ==
  {store[n].key} \cup {cache[p][n].key : p \in Processes}
    \cup {h[n] : h \in {g \in hosts : n \in DOMAIN g}}
    \cup IF n \in Certificates THEN {certs[p][n] : p \in Processes} ELSE {}

FreshKeys(n) == Keys \ KeysInUse(n)
FreshKey(n) == CHOOSE k \in FreshKeys(n) : TRUE

\* The reconcile ends, with an error or without; what it had in memory is gone.
Return(p) ==
  /\ pc' = [pc EXCEPT ![p] = "idle"]
  /\ certs' = [certs EXCEPT ![p] = NoKeys]
  /\ generated' = [generated EXCEPT ![p] = {}]
  /\ todo' = [todo EXCEPT ![p] = <<>>]
  /\ current' = IF p = "boot" THEN NoConfig ELSE current

Goto(p, step) == pc' = [pc EXCEPT ![p] = step] /\ UNCHANGED memory

-----------------------------------------------------------------------------
(* LookupOrGenerate, by either controller.                                   *)

StartLookup(p) ==
  /\ pc' = [pc EXCEPT ![p] = "lookup"]
  /\ todo' = [todo EXCEPT ![p] = NewCertificatesForInitialControlPlane]
  /\ UNCHANGED <<certs, generated>>

\* Bug: a secret that does not exist is an error, as for an external certificate.
BugNotFoundIsError(p) ==
  /\ pc[p] = "lookup" /\ todo[p] # <<>>
  /\ LET n == Head(todo[p]) IN
       IF cache[p][n].form \in {"absent", "malformed"}
       THEN Return(p)
       ELSE /\ certs' = [certs EXCEPT ![p][n] = cache[p][n].key]
            /\ todo' = [todo EXCEPT ![p] = Tail(@)]
            /\ UNCHANGED <<pc, generated, current>>
  /\ UNCHANGED <<store, cache, kubeconfig, kubeCache, cluster, faults>>

\* One Get of Lookup, from the cache.  A secret without certificate is an error.
LookupCertificate(p) ==
  /\ pc[p] = "lookup" /\ todo[p] # <<>>
  /\ LET n == Head(todo[p]) IN
       IF cache[p][n].form = "malformed"
       THEN Return(p)
       ELSE /\ certs' = [certs EXCEPT ![p][n] = cache[p][n].key]
            /\ todo' = [todo EXCEPT ![p] = Tail(@)]
            /\ UNCHANGED <<pc, generated, current>>
  /\ UNCHANGED <<store, cache, kubeconfig, kubeCache, cluster, faults>>

Missing(p) == {n \in Certificates : certs[p][n] = NoKey}

Generate(p) ==
  /\ pc[p] = "lookup" /\ todo[p] = <<>>
  /\ \A n \in Missing(p) : FreshKeys(n) # {}
  /\ certs' = [certs EXCEPT ![p] =
       [n \in Certificates |-> IF n \in Missing(p) THEN FreshKey(n) ELSE @[n]]]
  /\ generated' = [generated EXCEPT ![p] = Missing(p)]
  /\ pc' = [pc EXCEPT ![p] = "save"]
  /\ UNCHANGED <<store, cache, kubeconfig, kubeCache, cluster, todo, current, faults>>

OwnerOf(p) == IF p = "kcp" THEN "kcp" ELSE current

AsSecret(p, n) == [form |-> "pair", key |-> certs[p][n], owner |-> OwnerOf(p)]

\* The loop of SaveGenerated goes through the certificates in their order.
Precedes(m, n) ==
  \E i, j \in DOMAIN NewCertificatesForInitialControlPlane :
    /\ i < j
    /\ NewCertificatesForInitialControlPlane[i] = m
    /\ NewCertificatesForInitialControlPlane[j] = n

ToSave(p) == {n \in generated[p] : \A m \in generated[p] : ~Precedes(m, n)}

\* Bug: a secret that is already there is left alone, and so is the key in memory.
BugKeepGenerated(p) ==
  /\ pc[p] = "save"
  /\ \E n \in ToSave(p) :
       /\ store' = IF store[n] = Absent THEN [store EXCEPT ![n] = AsSecret(p, n)] ELSE store
       /\ generated' = [generated EXCEPT ![p] = @ \ {n}]
  /\ UNCHANGED <<cache, kubeconfig, kubeCache, cluster, pc, certs, todo, current, faults>>

\* One Create of SaveGenerated; a secret that is already there is an error.
SaveGenerated(p) ==
  /\ pc[p] = "save"
  /\ \E n \in ToSave(p) :
       \/ /\ store[n] = Absent
          /\ store' = [store EXCEPT ![n] = AsSecret(p, n)]
          /\ generated' = [generated EXCEPT ![p] = @ \ {n}]
          /\ UNCHANGED <<pc, certs, todo, current>>
       \/ store[n] # Absent /\ Return(p) /\ UNCHANGED store
  /\ UNCHANGED <<cache, kubeconfig, kubeCache, cluster, faults>>

CertificatesAvailable(p) ==
  /\ pc[p] = "save" /\ generated[p] = {}
  /\ Goto(p, "token")
  /\ UNCHANGED <<store, cache, kubeconfig, kubeCache, cluster, faults>>

-----------------------------------------------------------------------------
(* The control plane controller.                                             *)

\* Bug: the machines come first; the bootstrap controller then finds nothing.
BugMachinesFirst ==
  /\ pc["kcp"] = "idle"
  /\ IF configs = {} /\ created # Configs
     THEN Goto("kcp", "machines")
     ELSE StartLookup("kcp") /\ UNCHANGED current
  /\ UNCHANGED <<store, cache, kubeconfig, kubeCache, cluster, faults>>

ReconcileControlPlane ==
  /\ pc["kcp"] = "idle"
  /\ StartLookup("kcp")
  /\ UNCHANGED <<store, cache, kubeconfig, kubeCache, cluster, current, faults>>

GenerateToken ==
  [form |-> "pair", key |-> FreshKey("token"), owner |-> "kcp"]

\* Bug: the token stays with the config it was made for.
BugTokenNotAdopted ==
  /\ pc["kcp"] = "token"
  /\ IF cache["kcp"]["token"] = Absent /\ store["token"] = Absent
     THEN FreshKeys("token") # {} /\ store' = [store EXCEPT !["token"] = GenerateToken]
     ELSE UNCHANGED store
  /\ Goto("kcp", "last")
  /\ UNCHANGED <<cache, kubeconfig, kubeCache, cluster, faults>>

\* token.Reconcile: create the token, or make it the control plane's own.  The
\* write is refused when the secret is not what the cache shows.
ReconcileToken ==
  /\ pc["kcp"] = "token"
  /\ LET cached == cache["kcp"]["token"] IN
       \/ /\ cached = Absent /\ store["token"] = Absent
          /\ FreshKeys("token") # {}
          /\ store' = [store EXCEPT !["token"] = GenerateToken]
          /\ Goto("kcp", "last")
       \/ /\ cached # Absent /\ cached.owner = "kcp"
          /\ Goto("kcp", "last") /\ UNCHANGED store
       \/ /\ cached # Absent /\ cached.owner # "kcp" /\ store["token"] = cached
          /\ store' = [store EXCEPT !["token"].owner = "kcp"]
          /\ Goto("kcp", "last")
       \/ /\ cached.owner # "kcp" /\ store["token"] # cached
          /\ Return("kcp") /\ UNCHANGED store
  /\ UNCHANGED <<cache, kubeconfig, kubeCache, cluster, faults>>

\* What generateKubeconfig finds in the cache.
DependentCertificateNotFound == \E n \in {"ca", "cca"} : cache["kcp"][n] = Absent
CanSign == cache["kcp"]["cca"].form = "pair" /\ cache["kcp"]["ca"].form # "malformed"

NewKubeconfig(serial) ==
  [serial |-> serial, ca |-> cache["kcp"]["ca"].key, cca |-> cache["kcp"]["cca"].key]

\* Bug: the rotation does not ask when the cached certificate ends.
BugNeverDue == kubeCache.serial > MaxRotations + 1

NeedsClientCertRotation == kubeCache.serial <= expiring

\* The three outcomes of creating or renewing it: written; refused because the
\* cache is behind; or the signing certificate is not usable.
WriteKubeconfig(serial) ==
  \/ /\ CanSign /\ kubeconfig = kubeCache
     /\ kubeconfig' = NewKubeconfig(serial)
     /\ Goto("kcp", "machines")
  \/ /\ ~CanSign \/ kubeconfig # kubeCache
     /\ Return("kcp") /\ UNCHANGED kubeconfig

\* reconcileKubeconfig.  When a certificate is not in the cache yet, the
\* requeue it asks for is dropped and the reconcile goes on.
ReconcileKubeconfig ==
  /\ pc["kcp"] = "last"
  /\ \/ ~endpoint /\ Return("kcp") /\ UNCHANGED kubeconfig
     \/ /\ endpoint /\ kubeCache = NoKubeconfig
        /\ \/ /\ DependentCertificateNotFound
              /\ Goto("kcp", "machines") /\ UNCHANGED kubeconfig
           \/ ~DependentCertificateNotFound /\ WriteKubeconfig(1)
     \/ /\ endpoint /\ kubeCache # NoKubeconfig
        /\ \/ NeedsClientCertRotation /\ WriteKubeconfig(kubeCache.serial + 1)
           \/ /\ ~NeedsClientCertRotation
              /\ Goto("kcp", "machines") /\ UNCHANGED kubeconfig
  /\ UNCHANGED <<store, cache, kubeCache, cluster, faults>>

\* The garbage collector takes the secrets of a config along with it.
GarbageCollected(c) == [n \in Names |-> IF store[n].owner = c THEN Absent ELSE store[n]]

\* The rest of the reconcile creates a config with its machine (the first one,
\* or more once the cluster is up), deletes one, or leaves them alone.
ReconcileMachines ==
  /\ pc["kcp"] = "machines"
  /\ \/ /\ configs = {} \/ initialized
        /\ \E c \in Configs \ created :
             created' = created \cup {c} /\ configs' = configs \cup {c}
        /\ UNCHANGED store
     \/ /\ created # Configs
        /\ \E c \in configs : configs' = configs \ {c} /\ store' = GarbageCollected(c)
        /\ UNCHANGED created
     \/ (configs # {} \/ created = Configs) /\ UNCHANGED <<store, created, configs>>
  /\ Return("kcp")
  /\ UNCHANGED <<cache, kubeconfig, kubeCache, expiring, endpoint, ready, hosts,
                 initialized, faults>>

-----------------------------------------------------------------------------
(* The bootstrap controller.                                                 *)

\* handleClusterNotInitialized, with the lock held for c.
ReconcileInitConfig(c) ==
  /\ pc["boot"] = "idle"
  /\ c \in configs \ ready
  /\ ~initialized /\ ready \cap configs = {}
  /\ current' = c
  /\ StartLookup("boot")
  /\ UNCHANGED <<store, cache, kubeconfig, kubeCache, cluster, faults>>

\* What token.Lookup finds in the cache: a secret with a value.
TokenFound == cache["boot"]["token"].form \notin {"absent", "malformed"}

\* The data of the first server: all files and the token.
StoreInitData ==
  /\ pc["boot"] = "token"
  /\ LET token == cache["boot"]["token"] IN
       IF ~TokenFound
       THEN UNCHANGED <<hosts, ready>>
       ELSE /\ hosts' = hosts \cup
                 {[n \in Names |-> IF n = "token" THEN token.key ELSE certs["boot"][n]]}
            /\ ready' = ready \cup {current}
  /\ Return("boot")
  /\ UNCHANGED <<store, cache, kubeconfig, kubeCache, expiring, endpoint, created, configs,
                 initialized, faults>>

\* joinControlplane and joinWorker: the token only.
ReconcileJoinConfig(c) ==
  /\ pc["boot"] = "idle"
  /\ c \in configs \ ready
  /\ initialized
  /\ TokenFound
  /\ hosts' = hosts \cup {[n \in {"token"} |-> cache["boot"]["token"].key]}
  /\ ready' = ready \cup {c}
  /\ UNCHANGED <<store, cache, kubeconfig, kubeCache, expiring, endpoint, created, configs,
                 initialized, pc, memory, faults>>

-----------------------------------------------------------------------------
(* Everything else.                                                          *)

\* A call fails, the code panics or the process restarts.
Fault(p) ==
  /\ pc[p] # "idle" /\ faults < MaxFaults
  /\ faults' = faults + 1
  /\ Return(p)
  /\ UNCHANGED <<store, cache, kubeconfig, kubeCache, cluster>>

Deliver(p) ==
  /\ cache' = [cache EXCEPT ![p] = store]
  /\ kubeCache' = IF p = "kcp" THEN kubeconfig ELSE kubeCache
  /\ <<cache, kubeCache>>' # <<cache, kubeCache>>
  /\ UNCHANGED <<store, kubeconfig, cluster, pc, memory, faults>>

FirstServerUp ==
  /\ endpoint /\ ~initialized /\ ready \cap configs # {}
  /\ initialized' = TRUE
  /\ UNCHANGED <<store, cache, kubeconfig, kubeCache, expiring, endpoint, created, configs,
                 ready, hosts, pc, memory, faults>>

EndpointSet ==
  /\ ~endpoint /\ endpoint' = TRUE
  /\ UNCHANGED <<store, cache, kubeconfig, kubeCache, expiring, created, configs, ready,
                 hosts, initialized, pc, memory, faults>>

CertificateAges ==
  /\ kubeconfig.serial \in 1 .. MaxRotations
  /\ expiring < kubeconfig.serial
  /\ expiring' = kubeconfig.serial
  /\ UNCHANGED <<store, cache, kubeconfig, kubeCache, endpoint, created, configs, ready,
                 hosts, initialized, pc, memory, faults>>

\* A user brings a secret of their own, or repairs one.
UserProvides(n) ==
  /\ store[n].form \in {"absent", "malformed"}
  /\ \E form \in {"pair", "certOnly", "malformed"} :
       /\ <<n, form>> \in UserSecrets /\ form # store[n].form
       /\ form # "malformed" => FreshKeys(n) # {}
       /\ store' = [store EXCEPT ![n] =
            [form |-> form, key |-> IF form = "malformed" THEN NoKey ELSE FreshKey(n),
             owner |-> store[n].owner]]
  /\ UNCHANGED <<cache, kubeconfig, kubeCache, cluster, pc, memory, faults>>

LookupOrGenerate(p) ==
  LookupCertificate(p) \/ Generate(p) \/ SaveGenerated(p) \/ CertificatesAvailable(p)

KThreesControlPlaneReconciler ==
  \/ ReconcileControlPlane \/ LookupOrGenerate("kcp")
  \/ ReconcileToken \/ ReconcileKubeconfig \/ ReconcileMachines

KThreesConfigReconciler ==
  \/ LookupOrGenerate("boot") \/ StoreInitData
  \/ \E c \in Configs : ReconcileInitConfig(c) \/ ReconcileJoinConfig(c)

Next ==
  \/ KThreesControlPlaneReconciler
  \/ KThreesConfigReconciler
  \/ \E p \in Processes : Deliver(p) \/ Fault(p)
  \/ \E n \in Names : UserProvides(n)
  \/ FirstServerUp \/ EndpointSet \/ CertificateAges

Spec == Init /\ [][Next]_vars

\* Both controllers are scheduled, caches are fed, and the first server comes up.
FairSpec ==
  /\ Spec
  /\ WF_vars(KThreesControlPlaneReconciler)
  /\ WF_vars(KThreesConfigReconciler)
  /\ \A p \in Processes : WF_vars(Deliver(p))
  /\ WF_vars(FirstServerUp)
  /\ WF_vars(EndpointSet)

-----------------------------------------------------------------------------
(* Certificates and token are chosen once, whoever creates them and however  *)
(* the lookups, creations, deletions of machines and garbage collections     *)
(* interleave, and every host gets the chosen ones                            *)
(* (kthreescontrolplane_controller.go 486-498, kthreesconfig_controller.go    *)
(* 461-479, token.go 36-50).                                                 *)
Identity == INSTANCE ClusterIdentity WITH
  Keys <- Keys, NoKey <- NoKey, Names <- Names, hosts <- hosts,
  identity <- [n \in Names |-> store[n].key]
ImplementsIdentity == Identity!Spec

(* The kubeconfig is signed by the client authority and trusts the server    *)
(* authority that the hosts run with (kubeconfig.go 30-75).                   *)
KubeconfigFits ==
  kubeconfig # NoKubeconfig =>
    /\ store["ca"].key = kubeconfig.ca
    /\ store["cca"].key = kubeconfig.cca

Usable == \A n \in Names : store[n].form \in {"absent", "pair"}

(* When the user's secrets are usable, the control plane gets its kubeconfig  *)
(* and its first server, in spite of lagging caches and lost races, each of   *)
(* which makes a reconcile fail (certificates.go 153-163).                    *)
Provisioned ==
  <>[]Usable => <>(kubeconfig # NoKubeconfig /\ ready # {})

(* A kubeconfig certificate near its end is replaced                          *)
(* (kthreescontrolplane_controller.go 692-705).                               *)
KubeconfigRotated ==
  <>[]Usable => (kubeconfig.serial \in 1 .. expiring ~> kubeconfig.serial > expiring)

-----------------------------------------------------------------------------
(* What the identity rests on.                                               *)

\* A secret has key material unless it is absent or malformed.
Keyed(secret) ==
  /\ secret.form \in {"pair", "certOnly"} <=> secret.key # NoKey
  /\ secret.form = "absent" => secret = Absent

FormsKeyed ==
  \A n \in Names : Keyed(store[n]) /\ \A p \in Processes : Keyed(cache[p][n])

\* A cache may miss a secret, but it never shows one that is not the chosen one.
CacheTrails ==
  \A p \in Processes, n \in Names :
    /\ cache[p][n].key # NoKey => store[n].key = cache[p][n].key
    /\ cache[p][n] # Absent => store[n] # Absent

\* The keys in memory, at each point of LookupOrGenerate: what was found is the
\* chosen one, and what was generated becomes it.
MemoryFits ==
  \A p \in Processes, n \in Certificates :
    /\ pc[p] = "idle" => certs[p][n] = NoKey
    /\ pc[p] = "lookup" /\ certs[p][n] # NoKey => store[n].key = certs[p][n]
    /\ pc[p] = "save" =>
         certs[p][n] \in Keys /\ (n \notin generated[p] => store[n].key = certs[p][n])
    /\ pc[p] \in {"token", "last", "machines"} =>
         certs[p][n] \in Keys /\ store[n].key = certs[p][n]

\* The garbage collector finds nothing: by the time a config may be deleted, no
\* secret is owned by one.
OwnedByControlPlane ==
  /\ \A n \in Certificates : store[n].owner \notin Configs
  /\ cache["kcp"]["token"].owner = "kcp" => store["token"].owner \notin Configs
  /\ pc["kcp"] \in {"last", "machines"} =>
       store["token"] # Absent /\ store["token"].owner \notin Configs

\* The control plane controller stores all secrets before it makes a config, so
\* that the bootstrap controller never gets to create one.
StoredBeforeConfigs ==
  /\ created # {} => \A n \in Names : store[n] # Absent
  /\ pc["boot"] # "idle" => current \in created

\* What a kubeconfig was made from is still what the cache shows.
KubeconfigKeyed ==
  /\ kubeconfig # NoKubeconfig => kubeconfig.ca # NoKey /\ kubeconfig.cca # NoKey
  /\ kubeCache # NoKubeconfig =>
       cache["kcp"]["ca"].key # NoKey /\ cache["kcp"]["cca"].key # NoKey

IInv ==
  /\ TypeOK /\ FormsKeyed /\ CacheTrails /\ MemoryFits
  /\ OwnedByControlPlane /\ StoredBeforeConfigs
  /\ KubeconfigKeyed /\ KubeconfigFits
=============================================================================
