------------------------ MODULE ClusterSecrets_proofs ------------------------
(***************************************************************************)
(* The secrets of a cluster, for every set of configs, every bound on keys,  *)
(* rotations and faults, and whatever secrets the user brings: certificates  *)
(* and token are chosen once, and the kubeconfig fits them.                  *)
(***************************************************************************)
EXTENDS ClusterSecrets, SequenceTheorems, TLAPS

-----------------------------------------------------------------------------
(* Names, keys and sequences of certificates.                                *)

LEMMA CertificateNames ==
  /\ "ca" \in Certificates /\ "cca" \in Certificates /\ "token" \notin Certificates
  /\ NewCertificatesForInitialControlPlane \in Seq(Certificates)
<1>1. CASE EtcdEmbedded
  <2> DEFINE s == <<"ca", "cca", "etcd">>
  <2>1. NewCertificatesForInitialControlPlane = s
    BY <1>1 DEF NewCertificatesForInitialControlPlane
  <2>2. DOMAIN s = 1 .. 3 /\ s[1] = "ca" /\ s[2] = "cca" /\ s[3] = "etcd"
    OBVIOUS
  <2>3. Certificates = {s[i] : i \in 1 .. 3}
    BY <2>1, <2>2 DEF Certificates, ToSet
  <2>4. Certificates = {"ca", "cca", "etcd"}
    BY <2>2, <2>3
  <2>5. QED
    BY <2>1, <2>4
<1>2. CASE ~EtcdEmbedded
  <2> DEFINE s == <<"ca", "cca">>
  <2>1. NewCertificatesForInitialControlPlane = s
    BY <1>2 DEF NewCertificatesForInitialControlPlane
  <2>2. DOMAIN s = 1 .. 2 /\ s[1] = "ca" /\ s[2] = "cca"
    OBVIOUS
  <2>3. Certificates = {s[i] : i \in 1 .. 2}
    BY <2>1, <2>2 DEF Certificates, ToSet
  <2>4. Certificates = {"ca", "cca"}
    BY <2>2, <2>3
  <2>5. QED
    BY <2>1, <2>4
<1>3. QED
  BY <1>1, <1>2

LEMMA NamesOfSecrets ==
  /\ Certificates \subseteq Names /\ "token" \in Names /\ "ca" \in Names /\ "cca" \in Names
  /\ \A n \in Names : n # "token" => n \in Certificates
BY CertificateNames DEF Names

LEMMA KeysAreNumbers == Keys \subseteq Nat /\ NoKey \notin Keys /\ 1 \in Keys
BY ConstantsAssumption DEF Keys, NoKey

\* A key that is generated is a key.
LEMMA FreshKeyIsKey ==
  ASSUME NEW n, FreshKeys(n) # {}
  PROVE  FreshKey(n) \in Keys
<1>1. FreshKey(n) \in FreshKeys(n)
  BY Zenon DEF FreshKey
<1>2. QED
  BY <1>1 DEF FreshKeys

-----------------------------------------------------------------------------
(* The invariant in parts, by the variables they are about.                   *)

StorePart ==
  /\ store \in [Names -> Secret]
  /\ \A n \in Names : Keyed(store[n])
  /\ \A n \in Certificates : store[n].owner \notin Configs

CachePart ==
  /\ cache \in [Processes -> [Names -> Secret]]
  /\ \A p \in Processes, n \in Names : Keyed(cache[p][n])
  /\ CacheTrails
  /\ cache["kcp"]["token"].owner = "kcp" => store["token"].owner \notin Configs

KubePart ==
  /\ kubeconfig \in Kubeconfig /\ kubeCache \in Kubeconfig
  /\ kubeCache.serial <= kubeconfig.serial
  /\ expiring \in 0 .. MaxRotations /\ expiring <= kubeconfig.serial
  /\ KubeconfigKeyed /\ KubeconfigFits

ConfigPart ==
  /\ endpoint \in BOOLEAN /\ initialized \in BOOLEAN
  /\ created \subseteq Configs /\ configs \subseteq created /\ ready \subseteq created
  /\ StoredBeforeConfigs

Fits(p) ==
  \A n \in Certificates :
    /\ pc[p] = "idle" => certs[p][n] = NoKey
    /\ pc[p] = "lookup" /\ certs[p][n] # NoKey => store[n].key = certs[p][n]
    /\ pc[p] = "save" =>
         certs[p][n] \in Keys /\ (n \notin generated[p] => store[n].key = certs[p][n])
    /\ pc[p] \in {"token", "last", "machines"} =>
         certs[p][n] \in Keys /\ store[n].key = certs[p][n]

MemoryPart ==
  /\ pc \in [Processes -> {"idle", "lookup", "save", "token", "last", "machines"}]
  /\ certs \in [Processes -> [Certificates -> Keys \cup {NoKey}]]
  /\ generated \in [Processes -> SUBSET Certificates]
  /\ todo \in [Processes -> Seq(Certificates)]
  /\ current \in Configs \cup {NoConfig}
  /\ \A p \in Processes : Fits(p)

TokenPart ==
  pc["kcp"] \in {"last", "machines"} =>
    store["token"] # Absent /\ store["token"].owner \notin Configs

FaultPart == faults \in 0 .. MaxFaults

AllParts ==
  StorePart /\ CachePart /\ KubePart /\ ConfigPart /\ MemoryPart /\ TokenPart /\ FaultPart

LEMMA Parts == IInv <=> AllParts
BY DEF IInv, AllParts, TypeOK, FormsKeyed, MemoryFits, OwnedByControlPlane, StorePart, CachePart,
       KubePart, ConfigPart, Fits, MemoryPart, TokenPart, FaultPart

LEMMA PartsNext == AllParts' => IInv'
BY DEF IInv, AllParts, TypeOK, FormsKeyed, MemoryFits, OwnedByControlPlane, StorePart, CachePart,
       KubePart, ConfigPart, Fits, MemoryPart, TokenPart, FaultPart

-----------------------------------------------------------------------------
(* What a step may do to the secrets: keep their keys, or choose one that was  *)
(* not chosen.  The other parts of the invariant follow from that.             *)

\* Nothing that was there is lost or changed.
StoreGrows ==
  \A n \in Names :
    /\ store[n].key # NoKey => store'[n].key = store[n].key
    /\ store[n] # Absent => store'[n] # Absent
    /\ store[n].owner \notin Configs => store'[n].owner \notin Configs

KeysKept == \A n \in Names : store'[n].key = store[n].key

KeyChosen(n, k) ==
  /\ store[n].key = NoKey /\ store'[n].key = k
  /\ \A m \in Names \ {n} : store'[m].key = store[m].key

StoreStep ==
  /\ StorePart' /\ StoreGrows
  /\ KeysKept \/ \E n \in Names, k \in Keys : KeyChosen(n, k)

LEMMA StoreUnchanged ==
  ASSUME StorePart, store' = store
  PROVE  StoreStep
BY DEF StorePart, StoreStep, StoreGrows, KeysKept

\* One secret is made, or written where it had no key.
LEMMA StoreWritten ==
  ASSUME StorePart, NEW n \in Names, NEW s \in Secret,
         store' = [store EXCEPT ![n] = s],
         Keyed(s), s # Absent, s.key = store[n].key \/ store[n].key = NoKey,
         s.owner \in Configs => store[n].owner \in Configs
  PROVE  StoreStep
<1>1. store'[n] = s /\ \A m \in Names \ {n} : store'[m] = store[m]
  BY DEF StorePart
<1>2. StorePart'
  <2>1. store' \in [Names -> Secret]
    BY DEF StorePart
  <2>2. \A m \in Names : Keyed(store'[m])
    BY <1>1 DEF StorePart
  <2>3. \A m \in Certificates : store'[m].owner \notin Configs
    BY <1>1, NamesOfSecrets DEF StorePart
  <2>4. QED
    BY <2>1, <2>2, <2>3 DEF StorePart, Keyed
<1>3. StoreGrows
  BY <1>1 DEF StoreGrows
<1>4. s.key \in Keys \cup {NoKey}
  BY DEF Secret
<1>5. KeysKept \/ KeyChosen(n, s.key)
  BY <1>1 DEF KeysKept, KeyChosen
<1>6. KeysKept \/ \E k \in Keys : KeyChosen(n, k)
  <2>1. CASE s.key = NoKey
    BY <1>1, <2>1 DEF KeysKept
  <2>2. QED
    BY <1>4, <1>5, <2>1
<1>7. QED
  BY <1>2, <1>3, <1>6 DEF StoreStep

LEMMA CacheUnchanged ==
  ASSUME CachePart, StoreGrows, cache' = cache
  PROVE  CachePart'
BY NamesOfSecrets DEF CachePart, StoreGrows, CacheTrails, Keyed

LEMMA KubeUnchanged ==
  ASSUME KubePart, StoreGrows, UNCHANGED <<kubeconfig, kubeCache, expiring, cache>>
  PROVE  KubePart'
<1>1. /\ store["ca"].key # NoKey => store'["ca"].key = store["ca"].key
      /\ store["cca"].key # NoKey => store'["cca"].key = store["cca"].key
  BY NamesOfSecrets DEF StoreGrows
<1>2. KubeconfigFits'
  BY <1>1 DEF KubePart, KubeconfigFits, KubeconfigKeyed
<1>3. QED
  BY <1>2 DEF KubePart, KubeconfigKeyed

LEMMA ConfigsUnchanged ==
  ASSUME ConfigPart, StoreGrows, UNCHANGED <<endpoint, initialized, created, configs, ready>>,
         pc'["boot"] # "idle" => current' \in created
  PROVE  ConfigPart'
BY DEF ConfigPart, StoreGrows, StoredBeforeConfigs

LEMMA TokenKept ==
  ASSUME TokenPart, StoreGrows,
         pc'["kcp"] \in {"last", "machines"} => pc["kcp"] \in {"last", "machines"}
  PROVE  TokenPart'
BY NamesOfSecrets DEF TokenPart, StoreGrows

\* What a process has in memory stays right while others choose keys.
LEMMA FitsKept ==
  ASSUME NEW p \in Processes, Fits(p), StoreGrows,
         pc'[p] = pc[p], certs'[p] = certs[p], generated'[p] = generated[p]
  PROVE  Fits(p)'
<1>1. ASSUME NEW n \in Certificates, store[n].key # NoKey PROVE store'[n].key = store[n].key
  BY <1>1, NamesOfSecrets DEF StoreGrows
<1>2. QED
  BY <1>1, KeysAreNumbers DEF Fits

LEMMA MemoryUnchanged ==
  ASSUME MemoryPart, StoreGrows, UNCHANGED <<pc, certs, generated, todo, current>>
  PROVE  MemoryPart'
BY FitsKept DEF MemoryPart

\* The bootstrap controller does not turn to another config.
BootStays == pc'["boot"] # "idle" => pc["boot"] # "idle" /\ current' = current

\* One process moves.
LEMMA MemoryMoves ==
  ASSUME MemoryPart, StoreGrows, NEW p \in Processes,
         NEW step \in {"idle", "lookup", "save", "token", "last", "machines"},
         NEW c \in [Certificates -> Keys \cup {NoKey}], NEW g \in SUBSET Certificates,
         NEW t \in Seq(Certificates),
         pc' = [pc EXCEPT ![p] = step], certs' = [certs EXCEPT ![p] = c],
         generated' = [generated EXCEPT ![p] = g], todo' = [todo EXCEPT ![p] = t],
         current' \in Configs \cup {NoConfig},
         Fits(p)'
  PROVE  MemoryPart'
<1>1. \A q \in Processes \ {p} :
        pc'[q] = pc[q] /\ certs'[q] = certs[q] /\ generated'[q] = generated[q]
  BY DEF MemoryPart
<1>2. \A q \in Processes : Fits(q)'
  BY <1>1, FitsKept DEF MemoryPart
<1>3. QED
  BY <1>2 DEF MemoryPart

LEMMA ReturnKeepsMemory ==
  ASSUME MemoryPart, StoreGrows, NEW p \in Processes, Return(p)
  PROVE  /\ MemoryPart' /\ pc'[p] = "idle" /\ BootStays
         /\ \A q \in Processes \ {p} : pc'[q] = pc[q]
<1>1. NoKeys \in [Certificates -> Keys \cup {NoKey}] /\ \A n \in Certificates : NoKeys[n] = NoKey
  BY DEF NoKeys
<1>2. pc'[p] = "idle" /\ certs'[p] = NoKeys /\ \A q \in Processes \ {p} : pc'[q] = pc[q]
  BY DEF Return, MemoryPart
<1>3. Fits(p)'
  BY <1>1, <1>2 DEF Fits
<1>4. current' \in Configs \cup {NoConfig}
  BY DEF Return, MemoryPart
<1>5. <<>> \in Seq(Certificates) /\ {} \in SUBSET Certificates
  OBVIOUS
<1>6. MemoryPart'
  BY <1>1, <1>3, <1>4, <1>5, MemoryMoves DEF Return
<1>7. BootStays
  BY <1>2 DEF Return, BootStays, Processes
<1>8. QED
  BY <1>2, <1>6, <1>7

\* A reconcile that has its certificates keeps them.
LEMMA GotoKeepsMemory ==
  ASSUME MemoryPart, StoreGrows, NEW p \in Processes, NEW step \in {"token", "last", "machines"},
         Goto(p, step),
         pc[p] \in {"token", "last", "machines"} \/ (pc[p] = "save" /\ generated[p] = {})
  PROVE  /\ MemoryPart' /\ pc'[p] = step /\ BootStays
         /\ \A q \in Processes \ {p} : pc'[q] = pc[q]
<1>1. /\ pc' = [pc EXCEPT ![p] = step] /\ certs' = certs /\ generated' = generated
      /\ todo' = todo /\ current' = current
  BY DEF Goto, memory
<1>2. pc'[p] = step /\ \A q \in Processes \ {p} : pc'[q] = pc[q]
  BY <1>1 DEF MemoryPart
<1>3. Fits(p)'
  <2>1. Fits(p) /\ \A n \in Certificates : store[n].key # NoKey => store'[n].key = store[n].key
    BY NamesOfSecrets DEF MemoryPart, StoreGrows
  <2>2. QED
    BY <1>1, <1>2, <2>1, KeysAreNumbers DEF Fits
<1>4. \A q \in Processes : Fits(q)'
  BY <1>1, <1>2, <1>3, FitsKept DEF MemoryPart
<1>5. MemoryPart'
  BY <1>1, <1>4 DEF MemoryPart
<1>6. BootStays
  BY <1>1, <1>2 DEF BootStays, Processes
<1>7. QED
  BY <1>2, <1>5, <1>6

-----------------------------------------------------------------------------
(* LookupOrGenerate.                                                         *)

\* A step of a process that has neither touched the caches, the kubeconfig and
\* the configs, nor started to work on a config.
LEMMA ProcessStep ==
  ASSUME AllParts, StoreStep, MemoryPart', TokenPart',
         UNCHANGED <<cache, kubeconfig, kubeCache, cluster, faults>>,
         BootStays
  PROVE  AllParts' /\ StoreStep
<1>1. UNCHANGED <<expiring, endpoint, created, configs, ready, hosts, initialized>>
  BY DEF cluster
<1>2. StorePart' /\ StoreGrows
  BY DEF StoreStep
<1>3. CachePart'
  BY <1>2, CacheUnchanged DEF AllParts
<1>4. KubePart'
  BY <1>1, <1>2, KubeUnchanged DEF AllParts
<1>5. ConfigPart'
  BY <1>1, <1>2, ConfigsUnchanged DEF AllParts, ConfigPart, StoredBeforeConfigs, BootStays
<1>6. FaultPart'
  BY DEF AllParts, FaultPart
<1>7. QED
  BY <1>2, <1>3, <1>4, <1>5, <1>6 DEF AllParts

LEMMA ProcessNames == "kcp" \in Processes /\ "boot" \in Processes
BY DEF Processes

LEMMA LookupStep ==
  ASSUME AllParts, NEW p \in Processes, LookupCertificate(p)
  PROVE  AllParts' /\ StoreStep
<1> DEFINE n == Head(todo[p])
<1>1. StoreStep /\ StoreGrows
  BY StoreUnchanged DEF AllParts, LookupCertificate, StoreStep
<1>2. n \in Certificates /\ Tail(todo[p]) \in Seq(Certificates)
  BY DEF LookupCertificate, AllParts, MemoryPart
<1> HIDE DEF n
<1>3. CASE Return(p)
  <2>1. /\ MemoryPart' /\ pc'[p] = "idle" /\ BootStays
        /\ \A q \in Processes \ {p} : pc'[q] = pc[q]
    BY <1>1, <1>3, ReturnKeepsMemory DEF AllParts
  <2>2. TokenPart'
    BY <1>1, <2>1, TokenKept, ProcessNames DEF AllParts
  <2>3. QED
    BY <1>1, <2>1, <2>2, ProcessStep, ProcessNames DEF LookupCertificate
<1>4. CASE /\ certs' = [certs EXCEPT ![p][n] = cache[p][n].key]
           /\ todo' = [todo EXCEPT ![p] = Tail(@)]
           /\ UNCHANGED <<pc, generated, current>>
  <2> DEFINE c == [certs[p] EXCEPT ![n] = cache[p][n].key]
  <2>1. cache[p][n].key \in Keys \cup {NoKey}
    BY <1>2, NamesOfSecrets DEF AllParts, CachePart, Secret
  <2>2. c \in [Certificates -> Keys \cup {NoKey}] /\ certs' = [certs EXCEPT ![p] = c] /\ certs'[p] = c
    BY <1>4, <2>1 DEF AllParts, MemoryPart
  <2>3. pc' = [pc EXCEPT ![p] = pc[p]] /\ generated' = [generated EXCEPT ![p] = generated[p]]
        /\ todo' = [todo EXCEPT ![p] = Tail(todo[p])]
    BY <1>4 DEF AllParts, MemoryPart
  <2>4. store' = store /\ pc[p] = "lookup" /\ pc'[p] = "lookup"
    BY <1>4 DEF LookupCertificate
  <2>5. Fits(p)'
    <3>1. ASSUME NEW m \in Certificates, c[m] # NoKey PROVE store[m].key = c[m]
      <4>1. CASE m = n
        <5>1. c[m] = cache[p][n].key
          BY <1>2, <4>1 DEF AllParts, MemoryPart
        <5>2. QED
          BY <1>2, <3>1, <4>1, <5>1, NamesOfSecrets DEF AllParts, CachePart, CacheTrails
      <4>2. CASE m # n
        <5>1. c[m] = certs[p][m]
          BY <4>2 DEF AllParts, MemoryPart
        <5>2. QED
          BY <2>4, <3>1, <5>1 DEF AllParts, MemoryPart, Fits
      <4>3. QED
        BY <4>1, <4>2
    <3> HIDE DEF c
    <3>2. QED
      BY <2>2, <2>4, <3>1 DEF Fits
  <2> HIDE DEF c
  <2>6. /\ pc[p] \in {"idle", "lookup", "save", "token", "last", "machines"}
        /\ generated[p] \in SUBSET Certificates /\ current' \in Configs \cup {NoConfig}
    BY <1>4 DEF AllParts, MemoryPart
  <2>7. MemoryPart'
    BY <1>1, <1>2, <2>2, <2>3, <2>5, <2>6, MemoryMoves DEF AllParts
  <2>8. TokenPart'
    BY <1>1, <1>4, TokenKept DEF AllParts
  <2>9. QED
    BY <1>1, <1>4, <2>7, <2>8, ProcessStep DEF LookupCertificate, BootStays
<1>5. QED
  BY <1>3, <1>4 DEF LookupCertificate, n

LEMMA GenerateStep ==
  ASSUME AllParts, NEW p \in Processes, Generate(p)
  PROVE  AllParts' /\ StoreStep
<1> DEFINE c == [n \in Certificates |-> IF n \in Missing(p) THEN FreshKey(n) ELSE certs[p][n]]
<1>1. StoreStep /\ StoreGrows /\ store' = store
  BY StoreUnchanged DEF AllParts, Generate, StoreStep
<1>2. /\ certs' = [certs EXCEPT ![p] = c] /\ generated' = [generated EXCEPT ![p] = Missing(p)]
      /\ pc' = [pc EXCEPT ![p] = "save"] /\ todo' = [todo EXCEPT ![p] = todo[p]]
      /\ current' = current /\ pc[p] = "lookup"
  BY DEF Generate, AllParts, MemoryPart
<1>3. \A n \in Certificates : c[n] \in Keys
  BY FreshKeyIsKey DEF Generate, Missing, AllParts, MemoryPart
<1>4. \A n \in Certificates : n \notin Missing(p) => c[n] = certs[p][n] /\ certs[p][n] # NoKey
  BY DEF Missing
<1>5. c \in [Certificates -> Keys \cup {NoKey}]
  BY <1>3
<1> HIDE DEF c
<1>6. certs'[p] = c /\ generated'[p] = Missing(p) /\ pc'[p] = "save"
      /\ \A q \in Processes \ {p} : pc'[q] = pc[q]
  BY <1>2 DEF AllParts, MemoryPart
<1>7. Fits(p)'
  <2>1. \A n \in Certificates : n \notin Missing(p) => store[n].key = c[n]
    BY <1>2, <1>4 DEF AllParts, MemoryPart, Fits
  <2>2. QED
    BY <1>1, <1>3, <1>6, <2>1 DEF Fits
<1>8. Missing(p) \in SUBSET Certificates /\ todo[p] \in Seq(Certificates)
      /\ current' \in Configs \cup {NoConfig}
  BY <1>2 DEF Missing, AllParts, MemoryPart
<1>9. MemoryPart'
  BY <1>1, <1>2, <1>5, <1>7, <1>8, MemoryMoves DEF AllParts
<1>10. TokenPart'
  BY <1>1, <1>6, TokenKept, ProcessNames DEF AllParts
<1>11. QED
  <2>1. BootStays
    BY <1>2, <1>6, ProcessNames DEF BootStays
  <2>2. QED
    BY <1>1, <1>9, <1>10, <2>1, ProcessStep DEF Generate

\* Only the control plane controller ever gets to create a certificate: when the
\* bootstrap controller has a config to work on, all secrets are there.
LEMMA OnlyControlPlaneSaves ==
  ASSUME AllParts, NEW p \in Processes, pc[p] = "save", NEW n \in Certificates, store[n] = Absent
  PROVE  p = "kcp"
BY NamesOfSecrets DEF AllParts, ConfigPart, StoredBeforeConfigs, Processes

LEMMA SaveStep ==
  ASSUME AllParts, NEW p \in Processes, SaveGenerated(p)
  PROVE  AllParts' /\ StoreStep
<1>1. PICK n \in ToSave(p) :
        \/ /\ store[n] = Absent
           /\ store' = [store EXCEPT ![n] = AsSecret(p, n)]
           /\ generated' = [generated EXCEPT ![p] = @ \ {n}]
           /\ UNCHANGED <<pc, certs, todo, current>>
        \/ store[n] # Absent /\ Return(p) /\ UNCHANGED store
  BY DEF SaveGenerated
<1>2. n \in generated[p] /\ n \in Certificates /\ n \in Names
  BY NamesOfSecrets DEF ToSave, AllParts, MemoryPart
<1>3. CASE store[n] # Absent /\ Return(p) /\ UNCHANGED store
  <2>1. StoreStep /\ StoreGrows
    BY <1>3, StoreUnchanged DEF AllParts, StoreStep
  <2>2. /\ MemoryPart' /\ pc'[p] = "idle" /\ BootStays
        /\ \A q \in Processes \ {p} : pc'[q] = pc[q]
    BY <1>3, <2>1, ReturnKeepsMemory DEF AllParts
  <2>3. TokenPart'
    BY <2>1, <2>2, TokenKept, ProcessNames DEF AllParts
  <2>4. QED
    BY <2>1, <2>2, <2>3, ProcessStep, ProcessNames DEF SaveGenerated
<1>4. CASE /\ store[n] = Absent
           /\ store' = [store EXCEPT ![n] = AsSecret(p, n)]
           /\ generated' = [generated EXCEPT ![p] = @ \ {n}]
           /\ UNCHANGED <<pc, certs, todo, current>>
  <2>1. pc[p] = "save" /\ p = "kcp"
    BY <1>2, <1>4, OnlyControlPlaneSaves DEF SaveGenerated
  <2>2. certs[p][n] \in Keys /\ certs[p][n] # NoKey
    BY <1>2, <2>1, KeysAreNumbers DEF AllParts, MemoryPart, Fits
  <2> DEFINE s == [form |-> "pair", key |-> certs[p][n], owner |-> "kcp"]
  <2>3. AsSecret(p, n) = s
    BY <2>1 DEF AsSecret, OwnerOf
  <2>4. /\ s \in Secret /\ s.key = certs[p][n] /\ s.owner = "kcp" /\ s.form = "pair"
        /\ s # Absent
    BY <2>2 DEF Secret, Forms, Owners, Absent
  <2> HIDE DEF s
  <2>5. Keyed(s) /\ s.owner \notin Configs /\ store[n].key = NoKey
    BY <1>4, <2>2, <2>4, ConstantsAssumption DEF Keyed, Absent
  <2>6. StoreStep /\ StoreGrows
    BY <1>2, <1>4, <2>3, <2>4, <2>5, StoreWritten DEF AllParts, StoreStep
  <2>7. store'[n].key = certs[p][n] /\ \A m \in Certificates \ {n} : store'[m] = store[m]
    BY <1>2, <1>4, <2>3, <2>4, NamesOfSecrets DEF AllParts, StorePart
  <2>8. generated'[p] = generated[p] \ {n} /\ generated[p] \ {n} \in SUBSET Certificates
        /\ generated' = [generated EXCEPT ![p] = generated[p] \ {n}]
    BY <1>4 DEF AllParts, MemoryPart
  <2>9. pc' = [pc EXCEPT ![p] = pc[p]] /\ certs' = [certs EXCEPT ![p] = certs[p]]
        /\ todo' = [todo EXCEPT ![p] = todo[p]]
    BY <1>4 DEF AllParts, MemoryPart
  <2>10. Fits(p)'
    BY <1>4, <2>1, <2>2, <2>7, <2>8 DEF Fits, AllParts, MemoryPart
  <2>11. /\ pc[p] \in {"idle", "lookup", "save", "token", "last", "machines"}
         /\ certs[p] \in [Certificates -> Keys \cup {NoKey}] /\ todo[p] \in Seq(Certificates)
         /\ current' \in Configs \cup {NoConfig}
    BY <1>4 DEF AllParts, MemoryPart
  <2>12. MemoryPart'
    BY <2>6, <2>8, <2>9, <2>10, <2>11, MemoryMoves DEF AllParts
  <2>13. TokenPart'
    BY <1>4, <2>6, TokenKept DEF AllParts
  <2>14. QED
    BY <1>4, <2>6, <2>12, <2>13, ProcessStep DEF SaveGenerated, BootStays
<1>5. QED
  BY <1>1, <1>3, <1>4

LEMMA AvailableStep ==
  ASSUME AllParts, NEW p \in Processes, CertificatesAvailable(p)
  PROVE  AllParts' /\ StoreStep
<1>1. StoreStep /\ StoreGrows
  BY StoreUnchanged DEF AllParts, CertificatesAvailable, StoreStep
<1>2. /\ MemoryPart' /\ pc'[p] = "token" /\ BootStays
      /\ \A q \in Processes \ {p} : pc'[q] = pc[q]
  BY <1>1, GotoKeepsMemory DEF AllParts, CertificatesAvailable
<1>3. TokenPart'
  BY <1>1, <1>2, TokenKept, ProcessNames DEF AllParts
<1>4. QED
  BY <1>1, <1>2, <1>3, ProcessStep, ProcessNames DEF CertificatesAvailable

LEMMA LookupOrGenerateStep ==
  ASSUME AllParts, NEW p \in Processes, LookupOrGenerate(p)
  PROVE  AllParts' /\ StoreStep /\ hosts' = hosts
<1>1. AllParts' /\ StoreStep
  BY LookupStep, GenerateStep, SaveStep, AvailableStep DEF LookupOrGenerate
<1>2. QED
  BY <1>1 DEF LookupOrGenerate, LookupCertificate, Generate, SaveGenerated,
              CertificatesAvailable, cluster

-----------------------------------------------------------------------------
(* The control plane controller.                                             *)

\* A reconcile begins, of either controller.
LEMMA StartKeepsMemory ==
  ASSUME MemoryPart, StoreGrows, NEW p \in Processes, pc[p] = "idle",
         StartLookup(p), current' \in Configs \cup {NoConfig}
  PROVE  /\ MemoryPart' /\ pc'[p] = "lookup"
         /\ \A q \in Processes \ {p} : pc'[q] = pc[q]
<1>1. /\ pc' = [pc EXCEPT ![p] = "lookup"] /\ certs' = certs /\ generated' = generated
      /\ todo' = [todo EXCEPT ![p] = NewCertificatesForInitialControlPlane]
  BY DEF StartLookup
<1>2. pc'[p] = "lookup" /\ \A q \in Processes \ {p} : pc'[q] = pc[q]
  BY <1>1 DEF MemoryPart
<1>3. Fits(p)'
  BY <1>1, <1>2 DEF Fits, MemoryPart
<1>4. \A q \in Processes : Fits(q)'
  BY <1>1, <1>2, <1>3, FitsKept DEF MemoryPart
<1>5. MemoryPart'
  BY <1>1, <1>4, CertificateNames DEF MemoryPart
<1>6. QED
  BY <1>2, <1>5

LEMMA ReconcileStep ==
  ASSUME AllParts, ReconcileControlPlane
  PROVE  AllParts' /\ StoreStep
<1>1. StoreStep /\ StoreGrows
  BY StoreUnchanged DEF AllParts, ReconcileControlPlane, StoreStep
<1>2. current' \in Configs \cup {NoConfig}
  BY DEF ReconcileControlPlane, AllParts, MemoryPart
<1>3. MemoryPart' /\ pc'["kcp"] = "lookup" /\ pc'["boot"] = pc["boot"] /\ BootStays
  BY <1>1, <1>2, StartKeepsMemory, ProcessNames DEF AllParts, ReconcileControlPlane, BootStays
<1>4. TokenPart'
  BY <1>3 DEF TokenPart
<1>5. QED
  BY <1>1, <1>3, <1>4, ProcessStep DEF ReconcileControlPlane

\* After token.Reconcile the token is there and not owned by a config.
LEMMA TokenStep ==
  ASSUME AllParts, ReconcileToken
  PROVE  AllParts' /\ StoreStep
<1> DEFINE cached == cache["kcp"]["token"]
<1>1. "token" \in Names /\ "token" \notin Certificates /\ store["token"] \in Secret
      /\ Keyed(store["token"])
  BY NamesOfSecrets, CertificateNames DEF AllParts, StorePart
<1>2. cached \in Secret
  BY <1>1, ProcessNames DEF AllParts, CachePart
<1>3. ASSUME StoreStep, Goto("kcp", "last"), store'["token"] # Absent,
             store'["token"].owner \notin Configs
      PROVE  AllParts'
  <2>1. StoreGrows
    BY <1>3 DEF StoreStep
  <2>2. MemoryPart' /\ BootStays
    BY <1>3, <2>1, GotoKeepsMemory, ProcessNames DEF AllParts, ReconcileToken
  <2>3. TokenPart'
    BY <1>3 DEF TokenPart
  <2>4. QED
    BY <1>3, <2>2, <2>3, ProcessStep DEF ReconcileToken
<1>4. CASE /\ cached = Absent /\ store["token"] = Absent
           /\ FreshKeys("token") # {}
           /\ store' = [store EXCEPT !["token"] = GenerateToken]
           /\ Goto("kcp", "last")
  <2>1. FreshKey("token") \in Keys /\ FreshKey("token") # NoKey
    BY <1>4, FreshKeyIsKey, KeysAreNumbers
  <2>2. /\ GenerateToken \in Secret /\ GenerateToken.key = FreshKey("token")
        /\ GenerateToken.owner = "kcp" /\ GenerateToken.form = "pair" /\ GenerateToken # Absent
    BY <2>1 DEF GenerateToken, Secret, Forms, Owners, Absent
  <2>3. Keyed(GenerateToken) /\ store["token"].key = NoKey /\ "kcp" \notin Configs
    BY <1>4, <2>1, <2>2, ConstantsAssumption DEF Keyed, Absent
  <2>4. StoreStep
    BY <1>1, <1>4, <2>2, <2>3, StoreWritten DEF AllParts
  <2>5. store'["token"] = GenerateToken
    BY <1>1, <1>4 DEF AllParts, StorePart
  <2>6. QED
    BY <1>3, <1>4, <2>2, <2>3, <2>4, <2>5
<1>5. CASE /\ cached # Absent /\ cached.owner = "kcp"
           /\ Goto("kcp", "last") /\ UNCHANGED store
  <2>1. StoreStep
    BY <1>5, StoreUnchanged DEF AllParts
  <2>2. store["token"] # Absent /\ store["token"].owner \notin Configs
    BY <1>1, <1>5, ProcessNames DEF AllParts, CachePart, CacheTrails
  <2>3. QED
    BY <1>3, <1>5, <2>1, <2>2
<1>6. CASE /\ cached # Absent /\ cached.owner # "kcp" /\ store["token"] = cached
           /\ store' = [store EXCEPT !["token"].owner = "kcp"]
           /\ Goto("kcp", "last")
  <2> DEFINE s == [store["token"] EXCEPT !.owner = "kcp"]
  <2>1. store' = [store EXCEPT !["token"] = s]
    BY <1>6
  <2>2. /\ s \in Secret /\ s.key = store["token"].key /\ s.form = store["token"].form
        /\ s.owner = "kcp"
    BY <1>1 DEF Secret, Owners
  <2> HIDE DEF s
  <2>3. store["token"].form # "absent"
    BY <1>1, <1>6 DEF Keyed
  <2>4. Keyed(s) /\ s # Absent /\ "kcp" \notin Configs
    BY <1>1, <2>2, <2>3, ConstantsAssumption DEF Keyed, Absent
  <2>5. StoreStep
    BY <1>1, <2>1, <2>2, <2>4, StoreWritten DEF AllParts
  <2>6. store'["token"] = s
    BY <1>1, <2>1 DEF AllParts, StorePart
  <2>7. QED
    BY <1>3, <1>6, <2>2, <2>4, <2>5, <2>6
<1>7. CASE Return("kcp") /\ UNCHANGED store
  <2>1. StoreStep /\ StoreGrows
    BY <1>7, StoreUnchanged DEF AllParts, StoreStep
  <2>2. MemoryPart' /\ pc'["kcp"] = "idle" /\ BootStays
    BY <1>7, <2>1, ReturnKeepsMemory, ProcessNames DEF AllParts
  <2>3. TokenPart'
    BY <2>2 DEF TokenPart
  <2>4. QED
    BY <2>1, <2>2, <2>3, ProcessStep DEF ReconcileToken
<1>8. QED
  BY <1>4, <1>5, <1>6, <1>7 DEF ReconcileToken

\* A kubeconfig is made from certificates that the cache shows, and these are
\* the chosen ones.
LEMMA KubeconfigWritten ==
  ASSUME AllParts, NEW serial \in 1 .. MaxRotations + 1, CanSign, kubeconfig = kubeCache,
         kubeconfig' = NewKubeconfig(serial), kubeconfig.serial <= serial,
         cache["kcp"]["ca"].form # "absent",
         UNCHANGED <<store, cache, kubeCache, expiring>>
  PROVE  KubePart'
<1>1. "ca" \in Names /\ "cca" \in Names /\ "kcp" \in Processes
  BY NamesOfSecrets, ProcessNames
<1>2. /\ cache["kcp"]["ca"] \in Secret /\ cache["kcp"]["cca"] \in Secret
      /\ Keyed(cache["kcp"]["ca"]) /\ Keyed(cache["kcp"]["cca"])
  BY <1>1 DEF AllParts, CachePart
<1>3. cache["kcp"]["ca"].key # NoKey /\ cache["kcp"]["cca"].key # NoKey
  BY <1>2 DEF CanSign, Keyed, Secret, Forms
<1>4. /\ store["ca"].key = cache["kcp"]["ca"].key
      /\ store["cca"].key = cache["kcp"]["cca"].key
  BY <1>1, <1>3 DEF AllParts, CachePart, CacheTrails
<1>5. /\ kubeconfig'.serial = serial /\ kubeconfig'.ca = cache["kcp"]["ca"].key
      /\ kubeconfig'.cca = cache["kcp"]["cca"].key
  BY DEF NewKubeconfig
<1>6. kubeconfig' \in Kubeconfig
  BY <1>2, ConstantsAssumption DEF NewKubeconfig, Kubeconfig, Secret
<1>7. KubeconfigFits' /\ KubeconfigKeyed'
  BY <1>3, <1>4, <1>5 DEF KubeconfigFits, KubeconfigKeyed
<1>8. kubeconfig.serial \in Nat /\ kubeCache.serial \in Nat /\ expiring \in Nat
  BY ConstantsAssumption DEF AllParts, KubePart, Kubeconfig
<1>9. kubeCache.serial <= kubeconfig'.serial /\ expiring <= kubeconfig'.serial
  BY <1>5, <1>8, ConstantsAssumption DEF AllParts, KubePart
<1>10. QED
  BY <1>6, <1>7, <1>9 DEF AllParts, KubePart

LEMMA KubeconfigStep ==
  ASSUME AllParts, ReconcileKubeconfig
  PROVE  AllParts' /\ StoreStep
<1>1. StoreStep /\ StoreGrows /\ store' = store /\ cache' = cache
  BY StoreUnchanged DEF AllParts, ReconcileKubeconfig, StoreStep
<1>2. UNCHANGED <<kubeCache, expiring, endpoint, created, configs, ready, initialized, faults>>
  BY DEF ReconcileKubeconfig, cluster
<1>3. KubePart'
  <2>1. CASE kubeconfig' = kubeconfig
    BY <1>1, <1>2, <2>1, KubeUnchanged DEF AllParts
  <2>2. ASSUME kubeCache = NoKubeconfig, ~DependentCertificateNotFound, CanSign,
               kubeconfig = kubeCache, kubeconfig' = NewKubeconfig(1)
        PROVE  KubePart'
    <3>1. 1 \in 1 .. MaxRotations + 1 /\ kubeconfig.serial <= 1
      BY <2>2, ConstantsAssumption DEF NoKubeconfig
    <3>2. cache["kcp"]["ca"] # Absent /\ Keyed(cache["kcp"]["ca"])
      BY <2>2, NamesOfSecrets, ProcessNames DEF DependentCertificateNotFound, AllParts, CachePart
    <3>3. QED
      BY <1>1, <1>2, <2>2, <3>1, <3>2, KubeconfigWritten DEF Keyed
  <2>3. ASSUME kubeCache # NoKubeconfig, NeedsClientCertRotation, CanSign,
               kubeconfig = kubeCache, kubeconfig' = NewKubeconfig(kubeCache.serial + 1)
        PROVE  KubePart'
    <3>1. kubeCache.serial \in Nat /\ kubeCache.serial <= MaxRotations
      BY <2>3, ConstantsAssumption DEF AllParts, KubePart, Kubeconfig, NeedsClientCertRotation
    <3>2. kubeCache.serial + 1 \in 1 .. MaxRotations + 1 /\ kubeconfig.serial <= kubeCache.serial + 1
      BY <2>3, <3>1, ConstantsAssumption
    <3>3. cache["kcp"]["ca"].key # NoKey /\ Keyed(cache["kcp"]["ca"])
      BY <2>3, NamesOfSecrets, ProcessNames DEF AllParts, KubePart, KubeconfigKeyed, CachePart
    <3>4. QED
      BY <1>1, <1>2, <2>3, <3>2, <3>3, KubeconfigWritten DEF Keyed, Absent
  <2>4. QED
    BY <2>1, <2>2, <2>3 DEF ReconcileKubeconfig, WriteKubeconfig
<1>4. Return("kcp") \/ Goto("kcp", "machines")
  BY DEF ReconcileKubeconfig, WriteKubeconfig
<1>5. MemoryPart' /\ pc'["kcp"] \in {"idle", "machines"} /\ BootStays
  BY <1>1, <1>4, ReturnKeepsMemory, GotoKeepsMemory, ProcessNames DEF AllParts, ReconcileKubeconfig
<1>6. TokenPart'
  BY <1>1, TokenKept DEF AllParts, ReconcileKubeconfig
<1>7. CachePart' /\ StorePart'
  BY <1>1, CacheUnchanged DEF AllParts, StoreStep
<1>8. ConfigPart'
  BY <1>1, <1>2, <1>5, ConfigsUnchanged DEF AllParts, ConfigPart, StoredBeforeConfigs, BootStays
<1>9. FaultPart'
  BY <1>2 DEF AllParts, FaultPart
<1>10. QED
  BY <1>1, <1>3, <1>5, <1>6, <1>7, <1>8, <1>9 DEF AllParts

\* When a config goes, no secret goes with it.
LEMMA NothingCollected ==
  ASSUME AllParts, pc["kcp"] = "machines", NEW c \in Configs
  PROVE  GarbageCollected(c) = store
<1>1. \A n \in Names : store[n].owner # c
  BY NamesOfSecrets DEF AllParts, StorePart, TokenPart
<1>2. QED
  BY <1>1 DEF GarbageCollected, AllParts, StorePart

LEMMA MachinesStep ==
  ASSUME AllParts, ReconcileMachines
  PROVE  AllParts' /\ StoreStep
<1>1. store' = store
  BY NothingCollected DEF ReconcileMachines, AllParts, ConfigPart
<1>2. StoreStep /\ StoreGrows
  BY <1>1, StoreUnchanged DEF AllParts, StoreStep
<1>3. MemoryPart' /\ pc'["kcp"] = "idle" /\ BootStays
  BY <1>2, ReturnKeepsMemory, ProcessNames DEF AllParts, ReconcileMachines
<1>4. TokenPart'
  BY <1>3 DEF TokenPart
<1>5. \A n \in Names : store[n] # Absent
  <2>1. \A n \in Certificates : store[n].key \in Keys
    BY ProcessNames DEF ReconcileMachines, AllParts, MemoryPart, Fits
  <2>2. \A n \in Certificates : store[n] # Absent
    BY <2>1, KeysAreNumbers DEF Absent
  <2>3. store["token"] # Absent
    BY DEF ReconcileMachines, AllParts, TokenPart
  <2>4. QED
    BY <2>2, <2>3, NamesOfSecrets
<1>6. created \subseteq created' /\ created' \subseteq Configs /\ configs' \subseteq created'
  BY DEF ReconcileMachines, AllParts, ConfigPart
<1>7. ConfigPart'
  BY <1>1, <1>3, <1>5, <1>6
  DEF ReconcileMachines, AllParts, ConfigPart, StoredBeforeConfigs, BootStays
<1>8. CachePart' /\ KubePart' /\ StorePart' /\ FaultPart'
  BY <1>2, CacheUnchanged, KubeUnchanged DEF ReconcileMachines, AllParts, StoreStep, FaultPart
<1>9. QED
  BY <1>2, <1>3, <1>4, <1>7, <1>8 DEF AllParts

-----------------------------------------------------------------------------
(* The bootstrap controller.                                                 *)

LEMMA InitConfigStep ==
  ASSUME AllParts, NEW c \in Configs, ReconcileInitConfig(c)
  PROVE  AllParts' /\ StoreStep
<1>1. StoreStep /\ StoreGrows /\ store' = store /\ cache' = cache
  BY StoreUnchanged DEF AllParts, ReconcileInitConfig, StoreStep
<1>2. UNCHANGED <<kubeconfig, kubeCache, expiring, endpoint, created, configs, ready, initialized,
                  faults>>
  BY DEF ReconcileInitConfig, cluster
<1>3. MemoryPart' /\ pc'["kcp"] = pc["kcp"]
  BY <1>1, StartKeepsMemory, ProcessNames DEF AllParts, ReconcileInitConfig
<1>4. TokenPart'
  BY <1>1, <1>3, TokenKept DEF AllParts
<1>5. current' \in created
  BY DEF ReconcileInitConfig, AllParts, ConfigPart
<1>6. ConfigPart'
  BY <1>1, <1>2, <1>5, ConfigsUnchanged DEF AllParts
<1>7. CachePart' /\ KubePart' /\ StorePart' /\ FaultPart'
  BY <1>1, <1>2, CacheUnchanged, KubeUnchanged DEF AllParts, StoreStep, FaultPart
<1>8. QED
  BY <1>1, <1>3, <1>4, <1>6, <1>7 DEF AllParts

\* What the cache shows of the token is what was chosen.
LEMMA TokenIsChosen ==
  ASSUME AllParts, TokenFound
  PROVE  store["token"].key = cache["boot"]["token"].key /\ store["token"].key # NoKey
<1>1. cache["boot"]["token"] \in Secret /\ Keyed(cache["boot"]["token"])
  BY NamesOfSecrets, ProcessNames DEF AllParts, CachePart
<1>2. cache["boot"]["token"].key # NoKey
  BY <1>1 DEF TokenFound, Keyed, Secret, Forms
<1>3. QED
  BY <1>2, NamesOfSecrets, ProcessNames DEF AllParts, CachePart, CacheTrails

\* Hosts are given what was chosen.
HostsStep ==
  \/ hosts' = hosts
  \/ /\ store' = store
     /\ \E part \in SUBSET Names :
          /\ \A n \in part : store[n].key # NoKey
          /\ hosts' = hosts \cup {[n \in part |-> store[n].key]}

LEMMA InitDataStep ==
  ASSUME AllParts, StoreInitData
  PROVE  AllParts' /\ StoreStep /\ HostsStep
<1>1. StoreStep /\ StoreGrows /\ store' = store /\ cache' = cache
  BY StoreUnchanged DEF AllParts, StoreInitData, StoreStep
<1>2. MemoryPart' /\ pc'["kcp"] = pc["kcp"] /\ pc'["boot"] = "idle"
  BY <1>1, ReturnKeepsMemory, ProcessNames DEF AllParts, StoreInitData
<1>3. TokenPart'
  BY <1>1, <1>2, TokenKept DEF AllParts
<1>4. ConfigPart'
  BY <1>1, <1>2 DEF AllParts, ConfigPart, StoredBeforeConfigs, StoreInitData
<1>5. CachePart' /\ KubePart' /\ StorePart' /\ FaultPart'
  BY <1>1, CacheUnchanged, KubeUnchanged DEF AllParts, StoreStep, FaultPart, StoreInitData
<1>6. HostsStep
  <2>1. CASE ~TokenFound
    BY <2>1 DEF StoreInitData, HostsStep
  <2>2. CASE TokenFound
    <3>1. \A n \in Certificates : certs["boot"][n] = store[n].key /\ store[n].key # NoKey
      BY ProcessNames, KeysAreNumbers DEF AllParts, MemoryPart, Fits, StoreInitData
    <3>2. \A n \in Names : store[n].key # NoKey
      BY <2>2, <3>1, TokenIsChosen, NamesOfSecrets
    <3>3. [n \in Names |-> IF n = "token" THEN cache["boot"]["token"].key ELSE certs["boot"][n]]
            = [n \in Names |-> store[n].key]
      BY <2>2, <3>1, TokenIsChosen, NamesOfSecrets
    <3>4. hosts' = hosts \cup {[n \in Names |-> store[n].key]}
      BY <2>2, <3>3 DEF StoreInitData
    <3>5. QED
      BY <1>1, <3>2, <3>4 DEF HostsStep
  <2>3. QED
    BY <2>1, <2>2
<1>7. QED
  BY <1>1, <1>2, <1>3, <1>4, <1>5, <1>6 DEF AllParts

LEMMA JoinConfigStep ==
  ASSUME AllParts, NEW c \in Configs, ReconcileJoinConfig(c)
  PROVE  AllParts' /\ StoreStep /\ HostsStep
<1>1. StoreStep /\ StoreGrows /\ store' = store /\ cache' = cache /\ pc' = pc
  BY StoreUnchanged DEF AllParts, ReconcileJoinConfig, StoreStep
<1>2. MemoryPart'
  BY <1>1, MemoryUnchanged DEF AllParts, ReconcileJoinConfig, memory
<1>3. TokenPart'
  BY <1>1, TokenKept DEF AllParts
<1>4. ConfigPart'
  BY <1>1 DEF AllParts, ConfigPart, StoredBeforeConfigs, ReconcileJoinConfig
<1>5. CachePart' /\ KubePart' /\ StorePart' /\ FaultPart'
  BY <1>1, CacheUnchanged, KubeUnchanged DEF AllParts, StoreStep, FaultPart, ReconcileJoinConfig
<1>6. HostsStep
  <2> DEFINE part == {"token"}
  <2>1. part \in SUBSET Names /\ \A n \in part : store[n].key # NoKey
    BY TokenIsChosen, NamesOfSecrets DEF ReconcileJoinConfig
  <2>2. hosts' = hosts \cup {[n \in part |-> cache["boot"]["token"].key]}
    BY DEF ReconcileJoinConfig
  <2>3. [n \in part |-> cache["boot"]["token"].key] = [n \in part |-> store[n].key]
    BY TokenIsChosen DEF ReconcileJoinConfig
  <2>4. hosts' = hosts \cup {[n \in part |-> store[n].key]}
    BY <2>2, <2>3
  <2> HIDE DEF part
  <2>5. QED
    BY <1>1, <2>1, <2>4 DEF HostsStep
<1>7. QED
  BY <1>1, <1>2, <1>3, <1>4, <1>5, <1>6 DEF AllParts

-----------------------------------------------------------------------------
(* Everything else.                                                          *)

LEMMA FaultStep ==
  ASSUME AllParts, NEW p \in Processes, Fault(p)
  PROVE  AllParts' /\ StoreStep /\ hosts' = hosts
<1>1. StoreStep /\ StoreGrows /\ store' = store /\ cache' = cache
  BY StoreUnchanged DEF AllParts, Fault, StoreStep
<1>2. UNCHANGED <<kubeconfig, kubeCache, expiring, endpoint, created, configs, ready, initialized,
                  hosts>>
  BY DEF Fault, cluster
<1>3. /\ MemoryPart' /\ pc'[p] = "idle" /\ BootStays
        /\ \A q \in Processes \ {p} : pc'[q] = pc[q]
  BY <1>1, ReturnKeepsMemory DEF AllParts, Fault
<1>4. TokenPart'
  BY <1>1, <1>3, TokenKept, ProcessNames DEF AllParts
<1>5. ConfigPart'
  BY <1>1, <1>2, <1>3, ConfigsUnchanged DEF AllParts, ConfigPart, StoredBeforeConfigs, BootStays
<1>6. CachePart' /\ KubePart' /\ StorePart'
  BY <1>1, <1>2, CacheUnchanged, KubeUnchanged DEF AllParts, StoreStep
<1>7. FaultPart'
  BY ConstantsAssumption DEF AllParts, FaultPart, Fault
<1>8. QED
  BY <1>1, <1>2, <1>3, <1>4, <1>5, <1>6, <1>7 DEF AllParts

LEMMA DeliverStep ==
  ASSUME AllParts, NEW p \in Processes, Deliver(p)
  PROVE  AllParts' /\ StoreStep /\ hosts' = hosts
<1>1. StoreStep /\ StoreGrows /\ store' = store /\ pc' = pc /\ current' = current
  BY StoreUnchanged DEF AllParts, Deliver, StoreStep, memory
<1>2. UNCHANGED <<kubeconfig, expiring, endpoint, created, configs, ready, initialized, hosts>>
  BY DEF Deliver, cluster
<1>3. MemoryPart'
  BY <1>1, MemoryUnchanged DEF AllParts, Deliver, memory
<1>4. TokenPart' /\ FaultPart'
  BY <1>1, TokenKept DEF AllParts, FaultPart, Deliver
<1>5. ConfigPart'
  BY <1>1, <1>2 DEF AllParts, ConfigPart, StoredBeforeConfigs
<1>6. cache'[p] = store /\ \A q \in Processes \ {p} : cache'[q] = cache[q]
  BY DEF AllParts, CachePart, Deliver
<1>7. CachePart'
  <2>1. cache' \in [Processes -> [Names -> Secret]]
    BY DEF AllParts, CachePart, StorePart, Deliver
  <2>2. \A q \in Processes, n \in Names : Keyed(cache'[q][n])
    BY <1>6 DEF AllParts, CachePart, StorePart
  <2>3. CacheTrails'
    BY <1>1, <1>6 DEF AllParts, CachePart, CacheTrails
  <2>4. cache'["kcp"]["token"].owner = "kcp" => store["token"].owner \notin Configs
    BY <1>6, ProcessNames, ConstantsAssumption DEF AllParts, CachePart
  <2>5. QED
    BY <1>1, <2>1, <2>2, <2>3, <2>4 DEF CachePart, Keyed
<1>8. KubePart'
  <2>1. CASE p = "kcp"
    <3>1. kubeCache' = kubeconfig
      BY <2>1 DEF Deliver
    <3>2. KubeconfigKeyed'
      BY <1>2, <1>6, <2>1, <3>1 DEF AllParts, KubePart, KubeconfigKeyed, KubeconfigFits
    <3>3. kubeconfig.serial <= kubeconfig.serial
      BY ConstantsAssumption DEF AllParts, KubePart, Kubeconfig
    <3>4. QED
      BY <1>1, <1>2, <3>1, <3>2, <3>3 DEF AllParts, KubePart, KubeconfigFits
  <2>2. CASE p # "kcp"
    BY <1>1, <1>2, <1>6, <2>2, ProcessNames
    DEF AllParts, KubePart, KubeconfigFits, KubeconfigKeyed, Deliver
  <2>3. QED
    BY <2>1, <2>2
<1>9. QED
  BY <1>1, <1>2, <1>3, <1>4, <1>5, <1>7, <1>8 DEF AllParts, StoreStep

LEMMA UserStep ==
  ASSUME AllParts, NEW n \in Names, UserProvides(n)
  PROVE  AllParts' /\ StoreStep /\ hosts' = hosts
<1>1. PICK form \in {"pair", "certOnly", "malformed"} :
        /\ form # store[n].form
        /\ form # "malformed" => FreshKeys(n) # {}
        /\ store' = [store EXCEPT ![n] =
             [form |-> form, key |-> IF form = "malformed" THEN NoKey ELSE FreshKey(n),
              owner |-> store[n].owner]]
  BY DEF UserProvides
<1> DEFINE k == IF form = "malformed" THEN NoKey ELSE FreshKey(n)
           s == [form |-> form, key |-> k, owner |-> store[n].owner]
<1>2. k \in Keys \cup {NoKey} /\ (form # "malformed" <=> k # NoKey)
  BY <1>1, FreshKeyIsKey, KeysAreNumbers
<1>3. store[n] \in Secret /\ Keyed(store[n]) /\ store[n].form \in {"absent", "malformed"}
  BY DEF AllParts, StorePart, UserProvides
<1>4. store[n].key = NoKey /\ store[n].owner \in Owners
  BY <1>3 DEF Keyed, Secret
<1>5. store' = [store EXCEPT ![n] = s]
  BY <1>1
<1> HIDE DEF k
<1>6. s \in Secret /\ s.form = form /\ s.key = k /\ s.owner = store[n].owner
  BY <1>2, <1>4 DEF Secret, Forms
<1> HIDE DEF s
<1>7. Keyed(s) /\ s # Absent
  BY <1>2, <1>6 DEF Keyed, Absent
<1>8. StoreStep /\ StoreGrows
  BY <1>4, <1>5, <1>6, <1>7, StoreWritten DEF AllParts, StoreStep
<1>9. pc' = pc /\ hosts' = hosts /\ MemoryPart' /\ BootStays
  BY <1>8, MemoryUnchanged DEF AllParts, UserProvides, memory, cluster, BootStays
<1>10. TokenPart'
  BY <1>8, <1>9, TokenKept DEF AllParts
<1>11. QED
  BY <1>8, <1>9, <1>10, ProcessStep DEF UserProvides

LEMMA ClusterStep ==
  ASSUME AllParts, FirstServerUp \/ EndpointSet \/ CertificateAges
  PROVE  AllParts' /\ StoreStep /\ hosts' = hosts
<1>1. /\ UNCHANGED <<store, cache, kubeconfig, kubeCache, created, configs, ready, hosts, pc, faults>>
      /\ UNCHANGED memory
  BY DEF FirstServerUp, EndpointSet, CertificateAges
<1>2. StoreStep /\ StoreGrows
  BY <1>1, StoreUnchanged DEF AllParts, StoreStep
<1>3. MemoryPart'
  BY <1>1, <1>2, MemoryUnchanged DEF AllParts, memory
<1>4. TokenPart' /\ FaultPart' /\ CachePart'
  BY <1>1, <1>2, TokenKept, CacheUnchanged DEF AllParts, FaultPart
<1>5. endpoint' \in BOOLEAN /\ initialized' \in BOOLEAN
  BY DEF FirstServerUp, EndpointSet, CertificateAges, AllParts, ConfigPart
<1>6. ConfigPart'
  BY <1>1, <1>5 DEF AllParts, ConfigPart, StoredBeforeConfigs, memory
<1>7. KubePart'
  <2>1. kubeconfig.serial \in Nat
    BY ConstantsAssumption DEF AllParts, KubePart, Kubeconfig
  <2>2. expiring' \in 0 .. MaxRotations /\ expiring' <= kubeconfig.serial
    BY <2>1, ConstantsAssumption
    DEF FirstServerUp, EndpointSet, CertificateAges, AllParts, KubePart
  <2>3. QED
    BY <1>1, <2>2 DEF AllParts, KubePart, KubeconfigKeyed, KubeconfigFits
<1>8. QED
  BY <1>1, <1>2, <1>3, <1>4, <1>6, <1>7 DEF AllParts, StoreStep

-----------------------------------------------------------------------------
(* The invariant.                                                            *)

\* A cluster that has nothing, or one that an older version brought up.
LEMMA InitHolds == Init => AllParts
<1> SUFFICES ASSUME Init PROVE AllParts
  OBVIOUS
<1>1. PICK first \in Configs :
        /\ configs = IF initialized THEN {first} ELSE {}
        /\ store = [n \in Names |->
             IF initialized
             THEN [form |-> "pair", key |-> 1, owner |-> IF n = "token" THEN first ELSE "kcp"]
             ELSE Absent]
  BY DEF Init
<1>2. initialized \in BOOLEAN
  BY ConstantsAssumption DEF Init
<1>3. \A n \in Names :
        /\ store[n] \in Secret /\ Keyed(store[n])
        /\ n # "token" => store[n].owner \notin Configs
        /\ initialized => store[n] # Absent
        /\ store[n].owner = "kcp" => n # "token"
  <2> SUFFICES ASSUME NEW n \in Names
               PROVE  /\ store[n] \in Secret /\ Keyed(store[n])
                      /\ n # "token" => store[n].owner \notin Configs
                      /\ initialized => store[n] # Absent
                      /\ store[n].owner = "kcp" => n # "token"
    OBVIOUS
  <2>1. first # "kcp" /\ "kcp" \notin Configs /\ "none" \notin Configs
    BY ConstantsAssumption
  <2>2. CASE initialized
    <3> DEFINE o == IF n = "token" THEN first ELSE "kcp"
    <3>1. o \in Owners /\ (n # "token" => o = "kcp") /\ (o = "kcp" => n # "token")
      BY <2>1 DEF Owners
    <3>2. store[n] = [form |-> "pair", key |-> 1, owner |-> o]
      BY <1>1, <2>2
    <3> HIDE DEF o
    <3>3. store[n] \in Secret /\ store[n].form = "pair" /\ store[n].key = 1 /\ store[n].owner = o
          /\ store[n] # Absent
      BY <3>1, <3>2, KeysAreNumbers DEF Secret, Forms, Absent
    <3>4. QED
      BY <2>1, <3>1, <3>3 DEF Keyed, NoKey
  <2>3. CASE ~initialized
    <3>1. store[n] = Absent
      BY <1>1, <2>3
    <3>2. QED
      BY <2>1, <2>3, <3>1 DEF Keyed, Absent, Secret, Forms, Owners, NoKey
  <2>4. QED
    BY <2>2, <2>3
<1>4. StorePart
  <2>1. store \in [Names -> Secret]
    BY <1>1, <1>3
  <2>2. QED
    BY <1>3, <2>1, NamesOfSecrets, CertificateNames DEF StorePart
<1>5. CachePart
  BY <1>3, <1>4, NamesOfSecrets, ProcessNames DEF Init, CachePart, StorePart, CacheTrails
<1>6. KubePart
  <2>1. kubeconfig = NoKubeconfig /\ kubeCache = NoKubeconfig /\ expiring = 0
    BY DEF Init
  <2>2. NoKubeconfig \in Kubeconfig /\ NoKubeconfig.serial = 0
    BY ConstantsAssumption DEF NoKubeconfig, Kubeconfig
  <2>3. QED
    BY <2>1, <2>2, ConstantsAssumption DEF KubePart, KubeconfigKeyed, KubeconfigFits
<1>7. ConfigPart
  BY <1>1, <1>2, <1>3, ProcessNames DEF Init, ConfigPart, StoredBeforeConfigs
<1>8. MemoryPart
  <2>1. \A p \in Processes : pc[p] = "idle" /\ certs[p] = NoKeys
    BY DEF Init
  <2>2. NoKeys \in [Certificates -> Keys \cup {NoKey}] /\ \A n \in Certificates : NoKeys[n] = NoKey
    BY DEF NoKeys
  <2>3. \A p \in Processes : Fits(p)
    BY <2>1, <2>2 DEF Fits
  <2>4. <<>> \in Seq(Certificates)
    OBVIOUS
  <2>5. QED
    BY <2>2, <2>3, <2>4 DEF Init, MemoryPart
<1>9. TokenPart /\ FaultPart
  BY ProcessNames, ConstantsAssumption DEF Init, TokenPart, FaultPart
<1>10. QED
  BY <1>4, <1>5, <1>6, <1>7, <1>8, <1>9 DEF AllParts

\* Every step keeps the invariant, chooses at most one key, and gives hosts what
\* was chosen.
LEMMA StepHolds ==
  ASSUME AllParts, [Next]_vars
  PROVE  AllParts' /\ StoreStep /\ HostsStep
<1>1. CASE KThreesControlPlaneReconciler
  <2>1. AllParts' /\ StoreStep
    BY <1>1, ReconcileStep, LookupOrGenerateStep, TokenStep, KubeconfigStep, MachinesStep,
       ProcessNames DEF KThreesControlPlaneReconciler
  <2>2. hosts' = hosts
    BY <1>1, LookupOrGenerateStep, ProcessNames
    DEF KThreesControlPlaneReconciler, ReconcileControlPlane, ReconcileToken, ReconcileKubeconfig,
        ReconcileMachines, cluster
  <2>3. QED
    BY <2>1, <2>2 DEF HostsStep
<1>2. CASE KThreesConfigReconciler
  <2>1. CASE LookupOrGenerate("boot")
    BY <2>1, LookupOrGenerateStep, ProcessNames DEF HostsStep
  <2>2. ASSUME NEW c \in Configs, ReconcileInitConfig(c)
        PROVE  AllParts' /\ StoreStep /\ HostsStep
    BY <2>2, InitConfigStep DEF HostsStep, ReconcileInitConfig, cluster
  <2>3. QED
    BY <1>2, <2>1, <2>2, InitDataStep, JoinConfigStep DEF KThreesConfigReconciler
<1>3. ASSUME NEW p \in Processes, Deliver(p) \/ Fault(p)
      PROVE  AllParts' /\ StoreStep /\ HostsStep
  BY <1>3, DeliverStep, FaultStep DEF HostsStep
<1>4. ASSUME NEW n \in Names, UserProvides(n)
      PROVE  AllParts' /\ StoreStep /\ HostsStep
  BY <1>4, UserStep DEF HostsStep
<1>5. CASE FirstServerUp \/ EndpointSet \/ CertificateAges
  BY <1>5, ClusterStep DEF HostsStep
<1>6. CASE UNCHANGED vars
  <2>1. UNCHANGED <<store, cache, kubeconfig, kubeCache, expiring, endpoint, created, configs,
                    ready, hosts, initialized, pc, certs, generated, todo, current, faults>>
    BY <1>6 DEF vars
  <2>2. StoreStep /\ StoreGrows
    BY <2>1, StoreUnchanged DEF AllParts, StoreStep
  <2>3. MemoryPart' /\ TokenPart'
    BY <2>1, <2>2, MemoryUnchanged, TokenKept DEF AllParts
  <2>4. AllParts'
    BY <2>1, <2>2, <2>3, ProcessStep DEF BootStays, cluster
  <2>5. QED
    BY <2>1, <2>2, <2>4 DEF HostsStep
<1>7. QED
  BY <1>1, <1>2, <1>3, <1>4, <1>5, <1>6 DEF Next

LEMMA Inductive == Spec => []IInv
<1>1. Init => IInv
  BY InitHolds, Parts
<1>2. IInv /\ [Next]_vars => IInv'
  BY StepHolds, Parts, PartsNext
<1>3. QED
  BY <1>1, <1>2, PTL DEF Spec

(* Types, for every set of configs and every bound.                           *)
THEOREM TypeCorrect == Spec => []TypeOK
<1>1. IInv => TypeOK
  BY DEF IInv
<1>2. QED
  BY <1>1, Inductive, PTL

(* The kubeconfig that the control plane controller writes (kubeconfig.go     *)
(* 30-75) is signed by the client authority and trusts the server authority   *)
(* that the hosts of the cluster run with, at every later time.               *)
THEOREM KubeconfigAlwaysFits == Spec => []KubeconfigFits
<1>1. IInv => KubeconfigFits
  BY DEF IInv
<1>2. QED
  BY <1>1, Inductive, PTL

-----------------------------------------------------------------------------
(* The refinement.                                                            *)

keys == [n \in Names |-> store[n].key]

LEMMA InitImplements == Init => Identity!Init
<1> SUFFICES ASSUME Init PROVE Identity!Init
  OBVIOUS
<1>1. \A n \in Names : store[n].key \in Keys \cup {NoKey}
  BY InitHolds DEF AllParts, StorePart, Secret
<1>2. QED
  BY <1>1 DEF Init, Identity!Init

LEMMA StepImplements ==
  ASSUME StoreStep, HostsStep
  PROVE  [Identity!Next]_<<keys, hosts>>
<1>1. keys = [n \in Names |-> store[n].key] /\ keys' = [n \in Names |-> store'[n].key]
  BY DEF keys
<1>2. CASE hosts' = hosts /\ KeysKept
  BY <1>1, <1>2 DEF KeysKept
<1>3. ASSUME hosts' = hosts, NEW n \in Names, NEW k \in Keys, KeyChosen(n, k)
      PROVE  Identity!Next
  <2>1. keys' = [keys EXCEPT ![n] = k]
    BY <1>1, <1>3 DEF KeyChosen
  <2>2. Identity!Choose(n, k)
    BY <1>1, <1>3, <2>1 DEF Identity!Choose, KeyChosen, keys
  <2>3. QED
    BY <2>2 DEF Identity!Next
<1>4. ASSUME store' = store, NEW part \in SUBSET Names,
             \A n \in part : store[n].key # NoKey,
             hosts' = hosts \cup {[n \in part |-> store[n].key]}
      PROVE  Identity!Next
  <2>1. Identity!Boot(part)
    <3>1. [n \in part |-> keys[n]] = [n \in part |-> store[n].key]
      BY <1>1
    <3>2. keys' = keys
      BY <1>1, <1>4
    <3>3. \A n \in part : keys[n] # NoKey
      BY <1>1, <1>4
    <3>4. QED
      BY <1>4, <3>1, <3>2, <3>3 DEF Identity!Boot, keys
  <2>2. QED
    BY <2>1 DEF Identity!Next
<1>5. QED
  BY <1>2, <1>3, <1>4 DEF StoreStep, HostsStep

(* The controllers implement a single choice of identity: whoever creates the *)
(* certificates and the token, and however lookups, creations, deletions of   *)
(* machines, garbage collections and restarts interleave, each key is chosen  *)
(* once and every host boots with the chosen ones                             *)
(* (kthreescontrolplane_controller.go 486-498, kthreesconfig_controller.go    *)
(* 461-479, token.go 36-50).                                                  *)
THEOREM SecretsImplementIdentity == Spec => ImplementsIdentity
<1>1. IInv /\ [Next]_vars => [Identity!Next]_<<keys, hosts>>
  BY StepHolds, Parts, StepImplements
<1>2. QED
  BY <1>1, InitImplements, Inductive, PTL DEF Spec, ImplementsIdentity, Identity!Spec, keys
=============================================================================
