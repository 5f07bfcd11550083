---------------------------- MODULE ApiConversion ----------------------------
(***************************************************************************)
(* The two served versions of the API: objects written before the provider   *)
(* was upgraded are stored as v1beta1, everything written since as v1beta2,  *)
(* and clients of both versions read, change and write them.  A v1beta2      *)
(* object shown as v1beta1 carries, in an annotation, the whole v1beta2      *)
(* object, from which the fields v1beta1 does not have are restored when it  *)
(* comes back.                                                              *)
(*                                                                         *)
(* A write as v1beta1 is converted for the defaulting webhook, converted     *)
(* back, and converted once more to be stored.  The API server's part        *)
(* (conflicts, which version is stored) is external.                         *)
(*                                                                         *)
(* A configuration keeps one field for each fate a field can have: "args"    *)
(* stands for the fields both versions have, "registry" and "script" for     *)
(* those only v1beta2 has; "moved" for the fields of a control plane that    *)
(* are elsewhere in v1beta1, and "timeouts" for those only v1beta2 has.      *)
(***************************************************************************)
EXTENDS Naturals, FiniteSets

CONSTANTS
  KindSets,   \* objects looked at together: "kcp", the "config" of its machine, "template"
  Clients,    \* clients of the API
  Values,     \* values of a field
  Unset,      \* no value (a nil pointer)
  MaxWrites   \* bound: writes

Versions == {"v1beta1", "v1beta2"}
Providers == {Unset, "", "external", "own"}

ServerConfigs == [args : Values, disable : BOOLEAN, provider : Providers,
                  controller : BOOLEAN \cup {Unset}, registry : Values]
AgentConfigs == [args : Values, script : Values]
Objects == [server : ServerConfigs, agent : AgentConfigs,
            moved : Values \cup {Unset}, timeouts : Values \cup {Unset}]

OldObjects == [server : [args : Values, disable : BOOLEAN], agent : [args : Values],
               moved : Values \cup {Unset}, data : Objects \cup {Unset}]

ASSUME ConversionAssumption ==
  /\ KindSets \subseteq SUBSET {"kcp", "config", "template"}
  /\ IsFiniteSet(Values) /\ Values # {} /\ IsFiniteSet(Clients)
  /\ Unset \notin Values /\ Unset \notin BOOLEAN /\ Unset \notin {"", "external", "own"}
  /\ Unset \notin Objects
  /\ MaxWrites \in Nat

VARIABLES
  stored,   \* per kind: the version it is stored in, the object, the resource version
  copy,     \* per client: what it read
  writes,
  edited    \* a configuration was changed since the machine was made

conversionVars == <<stored, copy, writes, edited>>

Kinds == DOMAIN stored

-----------------------------------------------------------------------------
(* v1beta1 to v1beta2, layer by layer; a field v1beta1 does not have starts   *)
(* out empty.                                                                *)

Empty == CHOOSE v \in Values : TRUE

AutoServerConfigTo(in) ==
  [args |-> in.args, disable |-> FALSE, provider |-> Unset, controller |-> Unset,
   registry |-> Empty]

ServerConfigTo(in) ==
  [AutoServerConfigTo(in) EXCEPT
     !.disable = in.disable,
     !.provider = IF in.disable THEN "" ELSE "external",
     !.controller = ~in.disable]

AgentConfigTo(in) == [args |-> in.args, script |-> Empty]

ConfigTo(in) ==
  [server |-> ServerConfigTo(in.server), agent |-> AgentConfigTo(in.agent),
   moved |-> Unset, timeouts |-> Unset]

TemplateTo(in) == ConfigTo(in)

\* Bug: the fields that are elsewhere are forgotten.
BugControlPlaneTo(in) == [ConfigTo(in) EXCEPT !.moved = Empty, !.timeouts = Empty]

ControlPlaneTo(in) ==
  [ConfigTo(in) EXCEPT !.moved = in.moved, !.timeouts = Empty]

\* v1beta2 to v1beta1: the fields without a place are dropped.
AutoServerConfigFrom(in) == [args |-> in.args, disable |-> FALSE]
ServerConfigFrom(in) == [AutoServerConfigFrom(in) EXCEPT !.disable = in.disable]
AgentConfigFrom(in) == [args |-> in.args]

ConfigFrom(in) ==
  [server |-> ServerConfigFrom(in.server), agent |-> AgentConfigFrom(in.agent),
   moved |-> Unset, data |-> Unset]

TemplateFrom(in) == ConfigFrom(in)
ControlPlaneFrom(in) == [ConfigFrom(in) EXCEPT !.moved = in.moved]

-----------------------------------------------------------------------------
(* ConvertTo and ConvertFrom.                                                *)

\* MarshalData keeps the whole object; UnmarshalData takes the annotation off
\* again, so nothing that is stored as v1beta2 carries one.
MarshalData(src, dst) == [dst EXCEPT !.data = src]

RestoreConfig(dst, restored) ==
  [dst EXCEPT !.server.provider = restored.server.provider,
              !.server.disable = restored.server.disable,
              !.server.controller = restored.server.controller,
              !.server.registry = restored.server.registry,
              !.agent.script = restored.agent.script]

RestoreTemplate(dst, restored) == RestoreConfig(dst, restored)

\* Bug: a field that was added to v1beta2 later is not restored.
BugRestoreControlPlane(dst, restored) ==
  [dst EXCEPT !.server = restored.server, !.timeouts = restored.timeouts]

RestoreControlPlane(dst, restored) ==
  [dst EXCEPT !.server.provider = restored.server.provider,
              !.server.disable = restored.server.disable,
              !.server.controller = restored.server.controller,
              !.server.registry = restored.server.registry,
              !.agent.script = restored.agent.script,
              !.timeouts = restored.timeouts]

ConvertTo(kind, in) ==
  LET dst == CASE kind = "kcp" -> ControlPlaneTo(in)
               [] kind = "config" -> ConfigTo(in)
               [] kind = "template" -> TemplateTo(in)
  IN  CASE in.data = Unset -> dst
        [] in.data # Unset /\ kind = "kcp" -> RestoreControlPlane(dst, in.data)
        [] in.data # Unset /\ kind = "config" -> RestoreConfig(dst, in.data)
        [] in.data # Unset /\ kind = "template" -> RestoreTemplate(dst, in.data)

ConvertFrom(kind, src) ==
  MarshalData(src, CASE kind = "kcp" -> ControlPlaneFrom(src)
                     [] kind = "config" -> ConfigFrom(src)
                     [] kind = "template" -> TemplateFrom(src))

-----------------------------------------------------------------------------
(* The defaulting webhooks, and the configuration of k3s.                    *)

DefaultConfig(object) ==
  [object EXCEPT
     !.server.controller = IF @ = Unset THEN TRUE ELSE @,
     !.server.provider = IF @ = Unset THEN "external" ELSE @]

DefaultControlPlane(object) ==
  [object EXCEPT
     !.server.controller = IF @ = Unset THEN TRUE ELSE @,
     !.server.provider = IF @ = Unset THEN "external" ELSE @]

\* A template is not defaulted; what is made from it is.
Default(kind, object) ==
  CASE kind = "kcp" -> DefaultControlPlane(object)
    [] kind = "config" -> DefaultConfig(object)
    [] kind = "template" -> object

getKubeletExtraArgs(server) ==
  IF server.provider \in {Unset, ""} THEN {} ELSE {<<"cloud-provider", server.provider>>}

getDisableCloudController(server) ==
  IF server.controller = Unset THEN TRUE ELSE server.controller

GenerateInitControlPlaneConfig(server) ==
  [clusterInit |-> TRUE,
   disableCloudController |-> getDisableCloudController(server),
   controllerManagerArgs |-> getKubeletExtraArgs(server),
   kubeletArgs |-> getKubeletExtraArgs(server)]

GenerateJoinControlPlaneConfig(server) ==
  [GenerateInitControlPlaneConfig(server) EXCEPT !.clusterInit = FALSE]

GenerateWorkerConfig(server) == [kubeletArgs |-> getKubeletExtraArgs(server)]

\* The kubelet's arguments on every kind of machine.
KubeletArgs(server) ==
  GenerateInitControlPlaneConfig(server).kubeletArgs
    \cup GenerateJoinControlPlaneConfig(server).kubeletArgs
    \cup GenerateWorkerConfig(server).kubeletArgs

\* The control plane's configuration is compared with the one of a machine; the
\* object read as v1beta2 is what both controllers see.
Seen(kind) ==
  IF stored[kind].format = "v1beta2" THEN stored[kind].object
  ELSE ConvertTo(kind, stored[kind].object)

MatchesKThreesBootstrapConfig ==
  /\ Seen("config").server = Seen("kcp").server
  /\ Seen("config").agent = Seen("kcp").agent

-----------------------------------------------------------------------------
(* What is stored when an object of a version is written, and what a client   *)
(* of a version reads.                                                       *)

Stored(kind, version, object) ==
  IF version = "v1beta2" THEN Default(kind, object)
  ELSE ConvertTo(kind, ConvertFrom(kind, Default(kind, ConvertTo(kind, object))))

Shown(kind, version) ==
  CASE stored[kind].format = version -> stored[kind].object
    [] stored[kind].format = "v1beta1" /\ version = "v1beta2" ->
         ConvertTo(kind, stored[kind].object)
    [] stored[kind].format = "v1beta2" /\ version = "v1beta1" ->
         ConvertFrom(kind, stored[kind].object)

OldObject(kind, args, disable) ==
  [server |-> [args |-> args, disable |-> disable], agent |-> [args |-> args],
   moved |-> IF kind = "kcp" THEN Empty ELSE Unset, data |-> Unset]

ConversionInit ==
  /\ \E kinds \in KindSets, format \in Versions, args \in Values, disable \in BOOLEAN :
       stored = [kind \in kinds |->
                   LET old == OldObject(kind, args, disable)
                   IN  [format |-> format, version |-> 0,
                        object |-> IF format = "v1beta1" THEN old
                                   ELSE Default(kind, ConvertTo(kind, old))]]
  /\ copy = [c \in Clients |-> Unset]
  /\ writes = 0
  /\ edited = FALSE

Read(c, kind, version) ==
  /\ copy[c] = Unset
  /\ copy' = [copy EXCEPT ![c] = [kind |-> kind, format |-> version,
                                  object |-> Shown(kind, version),
                                  version |-> stored[kind].version]]
  /\ UNCHANGED <<stored, writes, edited>>

\* What a v1beta1 client may make of what it read: a field changed, or the
\* object put together from its own manifest, without the annotation.
OldEdits(object) ==
  UNION {{object, [object EXCEPT !.data = Unset]},
         {[object EXCEPT !.server.args = v] : v \in Values},
         {[object EXCEPT !.moved = v] : v \in IF object.moved = Unset THEN {} ELSE Values},
         {[object EXCEPT !.server.disable = b] : b \in BOOLEAN},
         {[object EXCEPT !.server.disable = b, !.data = Unset] : b \in BOOLEAN}}

NewEdits(object) ==
  UNION {{object},
         {[object EXCEPT !.server.args = v] : v \in Values},
         {[object EXCEPT !.moved = v] : v \in IF object.moved = Unset THEN {} ELSE Values},
         {[object EXCEPT !.timeouts = v] : v \in IF object.timeouts = Unset THEN {} ELSE Values},
         {[object EXCEPT !.server.disable = b] : b \in BOOLEAN},
         {[object EXCEPT !.server.provider = p] : p \in Providers},
         {[object EXCEPT !.server.controller = b] : b \in BOOLEAN \cup {Unset}},
         {[object EXCEPT !.server.registry = v] : v \in Values},
         {[object EXCEPT !.agent.script = v] : v \in Values}}

Edits(c) ==
  IF copy[c].format = "v1beta1" THEN OldEdits(copy[c].object) ELSE NewEdits(copy[c].object)

\* Whether a write changes a configuration; dropping the annotation resets what
\* only v1beta2 has.
ChangesConfig(c, object) ==
  \/ object.server # copy[c].object.server
  \/ object.agent # copy[c].object.agent
  \/ /\ copy[c].format = "v1beta1"
     /\ object.data # copy[c].object.data

\* An update names the version it was made from; another write since then makes
\* it fail, and the client starts over.
Write(c, object) ==
  /\ copy[c] # Unset
  /\ writes < MaxWrites
  /\ LET kind == copy[c].kind
         new == [format |-> "v1beta2", version |-> stored[kind].version + 1,
                 object |-> Stored(kind, copy[c].format, object)]
     IN  IF copy[c].version = stored[kind].version
         THEN /\ stored' = [stored EXCEPT ![kind] = new]
              /\ edited' = (edited \/ ChangesConfig(c, object))
         ELSE UNCHANGED <<stored, edited>>
  /\ copy' = [copy EXCEPT ![c] = Unset]
  /\ writes' = writes + 1

\* The machine is replaced: generateKThreesConfig makes the new one's
\* configuration from the control plane's.
CloneConfig ==
  /\ {"kcp", "config"} \subseteq Kinds
  /\ writes < MaxWrites
  /\ stored' = [stored EXCEPT !["config"] =
                  [format |-> "v1beta2", version |-> stored["config"].version + 1,
                   object |-> DefaultConfig([Seen("kcp") EXCEPT !.moved = Unset, !.timeouts = Unset])]]
  /\ writes' = writes + 1
  /\ edited' = FALSE
  /\ UNCHANGED copy

ConversionNext ==
  \/ \E c \in Clients, kind \in Kinds, version \in Versions : Read(c, kind, version)
  \/ \E c \in Clients : copy[c] # Unset /\ \E object \in Edits(c) : Write(c, object)
  \/ CloneConfig

ConversionSpec == ConversionInit /\ [][ConversionNext]_conversionVars

-----------------------------------------------------------------------------
(* Everything stored and read is an object of its version, and no object      *)
(* stored as v1beta2 or read as v1beta2 lacks a default where the webhook     *)
(* sets one.                                                                 *)
ConversionTypeOK ==
  /\ \A kind \in Kinds :
       /\ stored[kind].format \in Versions /\ stored[kind].version \in 0 .. MaxWrites
       /\ Seen(kind) \in Objects
       /\ kind # "template" => Seen(kind).server.provider # Unset /\ Seen(kind).server.controller # Unset
  /\ \A c \in Clients :
       copy[c] # Unset => copy[c].object \in IF copy[c].format = "v1beta1" THEN OldObjects ELSE Objects
  /\ writes \in 0 .. MaxWrites /\ edited \in BOOLEAN

\* What client c may write as v1beta1, and its write as an accepted one.
OldDrafts(c) ==
  IF copy[c] # Unset /\ copy[c].format = "v1beta1" THEN OldEdits(copy[c].object) ELSE {}

Accepted(c, kind, object) ==
  /\ copy[c].kind = kind
  /\ stored'[kind].version # stored[kind].version
  /\ Write(c, object)

NewOnly(object) ==
  <<object.server.provider, object.server.controller, object.server.registry,
    object.agent.script, object.timeouts>>

NewFieldsKept ==
  \A c \in Clients, kind \in Kinds : \A object \in OldDrafts(c) :
    Accepted(c, kind, object) /\ object.data # Unset
      => NewOnly(Seen(kind)') = NewOnly(Seen(kind))

(* A v1beta1 client that writes back what it read, whatever it changed in it, *)
(* and however other clients wrote before it, loses no field that only        *)
(* v1beta2 has (conversion.go: the restored fields).                          *)
NewFieldsSurvive == [][NewFieldsKept]_conversionVars

OldEditsStored ==
  \A c \in Clients, kind \in Kinds : \A object \in OldDrafts(c) :
    Accepted(c, kind, object)
      => /\ Seen(kind)'.server.args = object.server.args
         /\ Seen(kind)'.moved = object.moved
         /\ object.data = Unset =>
              /\ Seen(kind)'.server.disable = object.server.disable
              /\ object.server.disable <=>
                   <<"cloud-provider", "external">> \notin KubeletArgs(Seen(kind)'.server)
         /\ object.data # Unset => Seen(kind)'.server.disable = Seen(kind).server.disable

(* What a v1beta1 client wrote in a field both versions have is what is       *)
(* stored, with one exception.  disableExternalCloudProvider "suppresses the  *)
(* 'cloud-provider=external' kubelet argument" (v1beta1                       *)
(* kthreesconfig_types.go:112) on every machine exactly if an object without   *)
(* the annotation says so; in one that carries the annotation a change of it   *)
(* is discarded, and what was stored before stays (conversion.go:94).          *)
OldEditsTakeEffect == [][OldEditsStored]_conversionVars

(* A machine made from the control plane's configuration goes on matching it  *)
(* until a client changes one of the two: neither the upgrade of the provider, *)
(* nor writes of other fields in either version, start a rollout              *)
(* (MatchesKThreesBootstrapConfig compares the two with DeepEqual).           *)
NoSpuriousRollout ==
  {"kcp", "config"} \subseteq Kinds /\ ~edited => MatchesKThreesBootstrapConfig
-----------------------------------------------------------------------------
(* The inductive invariant.                                                  *)

\* Stored as v1beta1, and never written since, or as v1beta2; with the defaults
\* where the webhook sets them, and without fields the kind does not have.
WellStored(kind) ==
  /\ stored[kind].version \in Nat
  /\ \/ /\ stored[kind].format = "v1beta1"
        /\ stored[kind].object \in OldObjects /\ stored[kind].object.data = Unset
     \/ stored[kind].format = "v1beta2" /\ stored[kind].object \in Objects
  /\ kind # "template" =>
       Seen(kind).server.provider # Unset /\ Seen(kind).server.controller # Unset
  /\ kind # "kcp" => stored[kind].object.moved = Unset /\ Seen(kind).timeouts = Unset

\* A copy of the current version is what is shown now.
WellRead(c) ==
  copy[c] # Unset =>
    /\ copy[c].kind \in Kinds /\ copy[c].format \in Versions
    /\ copy[c].version \in Nat /\ copy[c].version <= stored[copy[c].kind].version
    /\ copy[c].version = stored[copy[c].kind].version =>
         copy[c].object = Shown(copy[c].kind, copy[c].format)

ConversionInv ==
  /\ Kinds \subseteq {"kcp", "config", "template"}
  /\ DOMAIN copy = Clients
  /\ \A kind \in Kinds : WellStored(kind)
  /\ \A c \in Clients : WellRead(c)
  /\ edited \in BOOLEAN
  /\ NoSpuriousRollout
=============================================================================
