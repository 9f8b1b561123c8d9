----------------------------- MODULE Resources ------------------------------
(***************************************************************************)
(* The kinds that have no pods of their own, in both syntaxes, and their   *)
(* conversion: certificates, definitions of resources, limits, events,     *)
(* secrets, ingresses, initializers and the like; and the presets and      *)
(* templates of pods.                                                      *)
(*                                                                         *)
(* Most of them have the fields f, a list of names and a list of objects:  *)
(* conditions, limits, or the objects an event is about.                   *)
(***************************************************************************)
EXTENDS Controllers

-----------------------------------------------------------------------------
(***************************************************************************)
(* Go types: the names of their fields in Short syntax                     *)
(***************************************************************************)
CertificateSigningRequest ==
  [Request |-> "request", Username |-> "username", UID |-> "uid", Groups |-> "groups", Extra |-> "extra", Certificate |-> "cert"]

CustomResourceDefinition ==
  [Scope |-> "scope", Validation |-> "validation"]
  @@ ("Group" :> "meta.group" @@ "Version" :> "meta.version" @@ "Names.Plural" :> "meta.plural" @@ "Names.Singular" :> "meta.singular"
      @@ "Names.ShortNames" :> "meta.short" @@ "Names.Kind" :> "meta.kind" @@ "Names.ListKind" :> "meta.list"
      @@ "AcceptedNames.Plural" :> "accepted.plural" @@ "AcceptedNames.Singular" :> "accepted.singular"
      @@ "AcceptedNames.ShortNames" :> "accepted.short" @@ "AcceptedNames.Kind" :> "accepted.kind" @@ "AcceptedNames.ListKind" :> "accepted.list")

StorageClass ==
  [Provisioner |-> "provisioner", Parameters |-> "params", ReclaimPolicy |-> "reclaim", MountOptions |-> "mount_opts",
   AllowVolumeExpansion |-> "allow_expansion", VolumeBindingMode |-> "binding_mode"]

ConfigMapTags == [Data |-> "data"]
SecretTags == [StringData |-> "string_data", Data |-> "data", Type |-> "type"]
Namespace == [Phase |-> "phase"]
ServiceAccount == [ImagePullSecrets |-> "registry_secrets", AutomountServiceAccountToken |-> "auto"]
PriorityClass == [Value |-> "priority", GlobalDefault |-> "default", Description |-> "description"]
ControllerRevision == [Data |-> "data", Revision |-> "revision"]

Event ==
  [Reason |-> "reason", Message |-> "message", FirstTimestamp |-> "first_recorded", LastTimestamp |-> "last_recorded", Count |-> "count",
   Type |-> "type", EventTime |-> "first_observed", Action |-> "action", ReportingController |-> "reporter", ReportingInstance |-> "reporter_id"]
  @@ ("Source.Component" :> "component" @@ "Source.Host" :> "host" @@ "Series.Count" :> "series_count"
      @@ "Series.LastObservedTime" :> "last_observed" @@ "Series.State" :> "series_state")

Tags ==
  [csr |-> CertificateSigningRequest, crd |-> CustomResourceDefinition, storage_class |-> StorageClass, secret |-> SecretTags,
   namespace |-> Namespace, limit_range |-> <<>>, event |-> Event, service_account |-> ServiceAccount, object_binding |-> <<>>,
   priority_class |-> PriorityClass, controller_revision |-> ControllerRevision, config_map |-> ConfigMapTags]

LimitRangeItem ==
  [Type |-> "kind", Max |-> "max", Min |-> "min", Default |-> "default_max", DefaultRequest |-> "default_min",
   MaxLimitRequestRatio |-> "max_burst_ratio"]
CSRCondition == [Type |-> "type", Reason |-> "reason", Message |-> "message", LastUpdateTime |-> "last_update"]
CRDCondition == [Type |-> "type", Status |-> "status", LastTransitionTime |-> "last_change", Reason |-> "reason", Message |-> "msg"]

ObjectReference ==
  [Kind |-> "kind", Namespace |-> "namespace", Name |-> "name", UID |-> "uid", APIVersion |-> "version",
   ResourceVersion |-> "resource_version", FieldPath |-> "field_path"]

\* The objects in the list of each kind that has one.
ItemTags ==
  [csr |-> CSRCondition, crd |-> CRDCondition, limit_range |-> LimitRangeItem, event |-> ObjectReference,
   service_account |-> ObjectReference, object_binding |-> ObjectReference]

-----------------------------------------------------------------------------
(***************************************************************************)
(* To Short syntax                                                         *)
(***************************************************************************)
SameUsages ==
  {"signing", "digital signature", "key encipherment", "key agreement", "data encipherment", "cert sign", "crl sign", "encipher only",
   "decipher only", "any", "server auth", "client auth", "code signing", "email protection", "s/mime", "ipsec end system", "ipsec tunnel",
   "ipsec user", "timestamping", "ocsp signing", "microsoft sgc", "netscape sgc"}
convertCSRUsage == [usage \in SameUsages |-> usage] @@ "content commitment" :> "content committment"
convertCSRConditionType == [Approved |-> "approved", Denied |-> "denied"]

convertCRDScope == [Cluster |-> "cluster", Namespaced |-> "ns"]
convertCRDConditionType == [Established |-> "established", NamesAccepted |-> "names-accepted", Terminating |-> "terminating"]
convertVolumeBindingMode == [Immediate |-> "immediate", WaitForFirstConsumer |-> "wait-for-first-consumer"]
convertLimitType == [Pod |-> "pod", Container |-> "container", PersistentVolumeClaim |-> "pvc"]
convertEventSeriesState == [Ongoing |-> "ongoing", Finished |-> "finished", Unknown |-> "unknown"]
SameSecrets ==
  {"kubernetes.io/service-account-token", "kubernetes.io/dockercfg", "kubernetes.io/dockerconfigjson", "kubernetes.io/basic-auth",
   "kubernetes.io/ssh-auth", "kubernetes.io/tls"}
convertSecretType == [type \in SameSecrets |-> type] @@ "Opaque" :> "opaque"
convertNamespaceStatus == [Active |-> "Active", Terminating |-> "Terminating"]
convertFinalizer == [kubernetes |-> "kubernetes"]

convertFields ==
  [crd |-> [Scope |-> convertCRDScope], storage_class |-> [VolumeBindingMode |-> convertVolumeBindingMode, ReclaimPolicy |-> convertReclaimPolicy],
   secret |-> [Type |-> convertSecretType], namespace |-> [Phase |-> convertNamespaceStatus], event |-> "Series.State" :> convertEventSeriesState]
convertNames == [csr |-> convertCSRUsage, namespace |-> convertFinalizer]
convertItems ==
  [csr |-> [Type |-> convertCSRConditionType], crd |-> [Type |-> convertCRDConditionType, Status |-> convertConditionStatus],
   limit_range |-> [Type |-> convertLimitType]]

\* The condition of a request or a definition must have a type.
HasType(kind, tag, item) == kind \in {"csr", "crd"} => tag \in DOMAIN item

\* The extra fields of a request go to a map that is nil; a series of events
\* must be in a state, and has a count, if only zero.
Accepts(kind, r) ==
  /\ kind = "csr" => "Extra" \notin DOMAIN r.f
  /\ kind = "event" /\ DOMAIN r.f \cap {"Series.Count", "Series.LastObservedTime"} # {} => "Series.State" \in DOMAIN r.f
  /\ kind = "namespace" => Empty \notin Range(r.names)

ConvertFields(kind, r) ==
  IF ~Accepts(kind, r) THEN {}
  ELSE {[f     |-> Renamed(IF "Series.State" \in DOMAIN f THEN f @@ ("Series.Count" :> <<"0">>) ELSE f, Tags[kind]),
         names |-> names, items |-> items] :
          f \in TranslatedAll(r.f, Get(convertFields, kind)), names \in Plugins(r.names, Get(convertNames, kind)),
          items \in Results(LAMBDA i : {Renamed(t, ItemTags[kind]) : t \in IF HasType(kind, "Type", i) THEN TranslatedAll(i, Get(convertItems, kind)) ELSE {}}, r.items)}

\* Only rules for HTTP are known.
convertIngressRules(rules) ==
  Results(LAMBDA r : {[host |-> r.host, paths |-> paths] : paths \in {r.http} \ {Nil}}, rules)

IngressBackend(name, port) == [name |-> name, port |-> port]

\* The texts that are an address, and how it is printed.
IPv4 == <<"10", ".", "0", ".", "0", ".", "1">>
IPv6 == <<":", ":", "1">>
Addresses == IPv4 :> IPv4 @@ IPv6 :> IPv6 @@ <<":", ":", "0001">> :> IPv6 @@ (<<":", ":", "ffff", ":">> \o IPv4) :> IPv4

\* An endpoint of a load balancer is one text: the address if it has one,
\* which must be valid, and the host name otherwise.
convertLoadBalancerIngress(endpoints) ==
  Results(LAMBDA e : IF e.ip = Empty THEN {e.hostname} ELSE {Addresses[text] : text \in DOMAIN Addresses \cap {e.ip}}, endpoints)

ConvertIngress(i) ==
  {[backend |-> IF i.backend = Nil THEN Empty ELSE i.backend.name, backend_port |-> IF i.backend = Nil THEN Nil ELSE i.backend.port,
    tls |-> i.tls, rules |-> rules, endpoints |-> endpoints] :
     rules \in convertIngressRules(i.rules), endpoints \in convertLoadBalancerIngress(i.endpoints)}

InitializerRule(groups, versions, resources) == [groups |-> groups, versions |-> versions, resources |-> resources]

\* A rule is written as a text if it has one version and one resource,
\* however many groups it has.  An empty one is not valid JSON, and any other
\* makes the method call itself without an end.
MarshalInitializerRule(r) ==
  IF Len(r.versions) = 1 /\ Len(r.resources) = 1 THEN {Join(r.groups \o r.versions \o r.resources, "/")} ELSE {}

\* Initializers without rules are left out.  What is written is the map, in
\* which the last of a name counts.
ConvertInitializers(list) ==
  Results(LAMBDA i : {[i EXCEPT !.rules = rules] : rules \in Results(MarshalInitializerRule, i.rules)},
          LastOf(SelectSeq(list, LAMBDA i : i.rules # <<>>)))

PodPreset(env, envFrom, mounts, vols, selector) ==
  [env |-> env, envFrom |-> envFrom, mounts |-> mounts, vols |-> vols, selector |-> selector]

convertPodPresetSpec(p) ==
  {[env |-> convertEnvVars(p.env, p.envFrom), mounts |-> mounts, volumes |-> volumes, selector |-> WrittenRSSelector(c.selector)] :
     mounts \in convertVolumeMounts(p.mounts), volumes \in convertVolumes(p.vols), c \in convertRSLabelSelector(p.selector, Nil)}

\* A template is its metadata and the fields of a pod.  (Its volumes,
\* containers and affinity are converted as those of a pod.)
ConvertPodTemplate(t) ==
  {[pod_meta |-> Renamed(t.meta, PodTemplateMeta), f |-> f, host_mode |-> convertHostMode(t.f)] : f \in convertPodFields(t.f)}

ConvertResource(kind, body) ==
  CASE kind = "ingress" -> ConvertIngress(body)
    [] kind = "initializer_config" -> ConvertInitializers(body)
    [] kind = "pod_preset" -> convertPodPresetSpec(body)
    [] kind = "pod_template" -> ConvertPodTemplate(body)
    [] OTHER -> ConvertFields(kind, body)

-----------------------------------------------------------------------------
(***************************************************************************)
(* To Kubernetes syntax                                                    *)
(***************************************************************************)
revertCSRUsage == AntiFunction(convertCSRUsage)
revertCSRConditionType == [approved |-> "Approved", denied |-> "Denied"]
revertCRDScope == [cluster |-> "Cluster", ns |-> "Namespaced"]
revertCRDConditionType == "established" :> "Established" @@ "names-accepted" :> "NamesAccepted" @@ "terminating" :> "Terminating"
revertVolumeBindingMode == "immediate" :> "Immediate" @@ "wait-for-first-consumer" :> "WaitForFirstConsumer"
revertLimitType == [pod |-> "Pod", container |-> "Container", pvc |-> "PersistentVolumeClaim"]
revertEventSeriesState == [ongoing |-> "Ongoing", finished |-> "Finished", unknown |-> "Unknown"]
revertSecretType == AntiFunction(convertSecretType)
revertNamespaceStatus == [Active |-> "Active", Terminating |-> "Terminating"]
revertFinalizer == [kubernetes |-> "kubernetes"]

revertFields ==
  [crd |-> [Scope |-> revertCRDScope], storage_class |-> [VolumeBindingMode |-> revertVolumeBindingMode, ReclaimPolicy |-> revertReclaimPolicy],
   secret |-> [Type |-> revertSecretType], namespace |-> [Phase |-> revertNamespaceStatus], event |-> "Series.State" :> revertEventSeriesState]
revertNames == [csr |-> revertCSRUsage, namespace |-> revertFinalizer]
revertItems ==
  [csr |-> [Type |-> revertCSRConditionType], crd |-> [Type |-> revertCRDConditionType, Status |-> revertConditionStatus],
   limit_range |-> [Type |-> revertLimitType]]

\* A count of zero is empty in Kubernetes syntax.
RevertFields(kind, k) ==
  IF kind = "csr" /\ "extra" \in DOMAIN k.f THEN {}
  ELSE {[f |-> IF Get(f, "Series.Count") = <<"0">> THEN Without(f, {"Series.Count"}) ELSE f, names |-> names, items |-> items] :
          f \in TranslatedAll(Renamed(k.f, AntiFunction(Tags[kind])), Get(revertFields, kind)), names \in Plugins(k.names, Get(revertNames, kind)),
          items \in Results(LAMBDA i : IF HasType(kind, "type", i) THEN TranslatedAll(Renamed(i, AntiFunction(ItemTags[kind])), Get(revertItems, kind)) ELSE {}, k.items)}

revertIngressBackend(name, port) ==
  CASE name = Empty /\ port = Nil -> {Nil}
    [] name # Empty /\ port # Nil -> {IngressBackend(name, port)}
    [] OTHER -> {}

\* A text that is an address is one, whatever it was.
revertLoadBalancerIngress(endpoints) ==
  [i \in DOMAIN endpoints |->
     LET text == endpoints[i]
     IN  IF text \in DOMAIN Addresses THEN [ip |-> Addresses[text], hostname |-> Empty] ELSE [ip |-> Empty, hostname |-> text]]

RevertIngress(k) ==
  {[backend |-> backend, tls |-> k.tls, rules |-> [i \in DOMAIN k.rules |-> [host |-> k.rules[i].host, http |-> k.rules[i].paths]],
    endpoints |-> revertLoadBalancerIngress(k.endpoints)] :
     backend \in revertIngressBackend(k.backend, k.backend_port)}

\* A variant: the text is split at every slash.
UnmarshalInitializerRuleUnlimited(text) ==
  LET parts == Split(text, "/")
  IN  CASE Len(parts) >= 3 -> {InitializerRule(<<parts[1]>>, <<parts[2]>>, <<parts[3]>>)}
        [] Len(parts) = 2 -> {InitializerRule(<<Empty>>, <<parts[1]>>, <<parts[2]>>)}
        [] OTHER -> {}

\* What comes after the second slash is the resource.
UnmarshalInitializerRule(text) ==
  LET parts == Split(text, "/")
  IN  CASE Len(parts) >= 3 -> {InitializerRule(<<parts[1]>>, <<parts[2]>>, <<Join(SubSeq(parts, 3, Len(parts)), "/")>>)}
        [] Len(parts) = 2 -> {InitializerRule(<<Empty>>, <<parts[1]>>, <<parts[2]>>)}
        [] OTHER -> {}

\* The keys are taken in the order of a Go map.
RevertInitializers(initializers) ==
  {[i \in DOMAIN keys |-> [name |-> keys[i], rules |-> list[keys[i]]]] :
     keys \in SetToSeqs(DOMAIN initializers), list \in Results(LAMBDA i : Results(UnmarshalInitializerRule, i.rules), initializers)}

\* A preset always has a selector: one that is empty selects every pod.
revertPodPreset(k) ==
  {PodPreset(e.env, e.envFrom, revertVolumeMounts(k.mounts), vols, IF r.selector = Nil THEN LabelSelector(Nil, <<>>) ELSE WrittenSelector(r.selector)) :
     e \in revertEnv(k.env), vols \in revertVolumes(k.volumes), r \in revertRSSelector(k.selector, Nil)}

RevertPodTemplate(k) ==
  {[meta |-> Renamed(k.pod_meta, AntiFunction(PodTemplateMeta)), f |-> Without(f, {"APIVersion"})] : f \in revertPodFields(k.f, k.host_mode)}

RevertResource(kind, body) ==
  CASE kind = "ingress" -> RevertIngress(body)
    [] kind = "initializer_config" -> RevertInitializers(body)
    [] kind = "pod_preset" -> revertPodPreset(body)
    [] kind = "pod_template" -> RevertPodTemplate(body)
    [] OTHER -> RevertFields(kind, body)

ResourceKinds == DOMAIN Tags \cup {"ingress", "initializer_config", "pod_preset", "pod_template"}
=============================================================================
