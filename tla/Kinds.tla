------------------------------- MODULE Kinds -------------------------------
(***************************************************************************)
(* Which manifests are converted, and what becomes of their apiVersion,    *)
(* kind and metadata when they are converted to Short syntax and back      *)
(* (converter/koki_converter.go, parser/native.go, and the head of every   *)
(* converter in converter/converters).  The bodies of the manifests are    *)
(* left out.                                                               *)
(*                                                                         *)
(* A step is a run of short on the output of the previous run.             *)
(***************************************************************************)
EXTENDS FiniteSets

CONSTANTS
  FirstDocs,           \* the documents short may be given first
  IsRegistered(_, _)   \* does the scheme know this apiVersion and kind?

VARIABLES
  first,     \* what the first run was given
  doc,       \* what the next run is given
  refused    \* has a run failed?

vars == <<first, doc, refused>>

-----------------------------------------------------------------------------
(***************************************************************************)
(* The kinds.  key is the top-level key in Short syntax; reads are the     *)
(* apiVersions DetectAndConvertFromKubeObj takes the kind in; writes those *)
(* the converter to Kubernetes syntax can produce, unless it produces any; *)
(* default is the apiVersion it uses if the document has none; generic the *)
(* one that kinds with several apiVersions are converted by way of.        *)
(***************************************************************************)
Any == {}
None == "none"

Plain(key, kind, reads, default) ==
  [key |-> key, kind |-> kind, reads |-> reads, writes |-> Any, default |-> default, generic |-> None]

Versioned(key, kind, versions, generic, default) ==
  [key |-> key, kind |-> kind, reads |-> versions, writes |-> versions, default |-> default, generic |-> generic]

Rbac == "rbac.authorization.k8s.io/v1"
Extensions == "extensions/v1beta1"

APIService == Plain("api_service", "APIService", {"apiregistration.k8s.io/v1beta1"}, "apiregistration.k8s.io")
Binding == Plain("binding", "Binding", {"v1"}, "v1")
CSR == Plain("csr", "CertificateSigningRequest", {"certificates.k8s.io/v1beta1"}, "v1")
ClusterRole == Plain("cluster_role", "ClusterRole", {Rbac}, Rbac)
ClusterRoleBinding == Plain("cluster_role_binding", "ClusterRoleBinding", {Rbac}, Rbac)
ConfigMap == Plain("config_map", "ConfigMap", {"v1"}, "")
CRD == Plain("crd", "CustomResourceDefinition", {"apiextensions.k8s.io/v1beta1"}, "apiextensions/v1beta1")
Endpoints == Plain("endpoints", "Endpoints", {"v1"}, "v1")
Event == Plain("event", "Event", {"v1"}, "v1")
HPA == Plain("hpa", "HorizontalPodAutoscaler", {"autoscaling/v1"}, "autoscaling/v1")
Ingress == Plain("ingress", "Ingress", {Extensions}, Extensions)
InitializerConfig ==
  Plain("initializer_config", "InitializerConfiguration",
        {"admissionregistration.k8s.io/v1alpha1"}, "admissionregistration/v1alpha1")
Job == Plain("job", "Job", {"batch/v1"}, "")
LimitRange == Plain("limit_range", "LimitRange", {"v1"}, "v1")
Namespace == Plain("namespace", "Namespace", {"v1"}, "v1")
PDB == Plain("pdb", "PodDisruptionBudget", {"policy/v1beta1"}, "policy/v1beta1")
PersistentVolume == Plain("persistent_volume", "PersistentVolume", {"v1"}, "v1")
Pod == Plain("pod", "Pod", {"v1"}, "v1")
PodPreset == Plain("pod_preset", "PodPreset", {"settings.k8s.io/v1alpha1"}, "settings.k8s.io/v1alpha1")
PodSecurityPolicy == Plain("pod_security_policy", "PodSecurityPolicy", {Extensions}, Extensions)
PodTemplate == Plain("pod_template", "PodTemplate", {"v1"}, "v1")
PriorityClass == Plain("priority_class", "PriorityClass", {"scheduling.k8s.io/v1alpha1"}, "scheduling/v1alpha1")
PVC == Plain("pvc", "PersistentVolumeClaim", {"v1"}, "")
ReplicationController == Plain("replication_controller", "ReplicationController", {"v1"}, "v1")
Role == Plain("role", "Role", {Rbac}, Rbac)
RoleBinding == Plain("role_binding", "RoleBinding", {Rbac}, Rbac)
Secret == Plain("secret", "Secret", {"v1"}, "")
Service == Plain("service", "Service", {"v1"}, "v1")
ServiceAccount == Plain("service_account", "ServiceAccount", {"v1"}, "v1")

\* Both kinds of webhook configuration share their converter.
Webhooks(key, kind) ==
  Plain(key, kind, {"admissionregistration.k8s.io/v1beta1"}, "admissionregistration/v1beta1")
MutatingWebhook == Webhooks("mutating_webhook", "MutatingWebhookConfiguration")
ValidatingWebhook == Webhooks("validating_webhook", "ValidatingWebhookConfiguration")

ControllerRevision ==
  Versioned("controller_revision", "ControllerRevision", {"apps/v1", "apps/v1beta1", "apps/v1beta2"},
            "apps/v1", "apps/v1")
CronJob == Versioned("cron_job", "CronJob", {"batch/v1beta1", "batch/v2alpha1"}, "batch/v1beta1", "")
DaemonSet == Versioned("daemon_set", "DaemonSet", {"apps/v1beta2", Extensions}, "apps/v1beta2", Extensions)

\* A variant: one version is missing where the manifest is parsed again.
DeploymentWithoutV1beta1 ==
  [Versioned("deployment", "Deployment", {"apps/v1beta1", "apps/v1beta2", Extensions}, "apps/v1beta2", Extensions)
     EXCEPT !.writes = {"apps/v1beta2", Extensions}]

Deployment ==
  Versioned("deployment", "Deployment", {"apps/v1beta1", "apps/v1beta2", Extensions}, "apps/v1beta2", Extensions)

ReplicaSet == Versioned("replica_set", "ReplicaSet", {"apps/v1beta2", Extensions}, "apps/v1beta2", Extensions)
StatefulSet == Versioned("stateful_set", "StatefulSet", {"apps/v1beta1", "apps/v1beta2"}, "apps/v1beta2", "")
StorageClass ==
  Versioned("storage_class", "StorageClass", {"storage.k8s.io/v1", "storage.k8s.io/v1beta1"}, "storage.k8s.io/v1", "")

Kinds ==
  {APIService, Binding, CSR, ClusterRole, ClusterRoleBinding, ConfigMap, ControllerRevision, CRD,
   CronJob, DaemonSet, Deployment, Endpoints, Event, HPA, Ingress, InitializerConfig, Job,
   LimitRange, MutatingWebhook, Namespace, PDB, PersistentVolume, Pod, PodPreset,
   PodSecurityPolicy, PodTemplate, PriorityClass, PVC, ReplicaSet, ReplicationController, Role,
   RoleBinding, Secret, Service, ServiceAccount, StatefulSet, StorageClass, ValidatingWebhook}

-----------------------------------------------------------------------------
(***************************************************************************)
(* Documents, with the names of the metadata fields that are set.          *)
(***************************************************************************)
KubeDoc(version, kind, meta) == [syntax |-> "kube", version |-> version, kind |-> kind, meta |-> meta]
KokiDoc(key, version, meta) == [syntax |-> "koki", key |-> key, version |-> version, meta |-> meta]

ASSUME DocsAssumption ==
  \A d \in FirstDocs :
    \/ d.syntax = "kube" /\ d = KubeDoc(d.version, d.kind, d.meta)
    \/ d.syntax = "koki" /\ d = KokiDoc(d.key, d.version, d.meta)

\* The fields of ObjectMeta every converter copies.
Copied == {"name", "namespace", "clusterName", "labels", "annotations"}

\* A converter to Short syntax: the name and the apiVersion are copied.
ConvertOne(k, d) == KokiDoc(k.key, d.version, d.meta \cap Copied)

\* A variant: the generic apiVersion stays.
ConvertGenericOnly(k, d) == ConvertOne(k, [d EXCEPT !.version = k.generic])

\* The manifest is given the generic apiVersion, serialized, parsed as what
\* it now is, and converted; then the apiVersion it had is put back.
ConvertGeneric(k, d) ==
  [ConvertOne(k, [d EXCEPT !.version = k.generic]) EXCEPT !.version = d.version]

\* DetectAndConvertFromKubeObj.
ConvertKube(d) ==
  {IF k.generic = None THEN ConvertOne(k, d) ELSE ConvertGeneric(k, d) :
     k \in {c \in Kinds : c.kind = d.kind /\ d.version \in c.reads}}

\* ParseKokiNativeObject makes the key's wrapper of a document.  For
\* api_service it makes what the wrapper should contain, which nothing
\* accepts.
ParsesAsWrapper(key) == key # "api_service"

KubeVersion(k, version) == IF version = "" \/ k = Endpoints THEN k.default ELSE version

\* Kinds with several apiVersions are parsed again as what their apiVersion
\* says they are.
CanWrite(k, version) == k.writes = Any \/ version \in k.writes

\* DetectAndConvertFromKokiObj and the converter it chooses.
ConvertKoki(d) ==
  {KubeDoc(KubeVersion(k, d.version), k.kind, d.meta \cap Copied) :
     k \in {c \in Kinds : /\ c.key = d.key
                          /\ ParsesAsWrapper(c.key)
                          /\ CanWrite(c, KubeVersion(c, d.version))}}

-----------------------------------------------------------------------------
Init ==
  /\ first \in FirstDocs
  /\ doc = first
  /\ refused = FALSE

\* A run gives the result there is, or fails.
Becomes(results) ==
  /\ \/ \E d \in results : doc' = d /\ UNCHANGED refused
     \/ results = {} /\ refused' = TRUE /\ UNCHANGED doc
  /\ UNCHANGED first

\* short, with a manifest in Kubernetes syntax.
ToKoki ==
  /\ ~refused
  /\ doc.syntax = "kube"
  /\ Becomes(IF IsRegistered(doc.version, doc.kind) THEN ConvertKube(doc) ELSE {})

\* short --kube-native, with one in Short syntax.
ToKube ==
  /\ ~refused
  /\ doc.syntax = "koki"
  /\ Becomes(ConvertKoki(doc))

\* A client of ConvertEitherStreamsToKube: what cannot be converted to
\* Kubernetes syntax is taken to be in it.
EitherToKube ==
  /\ ~refused
  /\ Becomes(IF doc.syntax = "koki" THEN ConvertKoki(doc)
             ELSE IF IsRegistered(doc.version, doc.kind) THEN {doc} ELSE {})

Next == ToKoki \/ ToKube \/ EitherToKube

Spec == Init /\ [][Next]_vars

-----------------------------------------------------------------------------
(***************************************************************************)
(* Properties                                                              *)
(***************************************************************************)
\* A document is the same as another, but for metadata that is not copied.
SameAs(d, e) == [d EXCEPT !.meta = d.meta \cap Copied] = [e EXCEPT !.meta = e.meta \cap Copied]

\* Converting to the other syntax and back, however often, leaves the kind,
\* the apiVersion and the metadata the converters know as they were, though
\* kinds with several versions are converted by way of one of them.  What
\* has no apiVersion gets one on the way.
RoundTrips ==
  (doc.syntax = first.syntax /\ first.version # "") =>
    \/ SameAs(doc, first)
    \/ doc.syntax = "koki" /\ doc.key = Endpoints.key

\* What has been converted from Kubernetes syntax is never refused when it
\* is converted back or again, except for api_service.
AcceptedForGood ==
  (refused /\ first.syntax = "kube" /\ doc # first) =>
    doc.syntax = "koki" /\ doc.key = APIService.key

\* README.md: Short can transform "Short syntax back into Kubernetes".
GoesBack == (refused /\ doc.syntax = "koki") => doc = first
=============================================================================
