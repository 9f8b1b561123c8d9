---------------------------- MODULE KindsProofs ----------------------------
(***************************************************************************)
(* Proofs about module Kinds: a document keeps its kind, its apiVersion    *)
(* and its metadata however often it is converted, and what has been       *)
(* converted once can be converted again.                                  *)
(***************************************************************************)
EXTENDS Kinds, TLAPS

(***************************************************************************)
(* The table of kinds.                                                     *)
(***************************************************************************)
\* A kind is not read without an apiVersion, and its converter to Kubernetes
\* syntax writes any apiVersion, or those the kind is read in.
WritesWhatIsRead(k) ==
  /\ "" \notin k.reads
  /\ k.writes = Any \/ k.writes = k.reads

Row(k, key, kind) == k.key = key /\ k.kind = kind /\ WritesWhatIsRead(k)

\* The rows of the table.
LEMMA TableOfKinds ==
  /\ Row(APIService, "api_service", "APIService")
  /\ Row(Binding, "binding", "Binding")
  /\ Row(CSR, "csr", "CertificateSigningRequest")
  /\ Row(ClusterRole, "cluster_role", "ClusterRole")
  /\ Row(ClusterRoleBinding, "cluster_role_binding", "ClusterRoleBinding")
  /\ Row(ConfigMap, "config_map", "ConfigMap")
  /\ Row(ControllerRevision, "controller_revision", "ControllerRevision")
  /\ Row(CRD, "crd", "CustomResourceDefinition")
  /\ Row(CronJob, "cron_job", "CronJob")
  /\ Row(DaemonSet, "daemon_set", "DaemonSet")
  /\ Row(Deployment, "deployment", "Deployment")
  /\ Row(Endpoints, "endpoints", "Endpoints")
  /\ Row(Event, "event", "Event")
  /\ Row(HPA, "hpa", "HorizontalPodAutoscaler")
  /\ Row(Ingress, "ingress", "Ingress")
  /\ Row(InitializerConfig, "initializer_config", "InitializerConfiguration")
  /\ Row(Job, "job", "Job")
  /\ Row(LimitRange, "limit_range", "LimitRange")
  /\ Row(MutatingWebhook, "mutating_webhook", "MutatingWebhookConfiguration")
  /\ Row(Namespace, "namespace", "Namespace")
  /\ Row(PDB, "pdb", "PodDisruptionBudget")
  /\ Row(PersistentVolume, "persistent_volume", "PersistentVolume")
  /\ Row(Pod, "pod", "Pod")
  /\ Row(PodPreset, "pod_preset", "PodPreset")
  /\ Row(PodSecurityPolicy, "pod_security_policy", "PodSecurityPolicy")
  /\ Row(PodTemplate, "pod_template", "PodTemplate")
  /\ Row(PriorityClass, "priority_class", "PriorityClass")
  /\ Row(PVC, "pvc", "PersistentVolumeClaim")
  /\ Row(ReplicaSet, "replica_set", "ReplicaSet")
  /\ Row(ReplicationController, "replication_controller", "ReplicationController")
  /\ Row(Role, "role", "Role")
  /\ Row(RoleBinding, "role_binding", "RoleBinding")
  /\ Row(Secret, "secret", "Secret")
  /\ Row(Service, "service", "Service")
  /\ Row(ServiceAccount, "service_account", "ServiceAccount")
  /\ Row(StatefulSet, "stateful_set", "StatefulSet")
  /\ Row(StorageClass, "storage_class", "StorageClass")
  /\ Row(ValidatingWebhook, "validating_webhook", "ValidatingWebhookConfiguration")
BY DEF Row, WritesWhatIsRead, Plain, Versioned, Webhooks, Any, Rbac, Extensions,
   APIService, Binding, CSR, ClusterRole, ClusterRoleBinding, ConfigMap, ControllerRevision, CRD, CronJob,
   DaemonSet, Deployment, Endpoints, Event, HPA, Ingress, InitializerConfig, Job, LimitRange,
   MutatingWebhook, Namespace, PDB, PersistentVolume, Pod, PodPreset, PodSecurityPolicy, PodTemplate,
   PriorityClass, PVC, ReplicaSet, ReplicationController, Role, RoleBinding, Secret, Service, ServiceAccount,
   StatefulSet, StorageClass, ValidatingWebhook

\* There are no other kinds: the key and the name of every kind that
\* DetectAndConvertFromKubeObj and DetectAndConvertFromKokiObj know.
LEMMA RowsOfKinds ==
  ASSUME NEW k \in Kinds
  PROVE  \/ k = APIService /\ Row(k, "api_service", "APIService")
         \/ k = Binding /\ Row(k, "binding", "Binding")
         \/ k = CSR /\ Row(k, "csr", "CertificateSigningRequest")
         \/ k = ClusterRole /\ Row(k, "cluster_role", "ClusterRole")
         \/ k = ClusterRoleBinding /\ Row(k, "cluster_role_binding", "ClusterRoleBinding")
         \/ k = ConfigMap /\ Row(k, "config_map", "ConfigMap")
         \/ k = ControllerRevision /\ Row(k, "controller_revision", "ControllerRevision")
         \/ k = CRD /\ Row(k, "crd", "CustomResourceDefinition")
         \/ k = CronJob /\ Row(k, "cron_job", "CronJob")
         \/ k = DaemonSet /\ Row(k, "daemon_set", "DaemonSet")
         \/ k = Deployment /\ Row(k, "deployment", "Deployment")
         \/ k = Endpoints /\ Row(k, "endpoints", "Endpoints")
         \/ k = Event /\ Row(k, "event", "Event")
         \/ k = HPA /\ Row(k, "hpa", "HorizontalPodAutoscaler")
         \/ k = Ingress /\ Row(k, "ingress", "Ingress")
         \/ k = InitializerConfig /\ Row(k, "initializer_config", "InitializerConfiguration")
         \/ k = Job /\ Row(k, "job", "Job")
         \/ k = LimitRange /\ Row(k, "limit_range", "LimitRange")
         \/ k = MutatingWebhook /\ Row(k, "mutating_webhook", "MutatingWebhookConfiguration")
         \/ k = Namespace /\ Row(k, "namespace", "Namespace")
         \/ k = PDB /\ Row(k, "pdb", "PodDisruptionBudget")
         \/ k = PersistentVolume /\ Row(k, "persistent_volume", "PersistentVolume")
         \/ k = Pod /\ Row(k, "pod", "Pod")
         \/ k = PodPreset /\ Row(k, "pod_preset", "PodPreset")
         \/ k = PodSecurityPolicy /\ Row(k, "pod_security_policy", "PodSecurityPolicy")
         \/ k = PodTemplate /\ Row(k, "pod_template", "PodTemplate")
         \/ k = PriorityClass /\ Row(k, "priority_class", "PriorityClass")
         \/ k = PVC /\ Row(k, "pvc", "PersistentVolumeClaim")
         \/ k = ReplicaSet /\ Row(k, "replica_set", "ReplicaSet")
         \/ k = ReplicationController /\ Row(k, "replication_controller", "ReplicationController")
         \/ k = Role /\ Row(k, "role", "Role")
         \/ k = RoleBinding /\ Row(k, "role_binding", "RoleBinding")
         \/ k = Secret /\ Row(k, "secret", "Secret")
         \/ k = Service /\ Row(k, "service", "Service")
         \/ k = ServiceAccount /\ Row(k, "service_account", "ServiceAccount")
         \/ k = StatefulSet /\ Row(k, "stateful_set", "StatefulSet")
         \/ k = StorageClass /\ Row(k, "storage_class", "StorageClass")
         \/ k = ValidatingWebhook /\ Row(k, "validating_webhook", "ValidatingWebhookConfiguration")
BY TableOfKinds DEF Kinds

\* The switch statements of the two functions are unambiguous: no two kinds
\* have the same key in Short syntax.
LEMMA KeyDeterminesKind ==
  ASSUME NEW a \in Kinds, NEW b \in Kinds, a.key = b.key
  PROVE  a = b
BY RowsOfKinds, SMTT(60) DEF Row

\* No two kinds have the same name in Kubernetes syntax.
LEMMA NameDeterminesKind ==
  ASSUME NEW a \in Kinds, NEW b \in Kinds, a.kind = b.kind
  PROVE  a = b
BY RowsOfKinds, SMTT(60) DEF Row

\* No kind is read without an apiVersion; a converter to Kubernetes syntax
\* that cannot write every apiVersion writes those that are read; and the
\* one apiVersion of Endpoints, whose converter ignores the one in the
\* document, is the one it always writes.
LEMMA VersionsOfKinds ==
  ASSUME NEW k \in Kinds
  PROVE  /\ "" \notin k.reads
         /\ k.writes = Any \/ k.writes = k.reads
         /\ k = Endpoints => k.reads = {k.default} /\ k.writes = Any
<1>1. "" \notin k.reads /\ (k.writes = Any \/ k.writes = k.reads)
  <2>1. WritesWhatIsRead(k)
    BY RowsOfKinds DEF Row
  <2> QED BY <2>1 DEF WritesWhatIsRead
<1>2. ASSUME k = Endpoints PROVE k.reads = {k.default} /\ k.writes = Any
  BY <1>2 DEF Endpoints, Plain
<1> QED BY <1>1, <1>2

(***************************************************************************)
(* The conversions.                                                        *)
(***************************************************************************)
\* The cases of DetectAndConvertFromKubeObj and of DetectAndConvertFromKokiObj
\* that apply to a document.
Readers(v, name) == {c \in Kinds : c.kind = name /\ v \in c.reads}
Writers(key, v) ==
  {c \in Kinds : c.key = key /\ ParsesAsWrapper(c.key) /\ CanWrite(c, KubeVersion(c, v))}
Written(k, v, m) == KubeDoc(KubeVersion(k, v), k.kind, m \cap Copied)

\* A converter to Short syntax leaves the apiVersion as it is, whether or
\* not it goes by way of the generic one.
LEMMA ConvertKubeGives ==
  ASSUME NEW v, NEW name, NEW m
  PROVE  ConvertKube(KubeDoc(v, name, m)) =
           {KokiDoc(k.key, v, m \cap Copied) : k \in Readers(v, name)}
<1> DEFINE d == KubeDoc(v, name, m)
<1>1. SUFFICES ASSUME NEW k \in Kinds
               PROVE  (IF k.generic = None THEN ConvertOne(k, d) ELSE ConvertGeneric(k, d))
                        = KokiDoc(k.key, v, m \cap Copied)
  <2>1. d.kind = name /\ d.version = v
    BY DEF KubeDoc
  <2> QED BY <1>1, <2>1 DEF ConvertKube, Readers
<1>2. d.kind = name /\ d.version = v /\ d.meta = m
  BY DEF KubeDoc
<1>3. ConvertOne(k, d) = KokiDoc(k.key, v, m \cap Copied)
  BY <1>2 DEF ConvertOne
<1>4. ConvertGeneric(k, d) = KokiDoc(k.key, v, m \cap Copied)
  <2>1. [d EXCEPT !.version = k.generic] = KubeDoc(k.generic, name, m)
    BY DEF KubeDoc
  <2>2. ConvertOne(k, KubeDoc(k.generic, name, m)) = KokiDoc(k.key, k.generic, m \cap Copied)
    BY DEF ConvertOne, KubeDoc
  <2>3. [KokiDoc(k.key, k.generic, m \cap Copied) EXCEPT !.version = v] = KokiDoc(k.key, v, m \cap Copied)
    BY DEF KokiDoc
  <2> QED BY <1>2, <2>1, <2>2, <2>3 DEF ConvertGeneric
<1> QED BY <1>3, <1>4

\* What DetectAndConvertFromKokiObj makes of a document, if anything.
LEMMA ConvertKokiGives ==
  ASSUME NEW key, NEW v, NEW m
  PROVE  ConvertKoki(KokiDoc(key, v, m)) =
           {Written(k, v, m) : k \in Writers(key, v)}
BY DEF ConvertKoki, KokiDoc, Writers, Written

\* The apiVersion a converter to Kubernetes syntax writes, it writes again.
LEMMA KubeVersionSettles ==
  ASSUME NEW k, NEW v
  PROVE  KubeVersion(k, KubeVersion(k, v)) = KubeVersion(k, v)
BY DEF KubeVersion

\* What has been read in Kubernetes syntax can be written in it, in the same
\* apiVersion.
LEMMA WhatIsReadIsWritten ==
  ASSUME NEW k \in Kinds, NEW v \in k.reads
  PROVE  KubeVersion(k, v) = v /\ CanWrite(k, v)
BY VersionsOfKinds DEF KubeVersion, CanWrite

-----------------------------------------------------------------------------
(***************************************************************************)
(* The inductive invariant: what the document is, given what it was.  k is *)
(* the kind it has been taken for by the first conversion.                 *)
(***************************************************************************)
Kept == first.meta \cap Copied

\* The document was in Kubernetes syntax.  Once it has been converted it is
\* refused only in Short syntax, and only for its key.
FromKube ==
  \E k \in Kinds :
    /\ k.kind = first.kind
    /\ first.version \in k.reads
    /\ IsRegistered(first.version, first.kind)
    /\ \/ doc = KokiDoc(k.key, first.version, Kept) /\ (refused => ~ParsesAsWrapper(k.key))
       \/ doc = KubeDoc(first.version, first.kind, Kept) /\ ~refused

\* The document was in Short syntax: from then on it has the apiVersion that
\* the first conversion gave it.
FromKoki ==
  \E k \in Kinds :
    /\ k.key = first.key
    /\ \/ doc = KokiDoc(first.key, KubeVersion(k, first.version), Kept)
       \/ doc = KubeDoc(KubeVersion(k, first.version), k.kind, Kept)

KindsInv ==
  /\ first \in FirstDocs
  /\ \/ doc = first
     \/ first.syntax = "kube" /\ FromKube
     \/ first.syntax = "koki" /\ FromKoki

-----------------------------------------------------------------------------
\* The documents of either syntax are told apart, and their parts found.
LEMMA DocParts ==
  ASSUME NEW a, NEW b, NEW c
  PROVE  /\ KubeDoc(a, b, c).syntax = "kube"
         /\ KubeDoc(a, b, c).version = a
         /\ KubeDoc(a, b, c).kind = b
         /\ KubeDoc(a, b, c).meta = c
         /\ KokiDoc(a, b, c).syntax = "koki"
         /\ KokiDoc(a, b, c).key = a
         /\ KokiDoc(a, b, c).version = b
         /\ KokiDoc(a, b, c).meta = c
BY DEF KubeDoc, KokiDoc

\* A step on a document in Kubernetes syntax: it is converted to Short
\* syntax, or left alone, or refused because the scheme does not know it or
\* no converter reads its apiVersion.
LEMMA StepOnKube ==
  ASSUME Next, NEW v, NEW name, NEW m, doc = KubeDoc(v, name, m)
  PROVE  /\ ~refused /\ first' = first
         /\ \/ doc' = doc /\ ~refused'
            \/ doc' = doc /\ refused' /\ (IsRegistered(v, name) => Readers(v, name) = {})
            \/ /\ ~refused'
               /\ IsRegistered(v, name)
               /\ \E c \in Readers(v, name) : doc' = KokiDoc(c.key, v, m \cap Copied)
<1>1. doc.syntax = "kube" /\ doc.version = v /\ doc.kind = name
  BY DocParts
<1>2. CASE ToKoki
  <2> DEFINE results == IF IsRegistered(v, name) THEN ConvertKube(doc) ELSE {}
  <2>1. ~refused /\ first' = first
    BY <1>2 DEF ToKoki, Becomes
  <2>2. ConvertKube(doc) = {KokiDoc(c.key, v, m \cap Copied) : c \in Readers(v, name)}
    BY ConvertKubeGives
  <2>3. CASE \E d \in results : doc' = d /\ UNCHANGED refused
    <3>1. IsRegistered(v, name)
      BY <2>3
    <3>2. PICK c \in Readers(v, name) : doc' = KokiDoc(c.key, v, m \cap Copied)
      BY <2>2, <2>3, <3>1
    <3> QED BY <2>1, <2>3, <3>1, <3>2
  <2>4. CASE results = {} /\ refused' = TRUE /\ UNCHANGED doc
    <3>1. CASE IsRegistered(v, name)
      <4>1. Readers(v, name) = {}
        BY <2>2, <2>4, <3>1
      <4> QED BY <2>1, <2>4, <4>1
    <3> QED BY <2>1, <2>4, <3>1
  <2> QED BY <1>1, <1>2, <2>3, <2>4 DEF ToKoki, Becomes
<1>3. CASE EitherToKube
  BY <1>1, <1>3 DEF EitherToKube, Becomes
<1>4. ~ToKube
  BY <1>1 DEF ToKube
<1> QED BY <1>2, <1>3, <1>4 DEF Next

\* A step on a document in Short syntax: it is converted to Kubernetes
\* syntax, or refused.
LEMMA StepOnKoki ==
  ASSUME Next, NEW key, NEW v, NEW m, doc = KokiDoc(key, v, m)
  PROVE  /\ ~refused /\ first' = first
         /\ \/ /\ doc' = doc
               /\ refused'
               /\ Writers(key, v) = {}
            \/ /\ ~refused'
               /\ \E c \in Writers(key, v) : doc' = Written(c, v, m)
<1>1. doc.syntax = "koki"
  BY DocParts
<1>2. ~ToKoki
  BY <1>1 DEF ToKoki
<1>3. ~refused /\ Becomes(ConvertKoki(doc))
  BY <1>1, <1>2 DEF Next, ToKube, EitherToKube
<1>4. ConvertKoki(doc) = {Written(k, v, m) : k \in Writers(key, v)}
  BY ConvertKokiGives
<1>5. CASE \E d \in ConvertKoki(doc) : doc' = d /\ UNCHANGED refused
  <2>1. PICK c \in Writers(key, v) : doc' = Written(c, v, m)
    BY <1>4, <1>5
  <2> QED BY <1>3, <1>5, <2>1 DEF Becomes
<1>6. CASE ConvertKoki(doc) = {} /\ refused' = TRUE /\ UNCHANGED doc
  <2>1. Writers(key, v) = {}
    BY <1>4, <1>6
  <2> QED BY <1>3, <1>6, <2>1 DEF Becomes
<1> QED BY <1>3, <1>5, <1>6 DEF Becomes

\* The first conversion of a document in Kubernetes syntax.
LEMMA KubeStepFirst ==
  ASSUME first \in FirstDocs, first.syntax = "kube", doc = first, Next
  PROVE  KindsInv'
<1>1. doc = KubeDoc(first.version, first.kind, first.meta)
  BY DocsAssumption, DocParts
<1>2. first' = first
  BY <1>1, StepOnKube
<1>3. CASE doc' = doc
  BY <1>2, <1>3 DEF KindsInv
<1>4. CASE /\ ~refused'
           /\ IsRegistered(first.version, first.kind)
           /\ \E c \in Readers(first.version, first.kind) : doc' = KokiDoc(c.key, first.version, first.meta \cap Copied)
  <2>1. FromKube'
    BY <1>2, <1>4 DEF FromKube, Readers, Kept
  <2> QED BY <1>2, <2>1 DEF KindsInv
<1> QED BY <1>1, <1>3, <1>4, StepOnKube

\* Every later conversion of it.
LEMMA KubeStepNext ==
  ASSUME first \in FirstDocs, first.syntax = "kube", FromKube, Next
  PROVE  KindsInv'
<1>1. PICK k \in Kinds :
        /\ k.kind = first.kind
        /\ first.version \in k.reads
        /\ IsRegistered(first.version, first.kind)
        /\ \/ doc = KokiDoc(k.key, first.version, Kept) /\ (refused => ~ParsesAsWrapper(k.key))
           \/ doc = KubeDoc(first.version, first.kind, Kept) /\ ~refused
  BY DEF FromKube
<1>2. SUFFICES first' = first /\ FromKube'
  BY <1>2 DEF KindsInv
<1>3. Kept \cap Copied = Kept
  BY DEF Kept
<1>4. CASE doc = KokiDoc(k.key, first.version, Kept)
  <2>1. first' = first /\ Kept' = Kept
    BY <1>4, StepOnKoki DEF Kept
  <2>2. CASE doc' = doc /\ Writers(k.key, first.version) = {}
    <3>1. ~ParsesAsWrapper(k.key)
      BY <1>1, <2>2, WhatIsReadIsWritten DEF Writers
    <3> QED BY <1>1, <1>4, <2>1, <2>2, <3>1 DEF FromKube
  <2>3. ASSUME ~refused', NEW c \in Writers(k.key, first.version), doc' = Written(c, first.version, Kept)
        PROVE  FromKube'
    <3>1. c = k
      BY KeyDeterminesKind DEF Writers
    <3>2. doc' = KubeDoc(first.version, first.kind, Kept)
      BY <1>1, <1>3, <2>3, <3>1, WhatIsReadIsWritten DEF Written
    <3> QED BY <1>1, <2>1, <2>3, <3>2 DEF FromKube
  <2> QED BY <1>4, <2>1, <2>2, <2>3, StepOnKoki
<1>5. CASE doc = KubeDoc(first.version, first.kind, Kept)
  <2>1. first' = first /\ Kept' = Kept
    BY <1>5, StepOnKube DEF Kept
  <2>2. k \in Readers(first.version, first.kind)
    BY <1>1 DEF Readers
  <2>3. CASE doc' = doc /\ ~refused'
    BY <1>1, <1>5, <2>1, <2>3 DEF FromKube
  <2>4. ASSUME NEW c \in Readers(first.version, first.kind),
               doc' = KokiDoc(c.key, first.version, Kept \cap Copied),
               ~refused'
        PROVE  FromKube'
    <3>1. c = k
      BY <1>1, NameDeterminesKind DEF Readers
    <3> QED BY <1>1, <1>3, <2>1, <2>4, <3>1 DEF FromKube
  <2> QED BY <1>1, <1>5, <2>1, <2>2, <2>3, <2>4, StepOnKube
<1> QED BY <1>1, <1>4, <1>5

\* The first conversion of a document in Short syntax.
LEMMA KokiStepFirst ==
  ASSUME first \in FirstDocs, first.syntax = "koki", doc = first, Next
  PROVE  KindsInv'
<1>1. doc = KokiDoc(first.key, first.version, first.meta)
  BY DocsAssumption, DocParts
<1>2. first' = first
  BY <1>1, StepOnKoki
<1>3. CASE doc' = doc
  BY <1>2, <1>3 DEF KindsInv
<1>4. ASSUME NEW c \in Writers(first.key, first.version), doc' = Written(c, first.version, first.meta)
      PROVE  KindsInv'
  <2>1. FromKoki'
    BY <1>2, <1>4 DEF FromKoki, Writers, Written, Kept
  <2> QED BY <1>2, <2>1 DEF KindsInv
<1> QED BY <1>1, <1>3, <1>4, StepOnKoki

\* Every later conversion of it.
LEMMA KokiStepNext ==
  ASSUME first \in FirstDocs, first.syntax = "koki", FromKoki, Next
  PROVE  KindsInv'
<1>1. PICK k \in Kinds :
        /\ k.key = first.key
        /\ \/ doc = KokiDoc(first.key, KubeVersion(k, first.version), Kept)
           \/ doc = KubeDoc(KubeVersion(k, first.version), k.kind, Kept)
  BY DEF FromKoki
<1> DEFINE v == KubeVersion(k, first.version)
<1>2. SUFFICES first' = first /\ FromKoki'
  BY <1>2 DEF KindsInv
<1>3. Kept \cap Copied = Kept
  BY DEF Kept
<1>4. v = KubeVersion(k, v)
  BY KubeVersionSettles
<1>5. (first' = first) => v = v' /\ Kept' = Kept
  BY DEF KubeVersion, Kept
<1> HIDE DEF v
<1>6. CASE doc = KokiDoc(first.key, v, Kept)
  <2>1. first' = first
    BY <1>6, StepOnKoki
  <2>2. CASE doc' = doc
    BY <1>1, <1>5, <1>6, <2>1, <2>2 DEF FromKoki, v
  <2>3. ASSUME NEW c \in Writers(first.key, v), doc' = Written(c, v, Kept)
        PROVE  FromKoki'
    <3>1. c = k
      BY <1>1, KeyDeterminesKind DEF Writers
    <3>2. doc' = KubeDoc(v, k.kind, Kept)
      BY <1>3, <1>4, <2>3, <3>1 DEF Written
    <3> QED BY <1>1, <1>5, <2>1, <3>2 DEF FromKoki, v
  <2> QED BY <1>6, <2>1, <2>2, <2>3, StepOnKoki
<1>7. CASE doc = KubeDoc(v, k.kind, Kept)
  <2>1. first' = first
    BY <1>7, StepOnKube
  <2>2. CASE doc' = doc
    BY <1>1, <1>5, <1>7, <2>1, <2>2 DEF FromKoki, v
  <2>3. ASSUME NEW c \in Readers(v, k.kind), doc' = KokiDoc(c.key, v, Kept \cap Copied)
        PROVE  FromKoki'
    <3>1. c = k
      BY <1>1, NameDeterminesKind DEF Readers
    <3> QED BY <1>1, <1>3, <1>5, <2>1, <2>3, <3>1 DEF FromKoki, v
  <2> QED BY <1>7, <2>1, <2>2, <2>3, StepOnKube
<1> QED BY <1>1, <1>6, <1>7 DEF v

\* The invariant holds from the start, and every run of short keeps it.
THEOREM KindsInvariant == Spec => []KindsInv
<1>1. Init => KindsInv
  BY DEF Init, KindsInv
<1>2. KindsInv /\ [Next]_vars => KindsInv'
  <2>1. ASSUME KindsInv, UNCHANGED vars PROVE KindsInv'
    BY <2>1 DEF KindsInv, FromKube, FromKoki, Kept, vars
  <2>2. ASSUME KindsInv, Next PROVE KindsInv'
    <3>1. first.syntax = "kube" \/ first.syntax = "koki"
      BY <2>2, DocsAssumption DEF KindsInv
    <3> QED BY <2>2, <3>1, KubeStepFirst, KubeStepNext, KokiStepFirst, KokiStepNext DEF KindsInv
  <2> QED BY <2>1, <2>2
<1> QED BY <1>1, <1>2, PTL DEF Spec

\* A document without the metadata no converter copies.
Trimmed(d) == [d EXCEPT !.meta = d.meta \cap Copied]

\* It differs in its metadata only.
LEMMA TrimmedDocs ==
  ASSUME NEW a, NEW b, NEW m
  PROVE  /\ Trimmed(KubeDoc(a, b, m)) = KubeDoc(a, b, m \cap Copied)
         /\ Trimmed(KokiDoc(a, b, m)) = KokiDoc(a, b, m \cap Copied)
BY DEF KubeDoc, KokiDoc, Trimmed

\* Converting to the other syntax and back, however often, leaves the kind,
\* the apiVersion and the metadata the converters know as they were, for
\* every document and every scheme.
THEOREM ConversionsRoundTrip == Spec => []RoundTrips
<1>1. KindsInv => RoundTrips
  <2> SUFFICES ASSUME KindsInv, doc.syntax = first.syntax, first.version # ""
               PROVE  SameAs(doc, first) \/ (doc.syntax = "koki" /\ doc.key = Endpoints.key)
    BY DEF RoundTrips
  <2>1. CASE doc = first
    BY <2>1 DEF SameAs
  <2>2. CASE first.syntax = "kube" /\ FromKube
    <3>1. doc = KubeDoc(first.version, first.kind, Kept)
      <4>1. PICK k \in Kinds : \/ doc = KokiDoc(k.key, first.version, Kept)
                               \/ doc = KubeDoc(first.version, first.kind, Kept)
        BY <2>2 DEF FromKube
      <4>2. KokiDoc(k.key, first.version, Kept).syntax = "koki"
        BY DEF KokiDoc
      <4> QED BY <2>2, <4>1, <4>2
    <3>2. first = KubeDoc(first.version, first.kind, first.meta)
      BY <2>2, DocsAssumption DEF KindsInv
    <3>3. Trimmed(doc) = KubeDoc(first.version, first.kind, Kept \cap Copied)
      BY <3>1, TrimmedDocs
    <3>4. Trimmed(first) = KubeDoc(first.version, first.kind, Kept)
      <4>1. Trimmed(KubeDoc(first.version, first.kind, first.meta)) = KubeDoc(first.version, first.kind, Kept)
        BY TrimmedDocs DEF Kept
      <4> QED BY <3>2, <4>1
    <3>5. Kept \cap Copied = Kept
      BY DEF Kept
    <3> QED BY <3>3, <3>4, <3>5 DEF SameAs, Trimmed
  <2>3. CASE first.syntax = "koki" /\ FromKoki
    <3>1. PICK k \in Kinds :
            /\ k.key = first.key
            /\ doc = KokiDoc(first.key, KubeVersion(k, first.version), Kept)
      <4>1. PICK k \in Kinds :
              /\ k.key = first.key
              /\ \/ doc = KokiDoc(first.key, KubeVersion(k, first.version), Kept)
                 \/ doc = KubeDoc(KubeVersion(k, first.version), k.kind, Kept)
        BY <2>3 DEF FromKoki
      <4>2. KubeDoc(KubeVersion(k, first.version), k.kind, Kept).syntax = "kube"
        BY DEF KubeDoc
      <4> QED BY <2>3, <4>1, <4>2
    <3>2. CASE k = Endpoints
      <4>1. doc.key = first.key
        BY <3>1 DEF KokiDoc
      <4> QED BY <2>3, <3>1, <3>2, <4>1
    <3>3. CASE k # Endpoints
      <4>1. doc = KokiDoc(first.key, first.version, Kept)
        BY <3>1, <3>3 DEF KubeVersion
      <4>2. first = KokiDoc(first.key, first.version, first.meta)
        BY <2>3, DocsAssumption DEF KindsInv
      <4>3. Trimmed(doc) = KokiDoc(first.key, first.version, Kept \cap Copied)
        BY <4>1, TrimmedDocs
      <4>4. Trimmed(first) = KokiDoc(first.key, first.version, Kept)
        <5>1. Trimmed(KokiDoc(first.key, first.version, first.meta)) = KokiDoc(first.key, first.version, Kept)
          BY TrimmedDocs DEF Kept
        <5> QED BY <4>2, <5>1
      <4>5. Kept \cap Copied = Kept
        BY DEF Kept
      <4> QED BY <4>3, <4>4, <4>5 DEF SameAs, Trimmed
    <3> QED BY <3>2, <3>3
  <2> QED BY <2>1, <2>2, <2>3 DEF KindsInv
<1> QED BY <1>1, KindsInvariant, PTL

\* What has been converted from Kubernetes syntax is never refused when it is
\* converted back or again, except for an api_service in Short syntax, which
\* ParseKokiNativeObject does not put into the wrapper its converter expects.
THEOREM ConvertedIsAcceptedForGood == Spec => []AcceptedForGood
<1>1. KindsInv => AcceptedForGood
  <2> SUFFICES ASSUME KindsInv, refused, first.syntax = "kube", doc # first
               PROVE  doc.syntax = "koki" /\ doc.key = APIService.key
    BY DEF AcceptedForGood
  <2>1. PICK k \in Kinds : doc = KokiDoc(k.key, first.version, Kept) /\ ~ParsesAsWrapper(k.key)
    BY DEF KindsInv, FromKube
  <2>2. k.key = "api_service"
    BY <2>1 DEF ParsesAsWrapper
  <2>3. APIService.key = "api_service"
    BY TableOfKinds DEF Row
  <2> QED BY <2>1, <2>2, <2>3, DocParts
<1> QED BY <1>1, KindsInvariant, PTL
=============================================================================
