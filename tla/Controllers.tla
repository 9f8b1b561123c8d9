---------------------------- MODULE Controllers ----------------------------
(***************************************************************************)
(* The controllers of pods in both syntaxes, and their conversion, with    *)
(* the claims of volumes and the budgets of disruptions.  Their heads are  *)
(* in module Kinds, their selectors and the labels of their templates in   *)
(* Workloads, and what a template has but for its fields in Pods.          *)
(*                                                                         *)
(* In Kubernetes syntax a controller has the fields f of its spec, an      *)
(* update strategy, volume claims, the fields of its pod template, and a   *)
(* status with conditions.  In Short it is one object: its own fields and  *)
(* those of the Go structs it embeds, its pod template and its status.     *)
(***************************************************************************)
EXTENDS Policies

-----------------------------------------------------------------------------
(***************************************************************************)
(* Go types: the names of their fields in Short syntax                     *)
(***************************************************************************)
Deployment ==
  [Replicas |-> "replicas", Recreate |-> "recreate", MaxUnavailable |-> "max_unavailable", MaxSurge |-> "max_extra",
   MinReadySeconds |-> "min_ready", RevisionHistoryLimit |-> "max_revs", Paused |-> "paused", ProgressDeadlineSeconds |-> "progress_deadline"]

DaemonSet ==
  [OnDelete |-> "replace_on_delete", MaxUnavailable |-> "max_unavailable", MinReadySeconds |-> "min_ready",
   RevisionHistoryLimit |-> "max_revs"]

StatefulSet ==
  [Replicas |-> "replicas", OnDelete |-> "replace_on_delete", Partition |-> "partition", RevisionHistoryLimit |-> "max_revs",
   PodManagementPolicy |-> "pod_policy", ServiceName |-> "service"]

ReplicaSet == [Replicas |-> "replicas", MinReadySeconds |-> "ready_seconds"]
ReplicationController == [Replicas |-> "replicas", MinReadySeconds |-> "ready_seconds"]

JobTemplate ==
  [Parallelism |-> "parallelism", Completions |-> "completions", BackoffLimit |-> "max_retries",
   ActiveDeadlineSeconds |-> "active_deadline", ManualSelector |-> "select_manually"]

CronJob ==
  JobTemplate
  @@ [Schedule |-> "schedule", Suspend |-> "suspend", StartingDeadlineSeconds |-> "start_deadline", ConcurrencyPolicy |-> "concurrency",
      SuccessfulJobsHistoryLimit |-> "max_success_history", FailedJobsHistoryLimit |-> "max_failure_history",
      TemplateMetadata |-> "job_meta"]

PersistentVolumeClaim ==
  [StorageClassName |-> "storage_class", VolumeName |-> "volume", AccessModes |-> "access_modes", Storage |-> "storage"]

PodDisruptionBudget == [MaxUnavailable |-> "max_evictions", MinAvailable |-> "min_pods"]

Specs ==
  [deployment |-> Deployment, daemon_set |-> DaemonSet, stateful_set |-> StatefulSet, replica_set |-> ReplicaSet,
   replication_controller |-> ReplicationController, job |-> JobTemplate, cron_job |-> CronJob, pvc |-> PersistentVolumeClaim,
   pdb |-> PodDisruptionBudget]

ControllerKinds == DOMAIN Specs
HasTemplate(kind) == kind \notin {"pvc", "pdb"}

DeploymentStatus ==
  [ObservedGeneration |-> "generation_observed", CollisionCount |-> "hash_collisions"]
  @@ ("Replicas" :> "replicas_status.total" @@ "UpdatedReplicas" :> "replicas_status.updated" @@ "ReadyReplicas" :> "replicas_status.ready"
      @@ "AvailableReplicas" :> "replicas_status.available" @@ "UnavailableReplicas" :> "replicas_status.unavailable")

DaemonSetStatus ==
  [ObservedGeneration |-> "generation_observed", CurrentNumberScheduled |-> "num_nodes_scheduled",
   NumberMisscheduled |-> "num_nodes_misscheduled", DesiredNumberScheduled |-> "num_nodes_desired", NumberReady |-> "num_ready",
   UpdatedNumberScheduled |-> "num_updated", NumberAvailable |-> "num_available", NumberUnavailable |-> "num_unavailable",
   CollisionCount |-> "hash_collisions"]

StatefulSetStatus ==
  [ObservedGeneration |-> "generation_observed", Replicas |-> "replicas", ReadyReplicas |-> "ready", CurrentReplicas |-> "current",
   UpdatedReplicas |-> "updated", CurrentRevision |-> "rev", UpdateRevision |-> "update_rev", CollisionCount |-> "hash_collisions"]

ReplicaSetStatus ==
  [ObservedGeneration |-> "generation_observed"]
  @@ ("Replicas" :> "replicas_status.total" @@ "FullyLabeledReplicas" :> "replicas_status.fully_labeled"
      @@ "ReadyReplicas" :> "replicas_status.ready" @@ "AvailableReplicas" :> "replicas_status.available")

ReplicationControllerStatus ==
  [ObservedGeneration |-> "generation_observed"]
  @@ ("Replicas" :> "replicas_status.total" @@ "FullyLabeledReplicas" :> "replicas_status.fully_labeled"
      @@ "ReadyReplicas" :> "replicas_status.ready" @@ "AvailableReplicas" :> "replicas_status.available")

JobStatus ==
  [StartTime |-> "start_time", CompletionTime |-> "end_time", Active |-> "running", Succeeded |-> "successful", Failed |-> "failed"]

CronJobStatus == [Active |-> "active", LastScheduleTime |-> "last_scheduled"]

PersistentVolumeClaimStatus == [Phase |-> "phase", AccessModes |-> "access_modes", Storage |-> "storage"]

PodDisruptionBudgetStatus ==
  [ObservedGeneration |-> "generation_observed", DisruptedPods |-> "disrupted_pods", PodDisruptionsAllowed |-> "allowed_disruptions",
   CurrentHealthy |-> "current_healthy_pods", DesiredHealthy |-> "desired_healthy_pods", ExpectedPods |-> "expected_pods"]

Statuses ==
  [deployment |-> DeploymentStatus, daemon_set |-> DaemonSetStatus, stateful_set |-> StatefulSetStatus, replica_set |-> ReplicaSetStatus,
   replication_controller |-> ReplicationControllerStatus, job |-> JobStatus, cron_job |-> CronJobStatus,
   pvc |-> PersistentVolumeClaimStatus, pdb |-> PodDisruptionBudgetStatus]

\* Each kind has a type of its own for its conditions, with the names that
\* it has a use for.
ControllerCondition ==
  [Type |-> "type", Status |-> "status", LastUpdateTime |-> "timestamp", LastTransitionTime |-> "last_change", Reason |-> "reason",
   Message |-> "message"]

\* The tag of a field hides the same tag in the structs that are embedded:
\* those are neither written nor read, whether the field is empty or not.
Inlined(kind, own, embedded) == own @@ Without(embedded, Range(Specs[kind]))

-----------------------------------------------------------------------------
(***************************************************************************)
(* To Short syntax                                                         *)
(***************************************************************************)
Strategy(type, rolling) == [type |-> type, rolling |-> rolling]

\* A rolling update without options is not told from none.
Rolling(strategy) == IF strategy.rolling = Nil THEN <<>> ELSE strategy.rolling

convertDeploymentStrategy(s) == IF s.type = <<"Recreate">> THEN [Recreate |-> True] ELSE Rolling(s)
convertDaemonSetStrategy(s) == IF s.type = <<"OnDelete">> THEN [OnDelete |-> True] ELSE Rolling(s)
\* Options for a rolling update decide against the type.
convertStatefulSetStrategy(s) == IF s.rolling = Nil /\ s.type = <<"OnDelete">> THEN [OnDelete |-> True] ELSE Rolling(s)

convertStrategy(kind, s) ==
  CASE kind = "deployment" -> convertDeploymentStrategy(s)
    [] kind = "daemon_set" -> convertDaemonSetStrategy(s)
    [] kind = "stateful_set" -> convertStatefulSetStrategy(s)
    [] OTHER -> <<>>

convertPodManagementPolicy == [OrderedReady |-> "ordered", Parallel |-> "parallel"]
convertConcurrencyPolicy == [Allow |-> "allow", Forbid |-> "forbid", Replace |-> "replace"]

convertDeploymentConditionType == [Available |-> "available", Progressing |-> "progressing", ReplicaFailure |-> "replica-failure"]
convertReplicaSetConditionType == [ReplicaFailure |-> "replica-failure"]
convertReplicationControllerConditionType == [ReplicaFailure |-> "replica-failure"]
convertJobConditionType == [Complete |-> "Complete", Failed |-> "Failed"]
convertPVCConditionType == [Resizing |-> "resizing"]

ConditionTypes ==
  [deployment |-> convertDeploymentConditionType, replica_set |-> convertReplicaSetConditionType,
   replication_controller |-> convertReplicationControllerConditionType, job |-> convertJobConditionType, pvc |-> convertPVCConditionType]

\* A condition must have a type.
convertConditions(kind, conditions) ==
  Results(LAMBDA c : {Renamed(t, ControllerCondition) :
                        t \in IF "Type" \notin DOMAIN c THEN {} ELSE TranslatedAll(c, [Type |-> ConditionTypes[kind], Status |-> convertConditionStatus])},
          conditions)

\* The deadline and the limits of a CronJob are not copied.
convertCronJobSpec(f) == Without(f, {"StartingDeadlineSeconds", "SuccessfulJobsHistoryLimit", "FailedJobsHistoryLimit"})

convertAccessMode == [ReadWriteOnce |-> "rw_once", ReadOnlyMany |-> "ro_many", ReadWriteMany |-> "rw_many"]
convertAccessModes(modes) ==
  IF Range(modes) \subseteq DOMAIN convertAccessMode THEN {[i \in DOMAIN modes |-> convertAccessMode[modes[i]]]} ELSE {}

\* Of the resources that are requested, or there are, the storage.
convertStorageRequirement(resources) == Get(resources, "storage")

convertPVCSpec(f) ==
  {Put(Put(Copy(f, {"StorageClassName", "VolumeName"}), "AccessModes", modes), "Storage", convertStorageRequirement(Get(f, "Requests"))) :
     modes \in convertAccessModes(Get(f, "AccessModes"))}

convertPVCPhase == [Pending |-> "pending", Bound |-> "bound", Lost |-> "lost"]

convertPVCStatus(s) ==
  {Put(Put(phase, "AccessModes", modes), "Storage", convertStorageRequirement(Get(s, "Capacity"))) :
     phase \in Translated(Copy(s, {"Phase"}), "Phase", convertPVCPhase),
     modes \in convertAccessModes(Get(s, "AccessModes"))}

\* Numbers are read as numbers that may have a fraction; there is no text
\* for infinity.
convertPDBSpec(f) ==
  {k \in {[n \in DOMAIN f |-> ParseFloatOrString(f[n].text)]} : \A n \in DOMAIN f : k[n].text # <<"+Inf">>}

convertSpec(kind, c) ==
  CASE kind = "cron_job" -> Translated(convertCronJobSpec(c.f), "ConcurrencyPolicy", convertConcurrencyPolicy)
    [] kind = "stateful_set" -> Translated(c.f @@ convertStrategy(kind, c.strategy), "PodManagementPolicy", convertPodManagementPolicy)
    [] kind = "pvc" -> convertPVCSpec(c.f)
    [] kind = "pdb" -> convertPDBSpec(c.f)
    [] OTHER -> {c.f @@ convertStrategy(kind, c.strategy)}

convertTemplate(kind, template) == IF HasTemplate(kind) THEN convertPodFields(template) ELSE {<<>>}

Controller(f, strategy, template, status, conditions, claims) ==
  [f |-> f, strategy |-> strategy, template |-> template, status |-> status, conditions |-> conditions, claims |-> claims]

ConvertStruct(kind, c) ==
  {[f |-> Inlined(kind, Renamed(own, Specs[kind]), Renamed(status, Statuses[kind]) @@ template), condition |-> conditions] :
     own \in convertSpec(kind, c), status \in IF kind = "pvc" THEN convertPVCStatus(c.status) ELSE {c.status},
     template \in convertTemplate(kind, c.template), conditions \in convertConditions(kind, c.conditions)}

convertStatefulSetPVCs(claims) == Results(LAMBDA claim : ConvertStruct("pvc", claim), claims)

ConvertController(kind, c) ==
  {[f |-> k.f, condition |-> k.condition, pvcs |-> pvcs] : k \in ConvertStruct(kind, c), pvcs \in convertStatefulSetPVCs(c.claims)}

-----------------------------------------------------------------------------
(***************************************************************************)
(* To Kubernetes syntax                                                    *)
(***************************************************************************)
\* A variant: the options are written if all of them are given.
revertDeploymentStrategyOfBoth(f) ==
  IF Get(f, "Recreate") = True THEN Strategy(<<"Recreate">>, Nil)
  ELSE Strategy(<<"RollingUpdate">>, IF {"MaxUnavailable", "MaxSurge"} \subseteq DOMAIN f THEN Copy(f, {"MaxUnavailable", "MaxSurge"}) ELSE Nil)

revertDeploymentStrategy(f) ==
  IF Get(f, "Recreate") = True THEN Strategy(<<"Recreate">>, Nil)
  ELSE Strategy(<<"RollingUpdate">>, IF {"MaxUnavailable", "MaxSurge"} \cap DOMAIN f = {} THEN Nil ELSE Copy(f, {"MaxUnavailable", "MaxSurge"}))

revertDaemonSetStrategy(f) ==
  IF Get(f, "OnDelete") = True THEN Strategy(<<"OnDelete">>, Nil)
  ELSE Strategy(<<"RollingUpdate">>, IF "MaxUnavailable" \in DOMAIN f THEN Copy(f, {"MaxUnavailable"}) ELSE Nil)

revertStatefulSetStrategy(f) ==
  IF Get(f, "OnDelete") = True THEN Strategy(<<"OnDelete">>, Nil) ELSE Strategy(<<"RollingUpdate">>, Copy(f, {"Partition"}))

revertStrategy(kind, f) ==
  CASE kind = "deployment" -> revertDeploymentStrategy(f)
    [] kind = "daemon_set" -> revertDaemonSetStrategy(f)
    [] kind = "stateful_set" -> revertStatefulSetStrategy(f)
    [] OTHER -> Strategy(Empty, Nil)

\* What a strategy is made of.
StrategyFields(kind) ==
  CASE kind = "deployment" -> {"Recreate", "MaxUnavailable", "MaxSurge"}
    [] kind = "daemon_set" -> {"OnDelete", "MaxUnavailable"}
    [] kind = "stateful_set" -> {"OnDelete", "Partition"}
    [] OTHER -> {}

revertPodManagementPolicy == [ordered |-> "OrderedReady", parallel |-> "Parallel"]
revertConcurrencyPolicy == [allow |-> "Allow", forbid |-> "Forbid", replace |-> "Replace"]

revertDeploymentConditionType == "available" :> "Available" @@ "progressing" :> "Progressing" @@ "replica-failure" :> "ReplicaFailure"
revertReplicaSetConditionType == "replica-failure" :> "ReplicaFailure"
revertReplicationControllerConditionType == "replica-failure" :> "ReplicaFailure"
revertJobConditionType == [Complete |-> "Complete", Failed |-> "Failed"]
revertPVCConditionType == [resizing |-> "Resizing"]

RevertedConditionTypes ==
  [deployment |-> revertDeploymentConditionType, replica_set |-> revertReplicaSetConditionType,
   replication_controller |-> revertReplicationControllerConditionType, job |-> revertJobConditionType, pvc |-> revertPVCConditionType]

revertConditions(kind, conditions) ==
  Results(LAMBDA k : IF "type" \notin DOMAIN k THEN {}
                     ELSE TranslatedAll(Renamed(k, AntiFunction(ControllerCondition)),
                                        [Type |-> RevertedConditionTypes[kind], Status |-> revertConditionStatus]),
          conditions)

\* A mode that is not known becomes an empty one.
revertAccessMode == "rw_once" :> "ReadWriteOnce" @@ "ro_many" :> "ReadOnlyMany" @@ "rw_many" :> "ReadWriteMany"
revertAccessModes(modes) == [i \in DOMAIN modes |-> IF modes[i] \in DOMAIN revertAccessMode THEN revertAccessMode[modes[i]] ELSE ""]

revertPVCResources(storage) ==
  IF storage = Empty THEN {<<>>} ELSE {[storage |-> q] : q \in {q \in {storage} : IsQuantity(q)}}

revertPVCSpec(k) ==
  {Put(Put(Copy(k, {"StorageClassName", "VolumeName"}), "AccessModes", revertAccessModes(Get(k, "AccessModes"))), "Requests", requests) :
     requests \in revertPVCResources(Get(k, "Storage"))}

revertPVCPhase == [pending |-> "Pending", bound |-> "Bound", lost |-> "Lost"]

revertPVCStatus(k) ==
  {Put(Put(TranslatedOrNone(Copy(k, {"Phase"}), "Phase", revertPVCPhase), "AccessModes", revertAccessModes(Get(k, "AccessModes"))), "Capacity", capacity) :
     capacity \in revertPVCResources(Get(k, "Storage"))}

revertKokiPDBSpec(k) == [n \in DOMAIN k |-> ParsePort(k[n].text)]

revertSpec(kind, own) ==
  CASE kind = "cron_job" -> Translated(own, "ConcurrencyPolicy", revertConcurrencyPolicy)
    [] kind = "stateful_set" -> {Without(TranslatedOrNone(own, "PodManagementPolicy", revertPodManagementPolicy), StrategyFields(kind))}
    [] kind = "pvc" -> revertPVCSpec(own)
    [] kind = "pdb" -> {revertKokiPDBSpec(own)}
    [] OTHER -> {Without(own, StrategyFields(kind))}

\* A template that is empty is none, and only a ReplicationController may
\* have none.
revertTemplate(kind, k) ==
  CASE ~HasTemplate(kind) \/ (kind = "replication_controller" /\ k = <<>>) -> {<<>>}
    [] HasTemplate(kind) /\ k # <<>> -> {Without(f, {"APIVersion"}) : f \in revertPodFields(k, <<>>)}
    [] OTHER -> {}

\* The parts of the object that the fields of a struct read.
Read(kind, k, tags) == Renamed(Without(k.f, Range(Specs[kind])), AntiFunction(tags))
OwnOf(kind, k) == Renamed(k.f, AntiFunction(Specs[kind]))
TemplateOf(kind, k) == Without(k.f, Range(Specs[kind]) \cup Range(Statuses[kind]))

RevertStruct(kind, k) ==
  {Controller(f, revertStrategy(kind, OwnOf(kind, k)), template, status, conditions, <<>>) :
     f \in revertSpec(kind, OwnOf(kind, k)), template \in revertTemplate(kind, TemplateOf(kind, k)),
     status \in LET s == Read(kind, k, Statuses[kind]) IN IF kind = "pvc" THEN revertPVCStatus(s) ELSE {s},
     conditions \in revertConditions(kind, k.condition)}

revertPVCs(pvcs) == Results(LAMBDA pvc : RevertStruct("pvc", pvc), pvcs)

RevertController(kind, k) == {[c EXCEPT !.claims = claims] : c \in RevertStruct(kind, k), claims \in revertPVCs(k.pvcs)}
=============================================================================
