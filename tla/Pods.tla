-------------------------------- MODULE Pods --------------------------------
(***************************************************************************)
(* Pods in both syntaxes, and their conversion.                            *)
(*                                                                         *)
(* A pod is its volumes, its placement, its containers, and fields f.  In  *)
(* Kubernetes syntax the fields of its spec, its metadata, its status and  *)
(* its security context are all in f.  The converters of a pod also serve  *)
(* the pod templates of the other kinds.                                   *)
(***************************************************************************)
EXTENDS PersistentVolumes, Placement, Containers

-----------------------------------------------------------------------------
(***************************************************************************)
(* To Short syntax                                                         *)
(***************************************************************************)
PodTemplateMeta ==
  [Name |-> "name", Namespace |-> "namespace", ClusterName |-> "cluster", Labels |-> "labels", Annotations |-> "annotations"]

PodTemplate ==
  [RestartPolicy |-> "restart_policy", TerminationGracePeriodSeconds |-> "termination_grace_period",
   ActiveDeadlineSeconds |-> "active_deadline", DNSPolicy |-> "dns_policy", NodeName |-> "node", FSGroup |-> "fs_gid",
   SupplementalGroups |-> "gids", SchedulerName |-> "scheduler_name", Priority |-> "priority.value",
   PriorityClassName |-> "priority.class"]

PodStatus ==
  [APIVersion |-> "version", HostIP |-> "node_ip", StartTime |-> "start_time", Message |-> "msg", Phase |-> "phase", PodIP |-> "ip",
   QOSClass |-> "qos", Reason |-> "reason"]

\* All the fields of a pod that are its own.
PodTags == Over(PodTemplateMeta, Over(PodTemplate, PodStatus))

PodCondition ==
  [LastProbeTime |-> "last_probe_time", LastTransitionTime |-> "last_change", Message |-> "msg", Reason |-> "reason",
   Status |-> "status", Type |-> "type"]

convertDNSPolicy ==
  [ClusterFirstWithHostNet |-> "cluster-first-with-host-net", ClusterFirst |-> "cluster-first", Default |-> "default"]
convertRestartPolicy == [Always |-> "always", OnFailure |-> "on-failure", Never |-> "never"]
convertPhase ==
  [Pending |-> "pending", Running |-> "running", Succeeded |-> "succeeded", Failed |-> "failed", Unknown |-> "unknown"]
convertPodQOSClass == [Guaranteed |-> "guaranteed", Burstable |-> "burstable", BestEffort |-> "best-effort"]
convertPodConditionType ==
  [PodScheduled |-> "scheduled", Ready |-> "ready", Initialized |-> "initialized", Unschedulable |-> "unschedulable"]
convertConditionStatus == [True |-> "true", False |-> "false", Unknown |-> "unknown"]

convertPodConditions(conditions) ==
  Results(LAMBDA c : {Renamed(t, PodCondition) : t \in TranslatedAll(c, [Type |-> convertPodConditionType, Status |-> convertConditionStatus])},
          conditions)

\* An alias without an address or without names is left out.
convertHostAliases(aliases) ==
  FlattenSeq([i \in DOMAIN aliases |->
    IF aliases[i].ip = Empty \/ aliases[i].names = <<>> THEN <<>> ELSE <<Join(<<aliases[i].ip>> \o aliases[i].names, " ")>>])

convertHostMode(f) ==
  LET mode(name, text) == IF name \in DOMAIN f THEN << <<text>> >> ELSE <<>>
  IN  mode("HostNetwork", "net") \o mode("HostPID", "pid") \o mode("HostIPC", "ipc")

\* subdomain.hostname
convertHostname(f) == (IF "Subdomain" \in DOMAIN f THEN f.Subdomain \o <<".">> ELSE Empty) \o Get(f, "Hostname")

\* A variant: the flag is written as it is.
convertServiceAccountFlagged(f) ==
  Get(f, "ServiceAccountName")
    \o (IF "AutomountServiceAccountToken" \in DOMAIN f THEN <<":">> \o f.AutomountServiceAccountToken ELSE Empty)

\* account or account:auto; false is not told from nothing.
convertServiceAccount(f) ==
  Get(f, "ServiceAccountName") \o (IF Get(f, "AutomountServiceAccountToken") = True THEN <<":", "auto">> ELSE Empty)

SecurityFields == {"SELinuxOptions", "RunAsUser", "RunAsGroup", "RunAsNonRoot"}

\* A variant: the pod's security context replaces the container's.
InheritedOverriding(f, k) == [k EXCEPT !.f = Renamed(Copy(f, SecurityFields), Container) @@ @]

\* A container gets what it lacks from the pod's security context.
Inherited(f, k) == [k EXCEPT !.f = @ @@ Renamed(Copy(f, SecurityFields), Container)]

\* The fields of a pod but for the lists; convertPodSpec, and the metadata
\* and the status.
convertPodFields(f) ==
  {Put(Put(Renamed(t, PodTags), "hostname", convertHostname(f)), "account", convertServiceAccount(f)) :
     t \in TranslatedAll(f, [DNSPolicy |-> convertDNSPolicy, RestartPolicy |-> convertRestartPolicy, Phase |-> convertPhase,
                             QOSClass |-> convertPodQOSClass])}

KokiPod(f, aliases, registries, modes, conditions, volumes, affinity, tolerations, init, containers) ==
  [syntax |-> "koki", kind |-> "pod", f |-> f, host_aliases |-> aliases, registry_secrets |-> registries, host_mode |-> modes,
   condition |-> conditions, volumes |-> volumes, affinity |-> affinity, tolerations |-> tolerations, init_containers |-> init,
   containers |-> containers]

convertPodSpec(d) ==
  {[volumes |-> volumes, affinity |-> affinity, tolerations |-> tolerations, init |-> init,
    containers |-> [i \in DOMAIN containers |-> Inherited(d.f, containers[i])]] :
     volumes \in convertVolumes(d.vols), affinity \in convertAffinity(d), tolerations \in convertTolerations(d.tolerations),
     init \in Results(convertContainer, d.init), containers \in Results(convertContainer, d.containers)}

ConvertPod(d) ==
  {KokiPod(f, convertHostAliases(d.aliases), d.registries, convertHostMode(d.f), conditions, spec.volumes, spec.affinity, spec.tolerations,
           spec.init, convertContainerStatuses(d.initStatuses \o d.statuses, spec.containers)) :
     f \in convertPodFields(d.f), conditions \in convertPodConditions(d.conditions), spec \in convertPodSpec(d)}

-----------------------------------------------------------------------------
(***************************************************************************)
(* To Kubernetes syntax                                                    *)
(***************************************************************************)
revertDNSPolicy ==
  [policy \in {"cluster-first-with-host-net", "cluster-first", "default"} |->
     CASE policy = "cluster-first-with-host-net" -> "ClusterFirstWithHostNet"
       [] policy = "cluster-first" -> "ClusterFirst"
       [] policy = "default" -> "Default"]
revertRestartPolicy ==
  [policy \in {"always", "on-failure", "never"} |->
     CASE policy = "always" -> "Always" [] policy = "on-failure" -> "OnFailure" [] policy = "never" -> "Never"]
revertPodPhase ==
  [pending |-> "Pending", running |-> "Running", succeeded |-> "Succeeded", failed |-> "Failed", unknown |-> "Unknown"]
revertQOSClass ==
  [class \in {"guaranteed", "burstable", "best-effort"} |->
     CASE class = "guaranteed" -> "Guaranteed" [] class = "burstable" -> "Burstable" [] class = "best-effort" -> "BestEffort"]
revertPodConditionType ==
  [scheduled |-> "PodScheduled", ready |-> "Ready", initialized |-> "Initialized", unschedulable |-> "Unschedulable"]
revertConditionStatus == [true |-> "True", false |-> "False", unknown |-> "Unknown"]

revertPodConditions(conditions) ==
  Results(LAMBDA k : TranslatedAll(Renamed(k, AntiFunction(PodCondition)), [Type |-> revertPodConditionType, Status |-> revertConditionStatus]),
          conditions)

revertHostAliases(aliases) ==
  Results(LAMBDA a : LET fields == SplitInTwo(a, " ")
                     IN  IF Len(fields) # 2 THEN {}
                         ELSE {[ip |-> fields[1], names |-> NotEmpty(Split(fields[2], " "))]}, aliases)

HostModes == [HostNetwork |-> <<"net">>, HostPID |-> <<"pid">>, HostIPC |-> <<"ipc">>]
revertHostModes(modes) ==
  IF ~(Range(modes) \subseteq Range(HostModes)) THEN {} ELSE {[name \in {n \in DOMAIN HostModes : HostModes[n] \in Range(modes)} |-> True]}

revertServiceAccount(account) ==
  LET fields == Split(account, ":")
  IN  CASE Len(fields) = 1 -> {Put(<<>>, "ServiceAccountName", account)}
        [] Len(fields) = 2 /\ fields[2] = <<"auto">> -> {Put([AutomountServiceAccountToken |-> True], "ServiceAccountName", fields[1])}
        [] OTHER -> {}

\* A variant: the host name is first.
revertHostnameFirst(text) ==
  LET fields == SplitInTwo(text, ".")
  IN  IF Len(fields) = 1 THEN Put(<<>>, "Hostname", text) ELSE Put(Put(<<>>, "Hostname", fields[1]), "Subdomain", fields[2])

revertHostname(text) ==
  LET fields == SplitInTwo(text, ".")
  IN  IF Len(fields) = 1 THEN Put(<<>>, "Hostname", text) ELSE Put(Put(<<>>, "Hostname", fields[2]), "Subdomain", fields[1])

revertPodFields(f, modes) ==
  {Over(Renamed(t, AntiFunction(PodTags)), Over(revertHostname(Get(f, "hostname")), Over(account, Over(mode, [APIVersion |-> <<"v1">>])))) :
     t \in TranslatedAll(f, [dns_policy |-> revertDNSPolicy, restart_policy |-> revertRestartPolicy, phase |-> revertPodPhase,
                             qos |-> revertQOSClass]),
     account \in revertServiceAccount(Get(f, "account")), mode \in revertHostModes(modes)}

KubePod(f, aliases, registries, conditions, vols, nodeSelector, affinity, tolerations, init, containers, initStatuses, statuses) ==
  [syntax |-> "kube", kind |-> "pod", f |-> f, aliases |-> aliases, registries |-> registries, conditions |-> conditions, vols |-> vols,
   nodeSelector |-> nodeSelector, nodes |-> affinity.nodes, pods |-> affinity.pods, antipods |-> affinity.antipods,
   tolerations |-> tolerations, init |-> init, containers |-> containers, initStatuses |-> initStatuses, statuses |-> statuses]

revertPodSpec(k) ==
  {[vols |-> vols, affinity |-> affinity, tolerations |-> tolerations, init |-> init, containers |-> containers] :
     vols \in revertVolumes(k.volumes), affinity \in ConvertKokiAffinity(k.affinity), tolerations \in revertTolerations(k.tolerations),
     init \in Results(revertKokiContainer, k.init_containers), containers \in Results(revertKokiContainer, k.containers)}

\* An init container always has a status, another if it has an ID.
revertInitStatuses(containers) == [i \in DOMAIN containers |-> revertContainerStatus(containers[i])]
revertStatuses(containers) == SelectSeq(revertInitStatuses(containers), LAMBDA s : "ContainerID" \in DOMAIN s)

RevertPod(k) ==
  {KubePod(f, aliases, k.registry_secrets, conditions, spec.vols, Nil, spec.affinity, spec.tolerations, spec.init, spec.containers,
           revertInitStatuses(k.init_containers), revertStatuses(k.containers)) :
     f \in revertPodFields(k.f, k.host_mode), aliases \in revertHostAliases(k.host_aliases),
     conditions \in revertPodConditions(k.condition), spec \in revertPodSpec(k)}

=============================================================================
