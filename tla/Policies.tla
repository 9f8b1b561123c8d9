------------------------------ MODULE Policies ------------------------------
(***************************************************************************)
(* Policies in both syntaxes, and their conversion: PodSecurityPolicies,   *)
(* the configurations of admission webhooks, roles and their bindings, and *)
(* autoscalers.  The head of each (version, kind and metadata) is in       *)
(* module Kinds.  A conversion is the set of its possible results, empty   *)
(* if it fails.                                                            *)
(***************************************************************************)
EXTENDS Pods

-----------------------------------------------------------------------------
(***************************************************************************)
(* PodSecurityPolicies: their fields f, and the lists that are converted   *)
(* member by member.  SELinuxRule is the Rule of SELinux, selinux_policy   *)
(* the policy of selinux_policy, and so on.                                *)
(***************************************************************************)
PodSecurityPolicy ==
  [Privileged |-> "privileged", AllowedCapabilities |-> "cap_allow", RequiredDropCapabilities |-> "cap_deny",
   DefaultAddCapabilities |-> "cap_default", HostPorts |-> "host_port_ranges", ReadOnlyRootFilesystem |-> "rootfs_ro",
   AllowPrivilegeEscalation |-> "allow_escalation", DefaultAllowPrivilegeEscalation |-> "allow_escalation_default",
   SELinuxRule |-> "selinux_policy", SELinuxUser |-> "selinux_user", SELinuxRole |-> "selinux_role", SELinuxType |-> "selinux_type",
   SELinuxLevel |-> "selinux_level", RunAsUserRule |-> "uid_policy", RunAsUserRanges |-> "uid_ranges",
   SupplementalGroupsRule |-> "gid_policy", SupplementalGroupsRanges |-> "gid_ranges",
   FSGroupRule |-> "fsgid_policy", FSGroupRanges |-> "fsgid_ranges"]

convertSELinuxRule == [MustRunAs |-> "must_be", RunAsAny |-> "*"]
convertGIDRule     == [MustRunAs |-> "must_be", RunAsAny |-> "*"]
convertFSGIDRule   == [MustRunAs |-> "must_be", RunAsAny |-> "*"]
convertUIDRule     == [MustRunAs |-> "must_be", RunAsAny |-> "*", MustRunAsNonRoot |-> "non_root"]
convertRules ==
  [SELinuxRule |-> convertSELinuxRule, RunAsUserRule |-> convertUIDRule, SupplementalGroupsRule |-> convertGIDRule,
   FSGroupRule |-> convertFSGIDRule]

convertVolumePlugin ==
  Over([azureFile |-> "azure_file", flocker |-> "flocker", flexVolume |-> "flex", hostPath |-> "host_path", emptyDir |-> "empty_dir",
        gcePersistentDisk |-> "gce_pd", awsElasticBlockStore |-> "aws_ebs", gitRepo |-> "git", secret |-> "secret", nfs |-> "nfs",
        iscsi |-> "iscsi", glusterfs |-> "glusterfs", persistentVolumeClaim |-> "pvc", rbd |-> "rbd", cinder |-> "cinder",
        cephFS |-> "cephfs", downwardAPI |-> "downward_api", fc |-> "fc", configMap |-> "config-map", quobyte |-> "quobyte",
        azureDisk |-> "azure_disk"],
       [all \in {"*"} |-> "*"])

revertVolumePlugin == AntiFunction(convertVolumePlugin)

\* Plugins one by one; an empty name stays empty.
Plugins(names, table) ==
  Results(LAMBDA name : IF name = Empty THEN {Empty} ELSE {<<table[v]>> : v \in {w \in DOMAIN table : name = <<w>>}}, names)

ConvertPodSecurityPolicy(p) ==
  {[f |-> Renamed(t, PodSecurityPolicy), vol_plugins |-> plugins, host_mode |-> convertHostMode(p.f),
    host_paths_allowed |-> NotEmpty(p.paths), flex_volumes_allowed |-> NotEmpty(p.drivers)] :
     t \in TranslatedAll(p.f, convertRules),
     plugins \in Plugins(p.volumes, convertVolumePlugin)}

revertSELinuxRule == [rule \in {"must_be", "*"} |-> IF rule = "must_be" THEN "MustRunAs" ELSE "RunAsAny"]
revertGIDRule     == [rule \in {"must_be", "*"} |-> IF rule = "must_be" THEN "MustRunAs" ELSE "RunAsAny"]
revertFSGIDRule   == [rule \in {"must_be", "*"} |-> IF rule = "must_be" THEN "MustRunAs" ELSE "RunAsAny"]
\* There is no way back from non_root.
revertUIDRule     == [rule \in {"must_be", "*"} |-> IF rule = "must_be" THEN "MustRunAs" ELSE "RunAsAny"]
revertRules ==
  [selinux_policy |-> revertSELinuxRule, uid_policy |-> revertUIDRule, gid_policy |-> revertGIDRule, fsgid_policy |-> revertFSGIDRule]

\* The role is tested twice and the type never: a type alone is lost.
revertSELinuxOptions(f) ==
  IF {"SELinuxUser", "SELinuxRole", "SELinuxLevel"} \cap DOMAIN f = {} THEN Without(f, {"SELinuxType"}) ELSE f

RevertPodSecurityPolicy(k) ==
  {[f |-> Over(revertSELinuxOptions(Renamed(t, AntiFunction(PodSecurityPolicy))), modes), volumes |-> plugins,
    paths |-> k.host_paths_allowed, drivers |-> k.flex_volumes_allowed] :
     t \in TranslatedAll(k.f, revertRules),
     plugins \in Plugins(k.vol_plugins, revertVolumePlugin), modes \in revertHostModes(k.host_mode)}

-----------------------------------------------------------------------------
(***************************************************************************)
(* Webhooks: in Kubernetes syntax a list, in Short a map from their names. *)
(* A service is written ns/name:path, and a rule with one group, version,  *)
(* resource and text of operations group/version/resource/operations.      *)
(***************************************************************************)
KubeWebhook(name, f, service, rules, selector) ==
  [name |-> name, f |-> f, service |-> service, rules |-> rules, selector |-> selector]
KubeRule(groups, versions, resources, operations) ==
  [groups |-> groups, versions |-> versions, resources |-> resources, operations |-> operations]
ServiceReference(ns, name, path) == [ns |-> ns, name |-> name, path |-> path]

Webhook == [URL |-> "client", CABundle |-> "caBundle", FailurePolicy |-> "on_fail"]

Operations == {<<"CREATE">>, <<"UPDATE">>, <<"DELETE">>, <<"CONNECT">>}

\* A variant: CONNECT is forgotten.
convertOperationsForgetting(operations) ==
  IF Operations \ {<<"CONNECT">>} \subseteq Range(operations) THEN <<"*">> ELSE Join(operations, "|")

convertOperations(operations) == IF Operations \subseteq Range(operations) THEN <<"*">> ELSE Join(operations, "|")

\* Written as a text, or as an object of lists, of which none may be empty.
MarshalRule(r) ==
  IF \E part \in DOMAIN r : r[part] = <<>> THEN {}
  ELSE IF \A part \in DOMAIN r : Len(r[part]) = 1
  THEN {[text |-> Join(<<r.groups[1], r.versions[1], r.resources[1], r.operations[1]>>, "/")]}
  ELSE {[lists |-> r]}

\* strings.SplitN(s, "/", 4)
SplitInFour(s) ==
  LET parts == Split(s, "/")
  IN  IF Len(parts) <= 4 THEN parts ELSE SubSeq(parts, 1, 3) \o <<Join(SubSeq(parts, 4, Len(parts)), "/")>>

\* What was read is written again to look for fields that are not known, so
\* an empty list is refused here too.
UnmarshalRule(written) ==
  IF "lists" \in DOMAIN written THEN {r \in {written.lists} : MarshalRule(r) # {}}
  ELSE LET parts == SplitInFour(written.text)
       IN  CASE Len(parts) = 4 -> {KubeRule(<<parts[1]>>, <<parts[2]>>, <<parts[3]>>, <<parts[4]>>)}
             [] Len(parts) = 3 -> {KubeRule(<<Empty>>, <<parts[1]>>, <<parts[2]>>, <<parts[3]>>)}
             [] OTHER -> {}

\* A service without a path is a nil pointer.
convertService(s) ==
  CASE s = Nil -> {Empty}
    [] s # Nil /\ s.path = Nil -> {}
    [] OTHER -> {s.ns \o <<"/">> \o s.name \o <<":">> \o s.path}

\* An empty selector and none are both written as null, and read as none.
WrittenRSSelector(rs) == IF rs.shorthand = <<>> /\ rs.labels = Nil THEN Nil ELSE rs

convertWebhook(w) ==
  {[name |-> w.name, f |-> Renamed(w.f, Webhook), service |-> service, selector |-> WrittenRSSelector(c.selector),
    rules |-> [i \in DOMAIN w.rules |-> [w.rules[i] EXCEPT !.operations = <<convertOperations(@)>>]]] :
     service \in convertService(w.service), c \in convertRSLabelSelector(w.selector, Nil)}

\* What is written is the map, in which the last of a name counts.
ConvertWebhooks(list) ==
  UNION {Results(LAMBDA k : {[k EXCEPT !.rules = rules] : rules \in Results(MarshalRule, k.rules)}, LastOf(hooks)) :
           hooks \in Results(convertWebhook, list)}

revertService(text) ==
  LET parts == Split(text, ":")
      names == Split(parts[1], "/")
      s     == ServiceReference(names[1], IF Len(names) > 1 THEN names[2] ELSE Empty, IF Len(parts) > 1 THEN parts[2] ELSE Nil)
  IN  IF s = ServiceReference(Empty, Empty, Nil) THEN Nil ELSE s

\* What is not known is left out.
revertOperations(texts) ==
  FlattenSeq([i \in DOMAIN texts |-> IF texts[i] \in Operations \cup {<<"*">>} THEN <<texts[i]>> ELSE <<>>])

\* Only the first of the operations counts.
revertRule(r) == [r EXCEPT !.operations = revertOperations(Split(@[1], "|"))]

\* An error of the selector is ignored: there is none then.
revertWebhookSelector(rs) ==
  IF revertRSSelector(rs, Nil) = {} THEN Nil ELSE WrittenSelector((CHOOSE r \in revertRSSelector(rs, Nil) : TRUE).selector)

revertMWC(k) ==
  {KubeWebhook(k.name, Renamed(k.f, AntiFunction(Webhook)), revertService(k.service), [i \in DOMAIN rules |-> revertRule(rules[i])],
               revertWebhookSelector(k.selector)) :
     rules \in Results(UnmarshalRule, k.rules)}

\* The names are those in the webhooks, not the keys, which are taken in the
\* order of a Go map.
RevertWebhooks(hooks) ==
  {[i \in DOMAIN keys |-> list[keys[i]]] : keys \in SetToSeqs(DOMAIN hooks), list \in Results(revertMWC, hooks)}

-----------------------------------------------------------------------------
(***************************************************************************)
(* Roles, bindings and autoscalers.  A reference is written                *)
(* [group.]kind:[ns:]name; the colons of a binding's names are escaped.    *)
(***************************************************************************)
\* A variant: the escape character is not escaped.
EscapeNameColonsOnly(name) == FlattenSeq([i \in DOMAIN name |-> IF name[i] = ":" THEN <<"\\", name[i]>> ELSE <<name[i]>>])

EscapeName(name) == FlattenSeq([i \in DOMAIN name |-> IF name[i] \in {"\\", ":"} THEN <<"\\", name[i]>> ELSE <<name[i]>>])

\* Is the token at i escaped by the one before it?  escaped[n] is isEscaped
\* after n tokens.
IsEscaped(s, i) ==
  LET escaped[n \in 0..Len(s)] == n # 0 /\ s[n] = "\\" /\ ~escaped[n - 1]
  IN  escaped[i - 1]

UnescapeName(s) ==
  FlattenSeq([i \in DOMAIN s |-> IF s[i] = "\\" /\ ~IsEscaped(s, i) THEN Empty ELSE <<s[i]>>])

SplitAtUnescapedColons(s) == SplitAt(s, {i \in DOMAIN s : s[i] = ":" /\ ~IsEscaped(s, i)})

\* Either side of the last dot; without one, there is no group.
SplitGroupKind(s) ==
  LET dots == {i \in DOMAIN s : s[i] = "."}
  IN  IF dots = {} THEN [group |-> Empty, kind |-> s]
      ELSE [group |-> SubSeq(s, 1, Max(dots) - 1), kind |-> SubSeq(s, Max(dots) + 1, Len(s))]

Reference(group, kind, ns, name) == [group |-> group, kind |-> kind, ns |-> ns, name |-> name]

GroupKind(r) == (IF r.group = Empty THEN Empty ELSE r.group \o <<".">>) \o r.kind

MarshalSubject(r) == GroupKind(r) \o (IF r.ns = Empty THEN Empty ELSE <<":">> \o r.ns) \o <<":">> \o EscapeName(r.name)

UnmarshalSubject(s) ==
  LET segments == SplitAtUnescapedColons(s)
      gk       == SplitGroupKind(segments[1])
  IN  CASE Len(segments) = 2 -> {Reference(gk.group, gk.kind, Empty, UnescapeName(segments[2]))}
        [] Len(segments) = 3 -> {Reference(gk.group, gk.kind, segments[2], UnescapeName(segments[3]))}
        [] OTHER -> {}

MarshalRoleRef(r) == GroupKind(r) \o <<":">> \o EscapeName(r.name)

\* A group is required here, and may be left out where it is written.
UnmarshalRoleRef(s) ==
  LET segments == SplitAtUnescapedColons(s)
      gk       == SplitGroupKind(segments[1])
  IN  IF Len(segments) = 2 /\ "." \in Range(segments[1]) THEN {Reference(gk.group, gk.kind, Empty, UnescapeName(segments[2]))} ELSE {}

ConvertBinding(b) == {[subjects |-> [i \in DOMAIN b.subjects |-> MarshalSubject(b.subjects[i])], role |-> MarshalRoleRef(b.role)]}

RevertBinding(k) ==
  {[subjects |-> subjects, role |-> role] : subjects \in Results(UnmarshalSubject, k.subjects), role \in UnmarshalRoleRef(k.role)}

\* The group of an autoscaler's target is its API version.
MarshalTarget(r) == GroupKind(r) \o <<":">> \o r.name

UnmarshalTarget(s) ==
  LET segments == Split(s, ":")
      gk       == SplitGroupKind(segments[1])
  IN  IF Len(segments) = 2 THEN {Reference(gk.group, gk.kind, Empty, segments[2])} ELSE {}

HorizontalPodAutoscaler ==
  [MinReplicas |-> "min", MaxReplicas |-> "max", TargetCPUUtilizationPercentage |-> "percent_cpu",
   ObservedGeneration |-> "generation_observed", LastScaleTime |-> "last_scaling", CurrentReplicas |-> "current",
   DesiredReplicas |-> "desired", CurrentCPUUtilizationPercentage |-> "current_percent_cpu"]

ConvertHPA(h) == {[f |-> Renamed(h.f, HorizontalPodAutoscaler), ref |-> MarshalTarget(h.target)]}

RevertHPA(k) == {[f |-> Renamed(k.f, AntiFunction(HorizontalPodAutoscaler)), target |-> target] : target \in UnmarshalTarget(k.ref)}

PolicyRule ==
  [Verbs |-> "verbs", APIGroups |-> "groups", Resources |-> "resources", ResourceNames |-> "resource_names",
   NonResourceURLs |-> "non_resource_urls"]

convertPolicyRules(rules) == [i \in DOMAIN rules |-> Renamed(rules[i], PolicyRule)]
revertPolicyRules(rules) == [i \in DOMAIN rules |-> Renamed(rules[i], AntiFunction(PolicyRule))]

\* An aggregation without selectors is none.
convertClusterRoleAggregation(selectors) ==
  IF selectors \in {Nil, <<>>} THEN {Nil} ELSE Results(UnparseLabelSelector, selectors)

revertClusterRoleAggregation(texts) ==
  IF texts \in {Nil, <<>>} THEN {Nil}
  ELSE Results(LAMBDA s : IF Parses(s) THEN {WrittenSelector(ParseLabelSelector(s))} ELSE {}, texts)

ConvertClusterRole(r) ==
  {[rules |-> convertPolicyRules(r.rules), aggregation |-> a] : a \in convertClusterRoleAggregation(r.aggregation)}
RevertClusterRole(k) ==
  {[rules |-> revertPolicyRules(k.rules), aggregation |-> a] : a \in revertClusterRoleAggregation(k.aggregation)}
=============================================================================
