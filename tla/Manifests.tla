----------------------------- MODULE Manifests ------------------------------
(***************************************************************************)
(* Runs of short that convert a manifest there and back: each run is given *)
(* what the one before it wrote, in either syntax.  The manifests are the  *)
(* pods, PersistentVolumes, policies, controllers and other resources of   *)
(* the modules below.                                                      *)
(***************************************************************************)
EXTENDS Resources

CONSTANT FirstDocs   \* the documents short may be given first

-----------------------------------------------------------------------------
(***************************************************************************)
(* What the API server accepts of roles, bindings, autoscalers and         *)
(* PodSecurityPolicies.                                                    *)
(***************************************************************************)
\* An object that has no fields but those named.
IsObject(f, names) == f = [n \in DOMAIN f |-> f[n]] /\ DOMAIN f \subseteq names

\* A list, or a text, which is a sequence of tokens.
IsSequence(s) == Len(s) \in Nat /\ s = [i \in 1..Len(s) |-> s[i]]

\* A group and a namespace are the names of domains, and a kind is one word;
\* the name of a subject or a role may be anything.
IsReference(r) ==
  /\ r = Reference(r.group, r.kind, r.ns, r.name)
  /\ \A part \in DOMAIN r : IsSequence(r[part])
  /\ \A part \in {"group", "kind", "ns"} : {":", "\\"} \cap Range(r[part]) = {}
  /\ "." \notin Range(r.kind)

\* One that has no place for a namespace.
IsLocalReference(r) == IsReference(r) /\ r.ns = Empty

IsBinding(b) ==
  /\ b = [subjects |-> b.subjects, role |-> b.role]
  /\ IsSequence(b.subjects) /\ \A i \in DOMAIN b.subjects : IsReference(b.subjects[i])
  /\ IsLocalReference(b.role)

IsAutoscaler(h) == h = [f |-> h.f, target |-> h.target] /\ IsObject(h.f, DOMAIN HorizontalPodAutoscaler) /\ IsLocalReference(h.target)

\* Where no operator is between a key and values, both are a key.
KeysJoin(sel) == \A i \in DOMAIN sel.exprs : Joined(sel.exprs[i].key, sel.exprs[i].values) \in Key

IsRole(r) ==
  /\ r = [rules |-> r.rules, aggregation |-> r.aggregation]
  /\ IsSequence(r.rules) /\ \A i \in DOMAIN r.rules : IsObject(r.rules[i], DOMAIN PolicyRule)
  /\ r.aggregation \in Seq(AnySelector) \cup {Nil}
  /\ r.aggregation # Nil => \A i \in DOMAIN r.aggregation : KeysJoin(r.aggregation[i])

IsPolicy(p) ==
  /\ p = [f |-> p.f, volumes |-> p.volumes, paths |-> p.paths, drivers |-> p.drivers]
  /\ IsObject(p.f, DOMAIN PodSecurityPolicy \cup DOMAIN HostModes)
  /\ \A n \in DOMAIN p.f \cap DOMAIN HostModes : p.f[n] = True
  /\ IsSequence(p.volumes) /\ IsSequence(p.paths) /\ IsSequence(p.drivers)

IsTexts(list) == IsSequence(list) /\ \A i \in DOMAIN list : IsSequence(list[i])

\* An operation is one word.
IsWebhookRule(r) ==
  /\ r = KubeRule(r.groups, r.versions, r.resources, r.operations)
  /\ \A part \in DOMAIN r : IsTexts(r[part])
  /\ \A i \in DOMAIN r.operations : {"/", "|"} \cap Range(r.operations[i]) = {}

\* A namespace and a name are labels of a domain.
IsService(s) ==
  /\ s = ServiceReference(s.ns, s.name, s.path)
  /\ IsSequence(s.ns) /\ IsSequence(s.name) /\ {":", "/"} \cap (Range(s.ns) \cup Range(s.name)) = {}
  /\ s.path # Nil => IsSequence(s.path)

IsWebhook(w) ==
  /\ w = KubeWebhook(w.name, w.f, w.service, w.rules, w.selector)
  /\ IsObject(w.f, DOMAIN Webhook)
  /\ w.service # Nil => IsService(w.service)
  /\ IsSequence(w.rules) /\ \A i \in DOMAIN w.rules : IsWebhookRule(w.rules[i])
  /\ w.selector \in AnySelector \cup {Nil}
  /\ w.selector # Nil => KeysJoin(w.selector)

\* A host name, a subdomain and an account are names, and a field that is
\* there is not empty.
IsPodFields(f) ==
  /\ IsObject(f, DOMAIN PodTags \cup DOMAIN HostModes \cup SecurityFields
                   \cup {"Hostname", "Subdomain", "ServiceAccountName", "AutomountServiceAccountToken"})
  /\ \A n \in DOMAIN f \cap DOMAIN HostModes : f[n] = True
  /\ \A n \in DOMAIN f \cap {"Hostname", "Subdomain", "ServiceAccountName"} : IsSequence(f[n]) /\ f[n] # Empty
  /\ "AutomountServiceAccountToken" \in DOMAIN f => f.AutomountServiceAccountToken \in {True, False}

IsAlias(a) ==
  /\ a = [ip |-> a.ip, names |-> a.names]
  /\ IsSequence(a.ip) /\ " " \notin Range(a.ip)
  /\ IsTexts(a.names) /\ \A i \in DOMAIN a.names : a.names[i] # Empty /\ " " \notin Range(a.names[i])

\* The pod's own fields.
IsPod(d) ==
  /\ IsPodFields(d.f) /\ "APIVersion" \in DOMAIN d.f
  /\ IsSequence(d.aliases) /\ \A i \in DOMAIN d.aliases : IsAlias(d.aliases[i])
  /\ IsSequence(d.conditions) /\ \A i \in DOMAIN d.conditions : IsObject(d.conditions[i], DOMAIN PodCondition)

ASSUME PodAssumption == \A d \in FirstDocs : d.syntax = "kube" /\ d.kind = "pod" => IsPod(d)

ASSUME AccessAssumption ==
  \A d \in FirstDocs :
    d.syntax = "kube" =>
      /\ d.kind = "binding" => IsBinding(d.body)
      /\ d.kind = "hpa" => IsAutoscaler(d.body)
      /\ d.kind = "cluster_role" => IsRole(d.body)
      /\ d.kind = "pod_security_policy" => IsPolicy(d.body)
      /\ d.kind = "webhooks" => IsSequence(d.body) /\ \A i \in DOMAIN d.body : IsWebhook(d.body[i])

\* No list of selectors is Nil, in either syntax.
ASSUME NilListAssumption == Nil \notin Seq(AnySelector) \cup Seq(Seq(AnySegment))

-----------------------------------------------------------------------------

VARIABLES
  first,         \* what the first run was given
  doc,           \* what the next run is given
  kube, koki,    \* the latest documents before doc in either syntax, or Nil
  refused        \* has a run failed?

vars == <<first, doc, kube, koki, refused>>

-----------------------------------------------------------------------------
(***************************************************************************)
(* The runs                                                                *)
(***************************************************************************)
\* Every manifest but a pod's.
Manifest(syntax, kind, body) == [syntax |-> syntax, kind |-> kind, body |-> body]

Converted(kind, body) ==
  CASE kind = "persistent_volume" -> ConvertPersistentVolume(body)
    [] kind = "pod_security_policy" -> ConvertPodSecurityPolicy(body)
    [] kind = "webhooks" -> ConvertWebhooks(body)
    [] kind = "binding" -> ConvertBinding(body)
    [] kind = "cluster_role" -> ConvertClusterRole(body)
    [] kind = "hpa" -> ConvertHPA(body)
    [] kind \in ControllerKinds -> ConvertController(kind, body)
    [] kind \in ResourceKinds -> ConvertResource(kind, body)

Reverted(kind, body) ==
  CASE kind = "persistent_volume" -> RevertPersistentVolume(body)
    [] kind = "pod_security_policy" -> RevertPodSecurityPolicy(body)
    [] kind = "webhooks" -> RevertWebhooks(body)
    [] kind = "binding" -> RevertBinding(body)
    [] kind = "cluster_role" -> RevertClusterRole(body)
    [] kind = "hpa" -> RevertHPA(body)
    [] kind \in ControllerKinds -> RevertController(kind, body)
    [] kind \in ResourceKinds -> RevertResource(kind, body)

Init ==
  /\ first \in FirstDocs
  /\ doc = first
  /\ kube = Nil
  /\ koki = Nil
  /\ refused = FALSE

Becomes(results) ==
  /\ \/ \E d \in results : doc' = d /\ UNCHANGED refused
     \/ results = {} /\ refused' = TRUE /\ UNCHANGED doc
  /\ UNCHANGED first

ToKoki ==
  /\ ~refused
  /\ doc.syntax = "kube"
  /\ Becomes(IF doc.kind = "pod" THEN ConvertPod(doc) ELSE {Manifest("koki", doc.kind, k) : k \in Converted(doc.kind, doc.body)})
  /\ kube' = doc
  /\ UNCHANGED koki

ToKube ==
  /\ ~refused
  /\ doc.syntax = "koki"
  /\ Becomes(IF doc.kind = "pod" THEN RevertPod(doc) ELSE {Manifest("kube", doc.kind, k) : k \in Reverted(doc.kind, doc.body)})
  /\ koki' = doc
  /\ UNCHANGED kube

Next == ToKoki \/ ToKube

Spec == Init /\ [][Next]_vars

-----------------------------------------------------------------------------
(***************************************************************************)
(* What Short has a place for, and a text for that reads as nothing else   *)
(***************************************************************************)
Plain(s) == ":" \notin Range(s)

SelectorIsPlain(form, f) == \A n \in Range(form.selector) \cap DOMAIN f : Plain(f[n])

\* Not two secrets, a Flocker dataset by its name, a vSphere policy by its
\* ID only.
SourceFits(type, f) ==
  /\ type = "cephfs" => "SecretFile" \notin DOMAIN f \/ {"SecretRef", "SecretNamespace"} \cap DOMAIN f = {}
  /\ type = "flocker" => "DatasetName" \notin DOMAIN f
  /\ type = "vsphere" => ("StoragePolicyID" \in DOMAIN f => "StoragePolicyName" \in DOMAIN f)

\* Each path is there once, and a mode reads as one.
ItemsFit(items) ==
  /\ \A i, j \in DOMAIN items : items[i].name = items[j].name => i = j
  /\ \A i \in DOMAIN items :
       LET f == items[i].f
       IN  /\ "Key" \in DOMAIN f => Plain(f.Key) /\ ("Mode" \in DOMAIN f => ThreeDigits(f.Mode[1]))
           /\ \A n \in DOMAIN f \cap (Range(ObjectFieldSelector) \cup Range(VolumeResourceFieldSelector)) : Plain(f[n])

VolumeFits(v) ==
  /\ Forms[v.type].needs \subseteq DOMAIN v.f
  /\ SourceFits(v.type, v.f)
  /\ SelectorIsPlain(Forms[v.type], v.f) \/ v.type = "git" \/ DOMAIN v.f \cap DOMAIN Forms[v.type].tags # {}
  /\ v.type = "config-map" => "Name" \in DOMAIN v.f
  /\ ItemsFit(v.items)
  /\ \A i \in DOMAIN v.sources : /\ ItemsFit(v.sources[i].items)
                                 /\ v.sources[i].type # "downward_api" => DOMAIN v.sources[i].f = {"Name"}

PersistentVolumeFits(pv) ==
  /\ PersistentForms[pv.type].needs \subseteq DOMAIN pv.f
  /\ SourceFits(pv.type, pv.f)
  /\ SelectorIsPlain(PersistentForms[pv.type], pv.f)
  /\ \A n \in {"SecretRef", "SecretName"} \cap DOMAIN pv.f : Plain(pv.f[n])
  /\ {"Message", "Reason"} \cap DOMAIN pv.meta # {} => "Phase" \in DOMAIN pv.meta

\* An operator has the values it needs.
RequirementFits(r) ==
  CASE r.op \in {"In", "NotIn"} -> r.values # <<>>
    [] r.op \in {"Gt", "Lt"} -> Len(r.values) = 1
    [] r.op \in {"Exists", "DoesNotExist"} -> r.values = <<>>
    [] OTHER -> FALSE

NodeTermFits(term) == term.exprs # <<>> /\ \A i \in DOMAIN term.exprs : RequirementFits(term.exprs[i])
PodTermFits(term) ==
  /\ term.sel # Nil
  /\ ~IsEmpty(term.sel.labels) \/ term.sel.exprs # <<>>
  /\ \A i \in DOMAIN term.sel.exprs : RequirementFits(term.sel.exprs[i])
TermsFit(terms, TermFits(_)) ==
  /\ \A i \in DOMAIN terms.hard : TermFits(terms.hard[i])
  /\ \A i \in DOMAIN terms.soft : TermFits(terms.soft[i].term) /\ terms.soft[i].weight # 0

NodesFit(p) == TermsFit(p.nodes, NodeTermFits)
PodsFit(p) == TermsFit(p.pods, PodTermFits) /\ TermsFit(p.antipods, PodTermFits)
TolerationFits(t) ==
  /\ Get(t, "Effect") \in {Empty, <<"NoSchedule">>, <<"PreferNoSchedule">>, <<"NoExecute">>}
  /\ Plain(Get(t, "Key")) /\ Plain(Get(t, "Value"))
TolerationsFit(tolerations) == \A i \in DOMAIN tolerations : TolerationFits(tolerations[i])

EnvFits(e) ==
  LET path == Get(e.f, "FieldPath")
      resource == Get(e.f, "Resource")
  IN  CASE e.kind = "value" -> "=" \notin Range(e.name)
        [] e.kind = "field" -> DOMAIN e.f = {"FieldPath"} /\ path[1] \notin {"limits", "requests", "config", "secret"}
        [] e.kind = "resource" -> DOMAIN e.f = {"Resource"} /\ resource[1] \in {"limits", "requests"}
        [] OTHER -> \A n \in {"Object", "Key"} \cap DOMAIN e.f : Plain(e.f[n])

MountFits(m) == \A n \in {"Name", "SubPath"} \cap DOMAIN m : Plain(m[n]) /\ (n = "SubPath" => m[n] # <<"ro">>)

\* One handler; its host and its headers are plain, and its path is no query.
HandlerFits(h) ==
  \/ h = Nil
  \/ h.exec \notin {Nil, Empty} /\ h.http = Nil /\ h.tcp = Nil
  \/ h.exec = Nil /\ h.http = Nil /\ h.tcp # Nil /\ Plain(Get(h.tcp.f, "Host"))
  \/ /\ h.exec = Nil /\ h.http # Nil /\ h.tcp = Nil
     /\ h.http.port.text # Empty
     /\ "Host" \in DOMAIN h.http.f /\ Plain(h.http.f.Host)
     /\ {"?", "%3F", "%253F"} \cap Range(Get(h.http.f, "Path")) = {}
     /\ \A i \in DOMAIN h.http.headers : Plain(h.http.headers[i].name) /\ Plain(h.http.headers[i].value)

ContainerFits(c) ==
  /\ \A i \in DOMAIN c.args : Len(c.args[i]) = 1 /\ c.args[i][1] \in DOMAIN Floats => <<Floats[c.args[i][1]]>> = c.args[i]
  /\ DOMAIN c.limits \cup DOMAIN c.requests \subseteq {"cpu", "memory"}
  /\ \A i \in DOMAIN c.env : EnvFits(c.env[i])
  /\ \A i \in DOMAIN c.envFrom : EnvFits(c.envFrom[i])
  /\ \A i \in DOMAIN c.mounts : MountFits(c.mounts[i])
  /\ HandlerFits(c.postStart) /\ HandlerFits(c.preStop)
  /\ c.liveness # Nil => c.liveness.handler # Nil /\ HandlerFits(c.liveness.handler)
  /\ c.readiness # Nil => c.readiness.handler # Nil /\ HandlerFits(c.readiness.handler)

PodFieldsFit(d) ==
  /\ "." \notin Range(Get(d.f, "Subdomain")) /\ ("." \in Range(Get(d.f, "Hostname")) => "Subdomain" \in DOMAIN d.f)
  /\ Plain(Get(d.f, "ServiceAccountName"))
  /\ Get(d.f, "AutomountServiceAccountToken") # False
  /\ \A i \in DOMAIN d.aliases : d.aliases[i].ip # Empty /\ d.aliases[i].names # <<>>

PodFits(d) ==
  /\ \A i \in DOMAIN d.vols : VolumeFits(d.vols[i])
  /\ NodesFit(d) /\ PodsFit(d) /\ TolerationsFit(d.tolerations)
  /\ \A i \in DOMAIN d.init : ContainerFits(d.init[i])
  /\ \A i \in DOMAIN d.containers : ContainerFits(d.containers[i])
  /\ PodFieldsFit(d)

\* Of SELinux' options, not only the type.
SELinuxFits(f) == "SELinuxType" \in DOMAIN f => {"SELinuxUser", "SELinuxRole", "SELinuxLevel"} \cap DOMAIN f # {}
PolicyFits(p) == SELinuxFits(p.f) /\ Get(p.f, "RunAsUserRule") # <<"MustRunAsNonRoot">>

SelectorFits(sel) == sel # Nil => \A i \in DOMAIN sel.exprs : sel.exprs[i].op \in Operators /\ RequirementFits(sel.exprs[i])

\* No list is empty, and in a text no part has a "/".
RuleFits(r) ==
  LET parts == {r.groups, r.versions, r.resources}
  IN  /\ <<>> \notin parts
      /\ (\A part \in parts : Len(part) = 1) => \A part \in parts : "/" \notin Range(part[1])

ServiceFits(s) == s # Nil => s.path # Nil /\ Plain(s.path)

WebhookFits(w) == ServiceFits(w.service) /\ SelectorFits(w.selector) /\ \A i \in DOMAIN w.rules : RuleFits(w.rules[i])

\* Not the deadline of a job's pods, and not the replicas that a StatefulSet
\* has: their names in Short are those of other fields.
HiddenInTemplate(kind) == IF kind \in {"job", "cron_job"} THEN {"ActiveDeadlineSeconds"} ELSE {}
HiddenInStatus(kind) ==
  CASE kind = "stateful_set" -> {"Replicas"}
    [] kind = "pvc" -> {"AccessModes", "Capacity"}
    [] OTHER -> {}

\* Not the start deadline and the history of a CronJob.
Forgotten == {"StartingDeadlineSeconds", "SuccessfulJobsHistoryLimit", "FailedJobsHistoryLimit"}

\* A strategy is known, and has options only for a rolling update.
StrategyFits(kind, s) ==
  \/ s.type \in {Empty, <<"RollingUpdate">>}
  \/ s.type = (IF kind = "deployment" THEN <<"Recreate">> ELSE <<"OnDelete">>) /\ s.rolling = Nil

\* A number is printed as it was.
BudgetFits(f) == \A n \in DOMAIN f : ParseFloatOrString(f[n].text).text = f[n].text

ClaimFits(f) == Range(Get(f, "AccessModes")) \subseteq {"ReadWriteOnce", "ReadOnlyMany", "ReadWriteMany"}

ControllerFits(kind, c) ==
  /\ HasTemplate(kind) /\ kind # "replication_controller" => DOMAIN c.template \ HiddenInTemplate(kind) # {}
  /\ "." \notin Range(Get(c.template, "Hostname")) /\ Plain(Get(c.template, "ServiceAccountName"))
  /\ kind = "pvc" => ClaimFits(c.f)
  /\ \A i \in DOMAIN c.claims : ClaimFits(c.claims[i].f)

PresetFits(p) ==
  /\ \A i \in DOMAIN p.vols : VolumeFits(p.vols[i])
  /\ \A i \in DOMAIN p.env : EnvFits(p.env[i])
  /\ \A i \in DOMAIN p.envFrom : EnvFits(p.envFrom[i])
  /\ \A i \in DOMAIN p.mounts : MountFits(p.mounts[i])
  /\ SelectorFits(p.selector) /\ {labels \in Labelings : Matches(p.selector, labels)} # {}

\* A backend has a name; what has just fields is what ConvertFields accepts.
ResourceFits(kind, r) ==
  CASE kind = "ingress" -> r.backend # Nil => r.backend.name # Empty
    [] kind = "initializer_config" -> TRUE
    [] kind = "pod_preset" -> PresetFits(r)
    [] kind = "pod_template" -> PodFieldsFit([f |-> r.f, aliases |-> <<>>])
    [] OTHER -> Accepts(kind, r)

\* The text of an endpoint has a place for an address or a host name, and is
\* the latter only if it cannot be the former.
EndpointFits(e) == (e.ip = Empty \/ e.hostname = Empty) /\ e.hostname \notin DOMAIN Addresses

\* The text of a rule has a place for one group, and the first of three parts
\* is taken for it.
InitializerRuleFits(r) == Len(r.groups) <= 1 /\ (r.groups = <<>> => "/" \notin Range(r.resources[1]))

Fits(d) ==
  CASE d.kind = "pod" -> PodFits(d)
    [] d.kind = "persistent_volume" -> PersistentVolumeFits(d.body)
    [] d.kind = "pod_security_policy" -> PolicyFits(d.body)
    [] d.kind = "webhooks" -> \A i \in DOMAIN d.body : WebhookFits(d.body[i])
    [] d.kind = "binding" -> d.body.role.group # Empty
    [] d.kind = "cluster_role" -> d.body.aggregation # Nil => \A i \in DOMAIN d.body.aggregation : SelectorFits(d.body.aggregation[i])
    [] d.kind = "hpa" -> Plain(d.body.target.name)
    [] d.kind \in ControllerKinds -> ControllerFits(d.kind, d.body)
    [] d.kind \in ResourceKinds -> ResourceFits(d.kind, d.body)

-----------------------------------------------------------------------------
(***************************************************************************)
(* What a manifest means                                                   *)
(***************************************************************************)
\* The files of a volume, whatever their order; no divisor is one of 0.
FilesOf(items) ==
  [path \in {items[i].name : i \in DOMAIN items} |->
     LET f == LastOf(items)[path].f IN IF "Resource" \in DOMAIN f THEN f @@ [Divisor |-> <<"0">>] ELSE f]

VolumeOf(v) ==
  [name |-> v.name, type |-> v.type, f |-> v.f, files |-> FilesOf(v.items),
   sources |-> [i \in DOMAIN v.sources |-> [type |-> v.sources[i].type, f |-> v.sources[i].f, files |-> FilesOf(v.sources[i].items)]]]

\* An action's port is the same as a number and as a text; a path starts
\* with "/".
HandlerOf(h) ==
  IF h = Nil \/ h = Handler(Nil, Nil, Nil) \/ h.http = Nil THEN h
  ELSE LET path == Get(h.http.f, "Path")
       IN  [h EXCEPT !.http.f = Put(@, "Path", IF path = Empty \/ path[1] # "/" THEN <<"/">> \o path ELSE path) @@ [Scheme |-> <<"HTTP">>]]

PortText(h) ==
  CASE h = Nil -> h
    [] h # Nil /\ h.http # Nil -> [h EXCEPT !.http.port = @.text]
    [] h # Nil /\ h.tcp # Nil -> [h EXCEPT !.tcp.port = @.text]
    [] OTHER -> h

ProbeOf(p) == IF p = Nil THEN p ELSE [p EXCEPT !.handler = HandlerOf(@)]

\* What a container runs as: what it does not say, the pod says.
Effective(d, c) == Copy(c.f, SecurityFields) @@ Copy(d.f, SecurityFields)

ContainerOf(c) ==
  [c EXCEPT !.f = Without(@, SecurityFields), !.postStart = PortText(HandlerOf(@)), !.preStop = PortText(HandlerOf(@)),
            !.liveness = ProbeOf(@), !.readiness = ProbeOf(@)]

PolicyOf(p) == [f |-> p.f, volumes |-> p.volumes, paths |-> NotEmpty(p.paths), drivers |-> NotEmpty(p.drivers)]

\* No selector selects everything.
SelectedBy(sel) == {labels \in Labelings : sel # Nil => Matches(sel, labels)}

OperationsOf(r) == IF <<"*">> \in Range(r.operations) THEN Operations ELSE Range(r.operations) \cap Operations

\* The requests a webhook is called for, and how.
WebhookOf(w) ==
  [f |-> w.f, service |-> w.service, selected |-> SelectedBy(w.selector),
   rules |-> [i \in DOMAIN w.rules |-> [w.rules[i] EXCEPT !.operations = OperationsOf(w.rules[i])]]]

WebhooksOf(list) == [name \in DOMAIN LastOf(list) |-> WebhookOf(LastOf(list)[name])]

\* A strategy is a rolling update if it is nothing else, and no options are
\* empty ones.
StrategyOf(s) == Strategy(IF s.type = Empty THEN <<"RollingUpdate">> ELSE s.type, Rolling(s))

\* What of a claim a claim in Short has a place for.
ClaimOf(c) ==
  [c EXCEPT !.f = Put(Without(@, {"Requests"}), "Requests", Copy(Get(@, "Requests"), {"storage"})), !.status = Without(@, HiddenInStatus("pvc"))]

\* A number is the same as a text.
BudgetOf(c) == [c EXCEPT !.f = [n \in DOMAIN c.f |-> c.f[n].text]]

ControllerOf(kind, c) ==
  [f |-> Without(c.f, Forgotten), strategy |-> StrategyOf(c.strategy), template |-> Without(c.template, HiddenInTemplate(kind)),
   status |-> Without(c.status, HiddenInStatus(kind)), conditions |-> c.conditions,
   claims |-> [i \in DOMAIN c.claims |-> ClaimOf(c.claims[i])]]

\* An address is the same however it is written.
EndpointOf(e) == [e EXCEPT !.ip = IF @ \in DOMAIN Addresses THEN Addresses[@] ELSE @]

\* No group is the core group, and initializers without rules do nothing.
InitializerRuleOf(r) == [r EXCEPT !.groups = IF @ = <<>> THEN <<Empty>> ELSE @]
InitializersOf(list) == LastOf(SelectSeq(list, LAMBDA i : i.rules # <<>>))

\* What a preset adds to which pods; the order of volumes is of no account.
PresetOf(p) ==
  [env |-> p.env, envFrom |-> p.envFrom, mounts |-> p.mounts, selected |-> SelectedBy(p.selector),
   vols |-> [name \in DOMAIN LastOf(p.vols) |-> VolumeOf(LastOf(p.vols)[name])]]

-----------------------------------------------------------------------------
(***************************************************************************)
(* Properties                                                              *)
(***************************************************************************)
PullPolicy(c) == Get(c.f, "ImagePullPolicy")

\* All the containers of a pod.
AllContainers(d) == d.init \o d.containers

\* Is the document what a Kubernetes manifest of a kind has become, back in
\* that syntax?
IsBack(kind) == first.syntax = "kube" /\ doc.syntax = "kube" /\ doc.kind = kind

\* A pod's volumes come back: the same names, and behind each name that Short
\* has a text for the same source with the same files, however often it is
\* written as a text of segments and read again (types/volume.go, where a
\* segment's meaning is its place, and convertVolume and revertVolume).
VolumesKept ==
  IsBack("pod") =>
    LET was == LastOf(first.vols)
        is  == LastOf(doc.vols)
    IN  /\ DOMAIN is = DOMAIN was
        /\ \A name \in DOMAIN was : VolumeFits(was[name]) => VolumeOf(is[name]) = VolumeOf(was[name])

\* A PersistentVolume comes back as it was: its source from vol_id and the
\* fields beside it, its secrets from namespace:name, its claim, capacity,
\* modes and status (types/persistentvolume.go and its two converters).
PersistentVolumesKept == IsBack("persistent_volume") /\ PersistentVolumeFits(first.body) => doc.body = first.body

\* Nodes: a pod may run on the same nodes, and prefers them as much, unless
\* it has both a node selector and required terms (convertAffinity, see
\* NodeSelectorIsKept); it asks for the same pods near and far, and it
\* tolerates the same taints (revertTolerations).
PlacementKept ==
  IsBack("pod") =>
    /\ NodesFit(first) /\ (IsEmpty(first.nodeSelector) \/ first.nodes.hard = <<>>) =>
         \A labels \in Labelings : MayRun(doc, labels) = MayRun(first, labels) /\ Preference(doc, labels) = Preference(first, labels)
    /\ PodsFit(first) => PodTerms(doc.pods) = PodTerms(first.pods) /\ PodTerms(doc.antipods) = PodTerms(first.antipods)
    /\ TolerationsFit(first.tolerations) => Tolerated(doc.tolerations) = Tolerated(first.tolerations)

\* A container runs as the same user and group, whether the container or its
\* pod says so (convertPodSpec moves the pod's security context into each
\* container), and what Short can say of it comes back: arguments, resources,
\* environment, mounts, actions and probes with their URLs and ports.  So does
\* an init container, to which the pod's security context is not moved: it
\* runs as what it says itself.
ContainersKept ==
  IsBack("pod") =>
    /\ Len(doc.init) = Len(first.init) /\ Len(doc.containers) = Len(first.containers)
    /\ \A i \in DOMAIN first.containers : Effective(doc, doc.containers[i]) = Effective(first, first.containers[i])
    /\ \A i \in DOMAIN first.init : Copy(doc.init[i].f, SecurityFields) = Copy(first.init[i].f, SecurityFields)
    /\ LET was == AllContainers(first)
           is  == AllContainers(doc)
       IN  \A i \in DOMAIN was :
             ContainerFits(was[i]) /\ PullPolicy(was[i]) # <<"IfNotPresent">> => ContainerOf(is[i]) = ContainerOf(was[i])

\* The pod's own fields come back: those two of which share a text (hostname,
\* account), the flags that become a list (host_mode), and the enumerations
\* of its spec, its status and its conditions.
PodFieldsKept ==
  IsBack("pod") /\ PodFieldsFit(first) =>
    /\ Without(doc.f, SecurityFields) = Without(first.f, SecurityFields)
    /\ doc.aliases = first.aliases /\ doc.registries = first.registries /\ doc.conditions = first.conditions

\* A webhook is called for the requests it was called for, at the same
\* service, though its rules and its service were written as texts, its
\* operations joined, and the list of webhooks was a map in between
\* (convertWebhook, revertMWC, types/wh_config.go).
WebhooksKept ==
  IsBack("webhooks") =>
    LET was == LastOf(first.body)
        is  == LastOf(doc.body)
    IN  /\ DOMAIN is = DOMAIN was
        /\ \A name \in DOMAIN was : WebhookFits(was[name]) /\ SelectedBy(was[name].selector) # {} => WebhookOf(is[name]) = WebhookOf(was[name])

\* A PodSecurityPolicy allows what it allowed: each rule with its ranges,
\* the SELinux options, the plugins, paths and drivers by their other names
\* (two converters with a table each); a binding gives the same role to the
\* same subjects, whatever colons and backslashes are in their names
\* (types/name.go); a cluster role has the same rules and aggregates the same
\* roles; an autoscaler has the same target.
AccessKept ==
  /\ IsBack("pod_security_policy") /\ SELinuxFits(first.body.f) => PolicyOf(doc.body) = PolicyOf(first.body)
  /\ IsBack("binding") => doc.body = first.body
  /\ IsBack("hpa") => doc.body = first.body
  /\ IsBack("cluster_role") =>
       /\ doc.body.rules = first.body.rules
       /\ first.body.aggregation \notin {Nil, <<>>} =>
            \A i \in DOMAIN first.body.aggregation :
              LET sel == first.body.aggregation[i]
              IN  SelectorFits(sel) /\ SelectedBy(sel) # {} => SelectedBy(doc.body.aggregation[i]) = SelectedBy(sel)

\* A controller comes back with its strategy, its spec, its pod template, its
\* status and its conditions, though in Short they are all one object and
\* several have fields of the same name (the structs that types.Deployment
\* and the others embed): what is left out does not become another field.
ControllersKept ==
  first.syntax = "kube" /\ doc.syntax = "kube" /\ doc.kind \in ControllerKinds /\ StrategyFits(doc.kind, first.body.strategy) =>
    CASE doc.kind = "pvc" -> ClaimOf(doc.body) = ClaimOf(first.body)
      [] doc.kind = "pdb" -> BudgetFits(first.body.f) => BudgetOf(doc.body) = BudgetOf(first.body)
      [] OTHER -> ControllerOf(doc.kind, doc.body) = ControllerOf(doc.kind, first.body)

\* A resource comes back as it was: its fields and conditions with the values
\* of both tables of each enumeration, the backend and rules of an ingress
\* and each endpoint of its status that the text of one has a place for, in
\* their order and as what it was (types.LoadBalancerIngress, whose text may
\* be an address or a name), what a preset adds to which pods, the template of
\* pods, and the rules of initializers, whose text of three parts may be of a
\* resource that has a slash itself (types/initializer_config.go).
ResourcesKept ==
  first.syntax = "kube" /\ doc.syntax = "kube" /\ doc.kind \in ResourceKinds =>
    CASE doc.kind = "initializer_config" ->
           LET was == InitializersOf(first.body)
               is  == InitializersOf(doc.body)
           IN  /\ DOMAIN is = DOMAIN was
               /\ \A name \in DOMAIN was :
                    /\ Len(is[name].rules) = Len(was[name].rules)
                    /\ \A i \in DOMAIN was[name].rules :
                         InitializerRuleFits(was[name].rules[i]) => InitializerRuleOf(is[name].rules[i]) = InitializerRuleOf(was[name].rules[i])
      [] doc.kind = "ingress" ->
           /\ Without(doc.body, {"endpoints"}) = Without(first.body, {"endpoints"})
           /\ Len(doc.body.endpoints) = Len(first.body.endpoints)
           /\ \A i \in DOMAIN first.body.endpoints :
                EndpointFits(first.body.endpoints[i]) => EndpointOf(doc.body.endpoints[i]) = EndpointOf(first.body.endpoints[i])
      [] doc.kind = "pod_preset" -> PresetFits(first.body) => PresetOf(doc.body) = PresetOf(first.body)
      [] doc.kind = "pod_template" -> ResourceFits(doc.kind, first.body) => doc.body = first.body
      [] OTHER -> doc.body = first.body

\* If short refuses what it wrote itself, the manifest has something Short
\* has no place or no text for: no text that one side writes is refused by
\* the other for any other reason.
FailsForACause == refused /\ doc # first => ~Fits(IF doc.syntax = "kube" THEN doc ELSE kube)

WithPortTexts(containers) == [i \in DOMAIN containers |-> [containers[i] EXCEPT !.postStart = PortText(@), !.preStop = PortText(@)]]

Normal(d) ==
  CASE d.kind = "pod" -> [d EXCEPT !.vols = [i \in DOMAIN @ |-> VolumeOf(@[i])],
                                   !.init = WithPortTexts(@), !.containers = WithPortTexts(@)]
    [] d.kind = "webhooks" -> WebhooksOf(d.body)
    [] d.kind = "initializer_config" -> InitializersOf(d.body)
    [] d.kind = "pod_preset" -> PresetOf(d.body)
    [] OTHER -> d

\* Is there a term that selects nothing, and is left out?
SelectsNothing(d) ==
  \E terms \in {d.pods, d.antipods} : \/ \E i \in DOMAIN terms.hard : terms.hard[i].sel = Nil
                                      \/ \E i \in DOMAIN terms.soft : terms.soft[i].term.sel = Nil

\* Is the port of a probe a number that is given as a text?
PortIsQuoted(h) == \E net \in {h.http, h.tcp} \ {Nil} : net.port # ParsePort(net.port.text)

\* What is lost or changed once more although a run of short wrote it.
IsWrittenForGood(d) ==
  /\ d.kind = "cron_job" => DOMAIN d.body.f \cap Forgotten = {}
  /\ d.kind = "pod_security_policy" => Empty \notin Range(d.body.paths) \cup Range(d.body.drivers)
  /\ d.kind = "webhooks" => \A i \in DOMAIN d.body : WebhookFits(d.body[i]) /\ \A j \in DOMAIN d.body : d.body[i].name = d.body[j].name => i = j
  /\ d.kind = "pod" =>
      /\ ~SelectsNothing(d)
      /\ \A i \in DOMAIN d.aliases : d.aliases[i].ip # Empty
      /\ d.statuses = <<>>
      /\ \A i \in DOMAIN AllContainers(d) :
           LET c == AllContainers(d)[i]
           IN  /\ PullPolicy(c) # <<"IfNotPresent">>
               /\ HandlerFits(c.postStart) /\ HandlerFits(c.preStop)
               /\ \A probe \in {c.liveness, c.readiness} \ {Nil} : HandlerFits(probe.handler) /\ ~PortIsQuoted(probe.handler)

\* A Kubernetes manifest that short wrote does not change any more when it is
\* converted there and back again: what a trip loses or rewrites, the first
\* one does (both converters of each kind).
Settles == (doc.syntax = "kube" /\ kube \notin {Nil, first} /\ IsWrittenForGood(kube)) => Normal(doc) = Normal(kube)

-----------------------------------------------------------------------------
(***************************************************************************)
(* What the documentation says and the code does not do                    *)
(***************************************************************************)
\* docs/resources/pod.md: affinity stands for the node selector and the
\* affinity of a pod, "The Pod's scheduling rules"; then a pod may run on the
\* nodes it was written for.  convertAffinity appends the selector to the
\* required terms, of which one is enough.
NodeSelectorIsKept == IsBack("pod") /\ NodesFit(first) => \A labels \in Labelings : MayRun(doc, labels) = MayRun(first, labels)

\* docs/resources/pod.md: the pull policy "can be "always", "never" or
\* "if-not-present"".  convertPullPolicy writes never for IfNotPresent.
PullPolicyKept ==
  IsBack("pod") =>
    \A i \in DOMAIN first.containers : PullPolicy(doc.containers[i]) = PullPolicy(first.containers[i])
=============================================================================
