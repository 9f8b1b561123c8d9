----------------------------- MODULE Containers -----------------------------
(***************************************************************************)
(* The containers of a pod in both syntaxes: types/container.go, env.go,   *)
(* probe.go and action.go, and the converters of their fields.             *)
(*                                                                         *)
(* A container has fields f, those of its security context and, in Short,  *)
(* of its resources among them, lists of arguments, environment variables  *)
(* and mounts, and handlers: two of its lifecycle and two probes.  Its     *)
(* ports are in Services.                                                  *)
(***************************************************************************)
EXTENDS Volumes

-----------------------------------------------------------------------------
(***************************************************************************)
(* Go types: the names of their fields in Short syntax                     *)
(***************************************************************************)
Container ==
  [Name |-> "name", Command |-> "command", Image |-> "image", WorkingDir |-> "wd", ImagePullPolicy |-> "pull", Stdin |-> "stdin",
   StdinOnce |-> "stdin_once", TTY |-> "tty", TerminationMessagePath |-> "termination_msg_path",
   TerminationMessagePolicy |-> "termination_msg_policy", Privileged |-> "privileged", AllowPrivilegeEscalation |-> "allow_escalation",
   ReadOnlyRootFilesystem |-> "ro", RunAsNonRoot |-> "force_non_root", RunAsUser |-> "uid", RunAsGroup |-> "gid",
   SELinuxOptions |-> "selinux", Add |-> "cap_add", Drop |-> "cap_drop"]

ContainerStatus ==
  [ContainerID |-> "container_id", ImageID |-> "image_id", Ready |-> "ready", RestartCount |-> "restarts", State |-> "current_state",
   LastTerminationState |-> "last_state"]

Probe ==
  [InitialDelaySeconds |-> "delay", PeriodSeconds |-> "interval", SuccessThreshold |-> "min_count_success",
   FailureThreshold |-> "min_count_fail", TimeoutSeconds |-> "timeout"]

Action(command, net) == [command |-> command, net |-> net]
NetAction(url, headers) == [url |-> url, headers |-> headers]

EnvWithVal(text) == [text |-> text, f |-> <<>>]
EnvWithFrom(f) == [text |-> Nil, f |-> f]

\* A port of a handler is a number or a name: intstr.IntOrString.
Port(isInt, text) == [int |-> isInt, text |-> text]
Numbers == {"0", "80", "8080"}
ParsePort(text) == Port(\E n \in Numbers : text = <<n>>, text)

Handler(exec, http, tcp) == [exec |-> exec, http |-> http, tcp |-> tcp]

-----------------------------------------------------------------------------
(***************************************************************************)
(* net/url: a path is escaped when a URL is written, and starts with "/".  *)
(* An escape that is escaped twice is not told from one that is escaped    *)
(* more often.                                                             *)
(***************************************************************************)
Escape == "?" :> "%3F" @@ "%3F" :> "%253F"
Escaped(path) == [i \in DOMAIN path |-> IF path[i] \in DOMAIN Escape THEN Escape[path[i]] ELSE path[i]]
Unescaped(path) == [i \in DOMAIN path |-> IF path[i] \in Range(Escape) THEN AntiFunction(Escape)[path[i]] ELSE path[i]]

URLString(scheme, host, path) ==
  <<scheme, "://">> \o host \o (IF path = Empty \/ path[1] = "/" THEN Empty ELSE <<"/">>) \o Escaped(path)

\* What is before the first of some tokens, and the rest.
Until(s, tokens) ==
  LET i == CHOOSE i \in 1..Len(s) + 1 : (i <= Len(s) => s[i] \in tokens) /\ \A j \in 1..i - 1 : s[j] \notin tokens
  IN  [before |-> SubSeq(s, 1, i - 1), rest |-> SubSeq(s, i, Len(s))]

URLParse(url) ==
  LET schemed == Until(url, {"://"})
      hosted  == Until(IF schemed.rest = Empty THEN Empty ELSE Tail(schemed.rest), {"/", "?"})
      pathed  == Until(hosted.rest, {"?"})
  IN  [scheme |-> schemed.before, host |-> hosted.before, path |-> Unescaped(pathed.before), query |-> pathed.rest,
       requestURI |-> (IF pathed.before = Empty THEN <<"/">> ELSE pathed.before) \o pathed.rest]

IsHTTP(scheme) == scheme \in {<<"HTTP">>, <<"http">>}
IsHTTPS(scheme) == scheme \in {<<"HTTPS">>, <<"https">>}
IsTCP(scheme) == scheme \in {<<"TCP">>, <<"tcp">>}

-----------------------------------------------------------------------------
(***************************************************************************)
(* To Short syntax                                                         *)
(***************************************************************************)
\* strconv.ParseFloat, and the number it is printed as; no number is
\* printed for infinity.
Floats == "80" :> "80" @@ "0644" :> "644" @@ "1000000" :> "1e+06" @@ "1e+06" :> "1e+06" @@ "644" :> "644" @@ "inf" :> "+Inf"

FloatOrString(isFloat, text) == [float |-> isFloat, text |-> text]

ParseFloatOrString(arg) ==
  IF Len(arg) = 1 /\ arg[1] \in DOMAIN Floats THEN FloatOrString(TRUE, <<Floats[arg[1]]>>) ELSE FloatOrString(FALSE, arg)

convertContainerArgs(args) ==
  {k \in {[i \in DOMAIN args |-> ParseFloatOrString(args[i])]} : \A i \in DOMAIN args : k[i].text # <<"+Inf">>}

convertPullPolicy == [Always |-> "always", Never |-> "never", IfNotPresent |-> "never"]
convertTerminationMsgPolicy == [File |-> "file", FallbackToLogsOnError |-> "fallback-to-logs-on-error"]
convertMountPropagation == [HostToContainer |-> "host-to-container", Bidirectional |-> "bidirectional", None |-> "none"]

\* A command is preferred, then HTTP.
convertLifecycleAction(h) ==
  CASE h = Nil \/ h = Handler(Nil, Nil, Nil) -> {Nil}
    [] h # Nil /\ h.exec # Nil -> {Action(h.exec, Nil)}
    [] h # Nil /\ h.exec = Nil /\ h.http # Nil ->
         LET get == h.http
         IN  IF get.port.text = Empty THEN {}
             ELSE {Action(Empty, NetAction(URLString(IF "Scheme" \in DOMAIN get.f THEN get.f.Scheme[1] ELSE "HTTP",
                                                     Join(<<IF "Host" \in DOMAIN get.f THEN get.f.Host ELSE <<"localhost">>, get.port.text>>, ":"),
                                                     Get(get.f, "Path")),
                                           [i \in DOMAIN get.headers |-> Join(<<get.headers[i].name, get.headers[i].value>>, ":")]))}
    [] OTHER -> {Action(Empty, NetAction(URLString("TCP", Join(<<Get(h.tcp.f, "Host"), h.tcp.port.text>>, ":"), Empty), <<>>))}

convertLifecycle(c) ==
  {[on_start |-> start, pre_stop |-> stop] : start \in convertLifecycleAction(c.postStart), stop \in convertLifecycleAction(c.preStop)}

\* A probe without a handler: a nil pointer is read.
convertProbe(probe) ==
  IF probe = Nil THEN {Nil}
  ELSE {[f |-> Renamed(probe.f, Probe), action |-> action] : action \in convertLifecycleAction(probe.handler) \ {Nil}}

convertCPU(limits, requests) == Put(Put(<<>>, "cpu.max", Get(limits, "cpu")), "cpu.min", Get(requests, "cpu"))
convertMem(limits, requests) == Put(Put(<<>>, "mem.max", Get(limits, "memory")), "mem.min", Get(requests, "memory"))

\* A variant: a key of a secret or a config map, without the key.
convertEnvVarKeyless(e) ==
  EnvWithFrom(Put([from |-> Join(<< <<e.kind>>, Get(e.f, "Object")>>, ":")], "key", e.name))

UnparseEnvVal(key, val) == IF val = Empty THEN key ELSE key \o <<"=">> \o val

convertEnvVar(e) ==
  LET from == CASE e.kind = "field" -> Get(e.f, "FieldPath")
                [] e.kind = "resource" -> Get(e.f, "Resource")
                [] OTHER -> Join(<< <<e.kind>>, Get(e.f, "Object"), Get(e.f, "Key")>>, ":")
  IN  IF e.kind = "value" THEN EnvWithVal(UnparseEnvVal(e.name, Get(e.f, "Value")))
      ELSE EnvWithFrom(Renamed(convertOptionalToRequired(Put(Put(Copy(e.f, {"Optional"}), "Name", e.name), "From", from)),
                               [Name |-> "key", From |-> "from", Required |-> "required"]))

convertEnvFrom(e) ==
  EnvWithFrom(Renamed(convertOptionalToRequired(Put([From |-> Join(<< <<e.kind>>, Get(e.f, "Object")>>, ":")] @@ Copy(e.f, {"Optional"}),
                                                    "Prefix", e.name)),
                      [Prefix |-> "key", From |-> "from", Required |-> "required"]))

\* The variables, then the sources of several.
convertEnvVars(env, envFrom) ==
  [i \in DOMAIN env |-> convertEnvVar(env[i])] \o [i \in DOMAIN envFrom |-> convertEnvFrom(envFrom[i])]

\* name, name:ro, name:subpath or name:subpath:ro
convertVolumeMount(m) ==
  LET trailer == (IF "SubPath" \in DOMAIN m THEN <<m.SubPath>> ELSE <<>>) \o (IF "ReadOnly" \in DOMAIN m THEN << <<"ro">> >> ELSE <<>>)
  IN  {Put(Renamed(t, [MountPath |-> "mount", Propagation |-> "propagation"]), "store", Join(<<Get(m, "Name")>> \o trailer, ":")) :
         t \in Translated(m, "Propagation", convertMountPropagation)}

convertVolumeMounts(mounts) == Results(convertVolumeMount, mounts)

convertSecurityContext(f) ==
  LET k == Renamed(f, Container) IN IF Get(k, "ro") = False THEN Put(k, "rw", True) ELSE k

KokiContainer(f, args, env, volume, on_start, pre_stop, liveness_probe, readiness_probe) ==
  [f |-> f, args |-> args, env |-> env, volume |-> volume, on_start |-> on_start, pre_stop |-> pre_stop,
   liveness_probe |-> liveness_probe, readiness_probe |-> readiness_probe]

convertContainer(c) ==
  {KokiContainer(convertSecurityContext(f) @@ convertCPU(c.limits, c.requests) @@ convertMem(c.limits, c.requests), args,
                 convertEnvVars(c.env, c.envFrom), mounts, lifecycle.on_start, lifecycle.pre_stop, liveness, readiness) :
     f \in TranslatedAll(c.f, [ImagePullPolicy |-> convertPullPolicy, TerminationMessagePolicy |-> convertTerminationMsgPolicy]),
     args \in convertContainerArgs(c.args), lifecycle \in convertLifecycle(c), liveness \in convertProbe(c.liveness),
     readiness \in convertProbe(c.readiness), mounts \in convertVolumeMounts(c.mounts)}

\* The loop assigns to a copy of each container.
convertContainerStatuses(statuses, containers) == containers

-----------------------------------------------------------------------------
(***************************************************************************)
(* To Kubernetes syntax                                                    *)
(***************************************************************************)
revertContainerArgs(args) == [i \in DOMAIN args |-> args[i].text]

revertImagePullPolicy == "always" :> "Always" @@ "never" :> "Never" @@ "if-not-present" :> "IfNotPresent"
revertTerminationMsgPolicy == "file" :> "File" @@ "fallback-to-logs-on-error" :> "FallbackToLogsOnError"
revertMountPropagation(p) ==
  CASE p = <<"bidirectional">> -> <<"Bidirectional">> [] p = <<"none">> -> <<"None">> [] OTHER -> <<"HostToContainer">>

\* A header with a second colon is not read.
revertHeaders(headers) ==
  Results(LAMBDA h : LET fields == Split(h, ":") IN IF Len(fields) = 2 THEN {[name |-> fields[1], value |-> fields[2]]} ELSE {}, headers)

\* The handlers a URL stands for, given the fields of its host.
revertNet(url, headers, host, port, path) ==
  CASE IsHTTP(url.scheme) \/ IsHTTPS(url.scheme) ->
         {[http |-> [f |-> Put(Put([Scheme |-> IF IsHTTP(url.scheme) THEN <<"HTTP">> ELSE <<"HTTPS">>], "Host", host), "Path", path),
                     port |-> port, headers |-> h], tcp |-> Nil] : h \in revertHeaders(headers)}
    [] IsTCP(url.scheme) -> {[http |-> Nil, tcp |-> [f |-> Put(<<>>, "Host", host), port |-> port]]}
    [] OTHER -> {}

NoNet == [http |-> Nil, tcp |-> Nil]

\* The port is a name, also if it is a number; the query is left out.
revertLifecycleAction(action) ==
  LET url    == URLParse(action.net.url)
      fields == Split(url.host, ":")
      net    == CASE action.net = Nil -> {NoNet}
                  [] action.net # Nil /\ Len(fields) > 2 -> {}
                  [] OTHER -> revertNet(url, action.net.headers, fields[1],
                                        IF Len(fields) = 2 THEN Port(FALSE, fields[2]) ELSE Port(TRUE, <<"0">>), url.path)
  IN  IF action = Nil THEN {Nil}
      ELSE {Handler(IF action.command = Empty THEN Nil ELSE action.command, n.http, n.tcp) : n \in net}

revertLifecycle(k) ==
  {[postStart |-> start, preStop |-> stop] : start \in revertLifecycleAction(k.on_start), stop \in revertLifecycleAction(k.pre_stop)}

\* A variant: the port is a name, as in an action.
revertProbePortNamed(text) == Port(FALSE, text)

revertProbePort(text) == ParsePort(text)

revertProbe(probe) ==
  LET action == probe.action
      url    == URLParse(action.net.url)
      fields == Split(url.host, ":")
      net    == CASE action.net = Nil -> {NoNet}
                  [] action.net # Nil /\ Len(fields) > 2 -> {}
                  [] OTHER -> revertNet(url, action.net.headers, fields[1],
                                        IF Len(fields) = 2 THEN revertProbePort(fields[2]) ELSE Port(FALSE, <<"80">>), url.requestURI)
  IN  IF probe = Nil THEN {Nil}
      ELSE {[f |-> Renamed(probe.f, AntiFunction(Probe)),
             handler |-> Handler(IF action.command = Empty THEN Nil ELSE action.command, n.http, n.tcp)] : n \in net}

\* resource.ParseQuantity: what is not a quantity.
IsQuantity(q) == q # <<"much">>

revertResources(k) ==
  {r \in {[limits |-> Renamed(k, ("cpu.max" :> "cpu") @@ ("mem.max" :> "memory")),
           requests |-> Renamed(k, ("cpu.min" :> "cpu") @@ ("mem.min" :> "memory"))]} :
     \A n \in {"cpu.min", "cpu.max", "mem.min", "mem.max"} \cap DOMAIN k : IsQuantity(k[n])}

ParseEnvVal(text) == LET segments == SplitInTwo(text, "=") IN [key |-> segments[1], val |-> IF Len(segments) = 2 THEN segments[2] ELSE Empty]

Optional(f) == revertRequiredToOptional(Renamed(f, [required |-> "Required"]))

EnvVar(name, kind, f) == [name |-> name, kind |-> kind, f |-> f]

\* What one entry stands for: a variable, or a source of several.
revertEnvFrom(e) ==
  LET name == Get(e.f, "key")
      from == Get(e.f, "from")
      fields == Split(from, ":")
      starts(prefix) == Len(from) >= 2 /\ SubSeq(from, 1, 2) = prefix
      kind == IF starts(<<"config", ":">>) THEN "config" ELSE "secret"
  IN  CASE starts(<<"limits", ".">>) \/ starts(<<"requests", ".">>) -> {[isVar |-> TRUE, var |-> EnvVar(name, "resource", [Resource |-> from])]}
        [] starts(<<"config", ":">>) \/ starts(<<"secret", ":">>) ->
             CASE Len(fields) = 3 -> {[isVar |-> TRUE, var |-> EnvVar(name, kind, Put(Put(Optional(e.f), "Object", fields[2]), "Key", fields[3]))]}
               [] Len(fields) = 2 -> {[isVar |-> FALSE, var |-> EnvVar(name, kind, Put(Optional(e.f), "Object", fields[2]))]}
               [] OTHER -> {}
        [] OTHER -> {[isVar |-> TRUE, var |-> EnvVar(name, "field", Put(<<>>, "FieldPath", from))]}

revertEnvEntry(e) ==
  LET val == ParseEnvVal(e.text)
  IN  IF e.text = Nil THEN revertEnvFrom(e) ELSE {[isVar |-> TRUE, var |-> EnvVar(val.key, "value", Put(<<>>, "Value", val.val))]}

revertEnv(envs) ==
  LET vars(entries) == [i \in DOMAIN entries |-> entries[i].var]
  IN  {[env |-> vars(SelectSeq(entries, LAMBDA e : e.isVar)), envFrom |-> vars(SelectSeq(entries, LAMBDA e : ~e.isVar))] :
         entries \in Results(revertEnvEntry, envs)}

\* Whatever is third makes a mount read-only; of more nothing is read.
revertVolumeMount(k) ==
  LET fields == Split(Get(k, "store"), ":")
      mount  == Put(<<>>, "MountPath", Get(k, "mount"))
      named  == CASE Len(fields) = 1 -> Put(mount, "Name", fields[1])
                  [] Len(fields) = 2 -> Put(IF fields[2] = <<"ro">> THEN Put(mount, "ReadOnly", True) ELSE Put(mount, "SubPath", fields[2]),
                                            "Name", fields[1])
                  [] Len(fields) = 3 -> Put(Put(Put(mount, "ReadOnly", True), "SubPath", fields[2]), "Name", fields[1])
                  [] OTHER -> mount
  IN  IF "propagation" \in DOMAIN k THEN Put(named, "Propagation", revertMountPropagation(k.propagation)) ELSE named

revertVolumeMounts(mounts) == [i \in DOMAIN mounts |-> revertVolumeMount(mounts[i])]

\* ro and rw, one of which must be true, are one field.
revertSecurityContext(k) ==
  LET ro == Get(k, "ro") = True
      rw == Get(k, "rw") = True
      f  == Renamed(Without(k, {"ro", "rw"}), AntiFunction(Container))
  IN  IF {"ro", "rw"} \cap DOMAIN k = {} THEN {f}
      ELSE IF ro = rw THEN {}
      ELSE {Put(f, "ReadOnlyRootFilesystem", IF ro THEN True ELSE False)}

KubeContainer(f, args, limits, requests, env, envFrom, mounts, postStart, preStop, liveness, readiness) ==
  [f |-> f, args |-> args, limits |-> limits, requests |-> requests, env |-> env, envFrom |-> envFrom, mounts |-> mounts,
   postStart |-> postStart, preStop |-> preStop, liveness |-> liveness, readiness |-> readiness]

revertKokiContainer(k) ==
  LET f == TranslatedOrNone(TranslatedOrNone(k.f, "pull", revertImagePullPolicy), "termination_msg_policy", revertTerminationMsgPolicy)
  IN  {KubeContainer(c, revertContainerArgs(k.args), resources.limits, resources.requests, env.env, env.envFrom, revertVolumeMounts(k.volume),
                     lifecycle.postStart, lifecycle.preStop, liveness, readiness) :
         c \in revertSecurityContext(f), resources \in revertResources(k.f), env \in revertEnv(k.env), lifecycle \in revertLifecycle(k),
         liveness \in revertProbe(k.liveness_probe), readiness \in revertProbe(k.readiness_probe)}

revertContainerStatus(k) == Renamed(k.f, AntiFunction(ContainerStatus))
=============================================================================
