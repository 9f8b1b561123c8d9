---------------------------- MODULE MCManifests ----------------------------
(***************************************************************************)
(* Module Manifests for those that differ from a plain one in one part:    *)
(* volumes of every type, PersistentVolumes, placements, containers,       *)
(* policies, controllers and other resources.                              *)
(* The value of a field is its own name, so that no two can be confused,   *)
(* or each of the values there are.                                        *)
(***************************************************************************)
EXTENDS Manifests

MCKey == {"k", "l"}
MCValue == 0..2
MCJoined(key, values) == "l"

-----------------------------------------------------------------------------
\* The fields of Kubernetes' volume sources.
KubeFields ==
  [host_path |-> {"Path", "Type"}, empty_dir |-> {"Medium", "SizeLimit"}, gce_pd |-> {"PDName", "FSType", "Partition", "ReadOnly"},
   aws_ebs |-> {"VolumeID", "FSType", "Partition", "ReadOnly"},
   azure_disk |-> {"DiskName", "DataDiskURI", "CachingMode", "FSType", "ReadOnly", "Kind"},
   azure_file |-> {"SecretName", "ShareName", "ReadOnly"},
   cephfs |-> {"Monitors", "Path", "User", "SecretFile", "SecretRef", "ReadOnly"},
   cinder |-> {"VolumeID", "FSType", "ReadOnly"}, fc |-> {"TargetWWNs", "Lun", "FSType", "ReadOnly", "WWIDs"},
   flex |-> {"Driver", "FSType", "SecretRef", "ReadOnly", "Options"}, flocker |-> {"DatasetUUID", "DatasetName"},
   glusterfs |-> {"EndpointsName", "Path", "ReadOnly"},
   iscsi |-> {"TargetPortal", "IQN", "Lun", "ISCSIInterface", "FSType", "ReadOnly", "Portals", "DiscoveryCHAPAuth", "SessionCHAPAuth",
              "SecretRef", "InitiatorName"},
   nfs |-> {"Server", "Path", "ReadOnly"}, photon |-> {"PdID", "FSType"}, portworx |-> {"VolumeID", "FSType", "ReadOnly"},
   pvc |-> {"ClaimName", "ReadOnly"}, quobyte |-> {"Registry", "Volume", "ReadOnly", "User", "Group"}, scaleio |-> ScaleIOFields,
   vsphere |-> {"VolumePath", "FSType", "StoragePolicyName", "StoragePolicyID"}, secret |-> {"SecretName", "DefaultMode", "Optional"},
   downward_api |-> {"DefaultMode"}, projected |-> {"DefaultMode"}, git |-> {"Repository", "Revision", "Directory"},
   rbd |-> {"CephMonitors", "RBDImage", "FSType", "RBDPool", "RadosUser", "Keyring", "SecretRef", "ReadOnly"},
   storageos |-> {"VolumeName", "VolumeNamespace", "FSType", "ReadOnly", "SecretRef"}]
  @@ ("config-map" :> {"Name", "DefaultMode", "Optional"})

Bools == {"ReadOnly", "SSLEnabled", "DiscoveryCHAPAuth", "SessionCHAPAuth"}

Colon == <<"x", ":", "y">>

\* The values a field may have; one that is not known is among them.
ValuesOf(type, name) ==
  CASE name \in Bools -> {True}
    [] name = "Optional" -> {True, False}
    [] name = "Medium" -> {<<v>> : v \in DOMAIN convertStorageMedium \cup {"other"}}
    [] type = "host_path" /\ name = "Type" -> {<<v>> : v \in DOMAIN convertHostPathType \cup {"other"}}
    [] type = "azure_disk" /\ name = "Kind" -> {<<v>> : v \in DOMAIN convertAzureDiskKind \cup {"other"}}
    [] name = "CachingMode" -> {<<v>> : v \in DOMAIN convertAzureDiskCachingMode \cup {"other"}}
    [] name = "StorageMode" -> {<<v>> : v \in DOMAIN convertScaleIOStorageMode \cup {"other"}}
    [] OTHER -> {<<name>>, Colon}

ValueOf(type, name) == CHOOSE v \in ValuesOf(type, name) : v \notin {<<"other">>, Colon}

\* Few of the fields, or almost all of them; one of them varied.
Selections(names) == {s \in SUBSET names : Cardinality(s) <= 2 \/ Cardinality(s) >= Cardinality(names) - 1}
Varied(type, names, least) ==
  {[n \in s |-> ValueOf(type, n)] : s \in Selections(names)}
  \cup UNION {{[n \in s \cup {m} |-> IF n = m THEN v ELSE ValueOf(type, n)] : s \in {{}, least, names}, v \in ValuesOf(type, m)} : m \in names}

Least(form) == {form.selector[i] : i \in 1..form.least}

Sources(type, fields) == Varied(type, fields, Least(Forms[type]) \cup Forms[type].needs)

-----------------------------------------------------------------------------
NoAffinity == [nodes |-> NoTerms, pods |-> NoTerms, antipods |-> NoTerms]

BlankContainer == KubeContainer([Name |-> <<"c">>, Image |-> <<"image">>], <<>>, <<>>, <<>>, <<>>, <<>>, <<>>, Nil, Nil, Nil, Nil)
BlankPod == KubePod([APIVersion |-> <<"v1">>, Name |-> <<"p">>], <<>>, <<>>, <<>>, <<>>, Nil, NoAffinity, <<>>, <<>>, <<BlankContainer>>, <<>>, <<>>)
BlankKokiContainer == KokiContainer([name |-> <<"c">>, image |-> <<"image">>], <<>>, <<>>, <<>>, Nil, Nil, Nil, Nil)
BlankKokiPod == KokiPod([name |-> <<"p">>], <<>>, <<>>, <<>>, <<>>, <<>>, <<>>, <<>>, <<>>, <<BlankKokiContainer>>)

WithVolumes(vols) == [BlankPod EXCEPT !.vols = vols]

-----------------------------------------------------------------------------
Item(path, key, mode) == [name |-> path, f |-> Put([Key |-> key], "Mode", mode)]
Items ==
  {<<Item("p", <<"key">>, mode)>> : mode \in {Empty, <<"0644">>, <<"07">>}}
  \cup {<<Item("p", <<"key", ":", "0400">>, mode)>> : mode \in {Empty, <<"0644">>}}
  \cup {<<Item("p", <<"key">>, <<"0644">>), Item(path, <<"other">>, Empty)>> : path \in {"p", "q"}}

Fields(path, f) == [name |-> path, f |-> f]
DownwardItems ==
  {<<Fields("p", f)>> : f \in {[FieldPath |-> <<"path">>], [FieldPath |-> <<"path">>, APIVersion |-> <<"v1">>, Mode |-> <<"0644">>],
                               [FieldPath |-> Colon], [Mode |-> <<"0644">>],
                               [ContainerName |-> <<"c">>, Resource |-> <<"limits", ".", "cpu">>],
                               [Resource |-> <<"limits", ".", "cpu">>, Divisor |-> <<"1m">>],
                               [ContainerName |-> <<"c">>, Resource |-> <<"limits", ".", "cpu">>, Divisor |-> <<"1m">>, Mode |-> <<"07">>]}}
  \cup {<<Fields("q", [FieldPath |-> <<"path">>]), Fields("p", [Resource |-> <<"requests", ".", "cpu">>])>>}

Projection(type, f, items) == KubeVolume(Nil, type, f, items, <<>>)
Projections ==
  {<<Projection(type, f, items)>> : type \in {"secret", "config-map"}, f \in {<<>>, [Name |-> <<"n">>], [Name |-> <<"n">>, Optional |-> True]},
                                    items \in {<<>>, <<Item("p", <<"key">>, <<"0644">>)>>}}
  \cup {<<Projection("downward_api", <<>>, items)>> : items \in DownwardItems}
  \cup {<<Projection("secret", [Name |-> <<"n">>], <<>>), Projection("config-map", [Name |-> <<"m">>], <<Item("p", <<"key">>, Empty)>>),
          Projection("downward_api", <<>>, <<Fields("p", [FieldPath |-> <<"path">>])>>)>>}

KubeVolumes ==
  UNION {{KubeVolume("v", type, f, <<>>, <<>>) : f \in Sources(type, KubeFields[type])} : type \in DOMAIN KubeFields}
  \cup {KubeVolume("v", "secret", [SecretName |-> <<"n">>, DefaultMode |-> <<"0400">>], items, <<>>) : items \in Items}
  \cup {KubeVolume("v", "config-map", [Name |-> <<"n">>], items, <<>>) : items \in Items}
  \cup {KubeVolume("v", "downward_api", f, items, <<>>) : items \in DownwardItems, f \in {<<>>, [DefaultMode |-> <<"0400">>]}}
  \cup {KubeVolume("v", "projected", f, <<>>, sources) : sources \in Projections, f \in {<<>>, [DefaultMode |-> <<"0400">>]}}

Few == {KubeVolume(name, "pvc", [ClaimName |-> <<"claim">>, ReadOnly |-> True], <<>>, <<>>) : name \in {"v", "w"}}
       \cup {KubeVolume(name, "git", [Repository |-> Colon], <<>>, <<>>) : name \in {"v", "w"}}
       \cup {KubeVolume(name, "empty_dir", [Medium |-> <<"other">>], <<>>, <<>>) : name \in {"v", "w"}}

KokiTexts ==
  {<<type>> \o rest : type \in {"host_path", "empty_dir", "nfs", "azure_file", "photon", "git", "gce_pd", "projected", "cephfs", "other", ""},
                      rest \in {Empty, <<":">>, <<":", "a">>, <<":", "a", ":">>, <<":", "a", ":", "b">>, <<":", "a", ":", "dir">>,
                                <<":", "a", ":", "b", ":", "ro">>, <<":", "a", ":", "b", ":", "c">>, <<":", "a", ":", "b", ":", "ro", ":", "c">>}}
  \cup {<<type>> \o rest : type \in {"pvc"}, rest \in {Empty, <<":", "a">>, <<":", "a", ":", "ro">>}}

KokiObjects ==
  {VolumeObject(type, id, f, <<>>, <<>>) : type \in {"gce_pd", "nfs", "host_path", "vsphere", "empty_dir", "git", "other"},
                                           id \in {Nil, <<"a">>, Colon}, f \in {<<>>, [fs |-> <<"ext4">>]}}
  \cup {VolumeObject("cephfs", Nil, [secret |-> s], <<>>, <<>>) : s \in {<<"ref", ":", "a">>, <<"file", ":", "a", ":", "b">>, <<"a">>, <<"a", ":", "b">>}}
  \cup {VolumeObject("config-map", <<"a">>, <<>>, [p \in {"p", "q"} |-> [key |-> key]], <<>>) :
          key \in {<<"key">>, <<"key", ":", "0644">>, <<"key", ":", "07">>, <<":", "0644">>}}
  \cup {VolumeObject("downward_api", Nil, <<>>, [p \in {"p"} |-> f], <<>>) :
          f \in {[field |-> <<"a">>], [field |-> <<"a", ":", "b", ":", "c">>], [resource |-> <<"a">>], [resource |-> <<"a", ":", "b">>]}}
  \cup {VolumeObject("projected", Nil, <<>>, <<>>, <<[f |-> f, files |-> <<>>]>>) :
          f \in {<<>>, [secret |-> <<"s">>], [config |-> <<"c">>], [secret |-> <<"s">>, config |-> <<"c">>]}}

VolumeDocs ==
  {WithVolumes(<<v>>) : v \in KubeVolumes} \cup {WithVolumes(<<v, w>>) : v, w \in Few}
  \cup {[BlankKokiPod EXCEPT !.volumes = [n \in {"v"} |-> v]] : v \in {VolumeString(t) : t \in KokiTexts} \cup KokiObjects}

-----------------------------------------------------------------------------
PersistentFields ==
  [type \in DOMAIN PersistentForms |->
     CASE type = "local" -> {"Path"}
       [] type = "csi" -> {"Driver", "VolumeHandle", "ReadOnly"}
       [] type \in {"iscsi", "rbd", "cephfs", "azure_file", "scaleio", "storageos", "flex"} -> KubeFields[type] \cup {"SecretNamespace"}
       [] OTHER -> KubeFields[type]]

PersistentSources(type) ==
  Varied(type, PersistentFields[type],
         PersistentFields[type] \cap (Least(PersistentForms[type]) \cup PersistentForms[type].needs \cup {"SecretRef"}))

PVMeta == [APIVersion |-> <<"v1">>, Name |-> <<"n">>]
PV(type, f, meta, capacity, modes, options) == Manifest("kube", "persistent_volume", KubePersistentVolume(type, f, meta, capacity, modes, options))

Full ==
  [APIVersion |-> <<"v1">>, ClusterName |-> <<"cluster">>, Name |-> <<"name">>, Namespace |-> <<"namespace">>, Labels |-> <<"labels">>,
   Annotations |-> <<"annotations">>, ClaimRef |-> <<"claim">>, StorageClassName |-> <<"class">>, Phase |-> <<"Bound">>,
   Message |-> <<"message">>, Reason |-> <<"reason">>, ReclaimPolicy |-> <<"Retain">>]

PVDocs ==
  UNION {{PV(type, f, PVMeta, <<>>, <<>>, <<>>) : f \in PersistentSources(type)} : type \in DOMAIN PersistentForms}
  \cup {PV("local", [Path |-> <<"path">>], meta, capacity, modes, options) :
          meta \in {Full, PVMeta, Without(Full, {"Phase"}), Without(Full, {"Message"})}, capacity \in {<<>>, [storage |-> <<"1G">>], [cpu |-> <<"1">>]},
          modes \in {<<>>, << <<"ReadOnlyMany">>, <<"ReadWriteOnce">> >>, << <<"Other">> >>}, options \in {<<>>, << <<"a">>, <<"b">> >>}}
  \cup {Manifest("koki", "persistent_volume", KokiPersistentVolume(type, id, f, meta)) :
          type \in {"nfs", "host_path", "gce_pd", "local"}, id \in {Nil, <<"a">>, Colon, <<"a", ":", "b", ":", "ro">>},
          f \in {<<>>, [path |-> <<"path">>]}, meta \in {<<>>, [modes |-> <<"ro", ",", "rw">>, reclaim |-> <<"Retain">>], [modes |-> <<"x">>]}}
  \cup {Manifest("koki", "persistent_volume", KokiPersistentVolume("rbd", Nil, [secret |-> s], <<>>)) : s \in {<<"a">>, Colon, <<"a", ":", "b", ":", "c">>, <<":", "a">>}}

-----------------------------------------------------------------------------
K(v) == [k \in {"k"} |-> v]
KL(v, w) == [k \in {"k", "l"} |-> IF k = "k" THEN v ELSE w]

Requirements ==
  {Requirement("k", op, values) : op \in {"In", "NotIn"}, values \in {<<>>, <<1>>, <<1, 2>>}}
  \cup {Requirement("k", op, <<1>>) : op \in {"Gt", "Lt", NoOperator, "Bogus"}}
  \cup {Requirement("l", op, <<>>) : op \in {"Exists", "DoesNotExist", NoOperator}}

NodeTerms == {NodeTerm(<<>>), NodeTerm(<<Requirement("k", "Gt", <<1>>), Requirement("l", "In", <<0, 2>>)>>)} \cup {NodeTerm(<<r>>) : r \in Requirements}
FewNodeTerms == {NodeTerm(<<Requirement("k", op, <<1>>)>>) : op \in {"Gt", "Lt", "NotIn"}} \cup {NodeTerm(<<>>)}
NodeSelectors == {Nil, <<>>, K(1), KL(1, 2)}

Placed(selector, nodes, pods, antipods) == [BlankPod EXCEPT !.nodeSelector = selector, !.nodes = nodes, !.pods = pods, !.antipods = antipods]

PodSelectors ==
  {Nil, LabelSelector(Nil, <<>>), LabelSelector(K(1), <<>>), LabelSelector(KL(1, 2), <<>>),
   LabelSelector(K(1), <<Requirement("l", "NotIn", <<1, 2>>), Requirement("l", "Exists", <<>>)>>)}
  \cup {LabelSelector(Nil, <<r>>) : r \in {q \in Requirements : q.op \notin {"Gt", "Lt"}}}
FewPodTerms ==
  {PodTerm(LabelSelector(K(1), <<>>), topology, namespaces) : topology, namespaces \in {Empty, <<"x">>}}
  \cup {PodTerm(LabelSelector(Nil, <<Requirement("k", "In", <<1, 2>>)>>), <<"t">>, Empty)}

Toleration(f) == [BlankPod EXCEPT !.tolerations = <<f>>]
Tolerations ==
  UNION {[names -> {<<"v">>}] : names \in SUBSET {"Key", "Value"}}
  \cup {[Key |-> <<"k">>, Value |-> v] : v \in {<<"v">>, Colon}}

Strings ==
  {AffinityString(exprs, rest) :
     exprs \in {<<>>, <<Segment("k", "=", <<1>>)>>, <<Segment("k", "!=", <<1, 2>>), Segment("l", "!", <<>>)>>, <<Segment("k", ">", <<1>>)>>,
                <<Segment("k", "malformed", <<>>)>>, <<Segment("k", "=", <<>>)>>},
     rest \in {<<>>, <<"soft">>, <<"soft", 2>>, <<"soft", Nil>>, <<"hard">>}}
FewStrings == {AffinityString(<<Segment("k", "=", <<1>>)>>, rest) : rest \in {<<>>, <<"soft", 2>>}}
Affinities(strings) ==
  {Affinity(s, Nil, Nil, Empty, Empty) : s \in strings} \cup {Affinity(Nil, s, Nil, <<"t">>, Empty) : s \in strings}
  \cup {Affinity(Nil, Nil, s, Empty, <<"n">>) : s \in strings}

PlacementDocs ==
  {Placed(selector, Terms(hard, <<>>), NoTerms, NoTerms) : selector \in NodeSelectors, hard \in {<<>>} \cup {<<t>> : t \in NodeTerms}}
  \cup {Placed(Nil, Terms(hard, <<>>), NoTerms, NoTerms) : hard \in {<<t, u>> : t, u \in FewNodeTerms}}
  \cup {Placed(selector, Terms(hard, weighted), NoTerms, NoTerms) :
          selector \in {Nil, K(1)}, hard \in {<<>>} \cup {<<t>> : t \in FewNodeTerms},
          weighted \in {<<Weighted(w, t)>> : w \in {0, 1, 5}, t \in FewNodeTerms}
                   \cup {<<Weighted(1, t), Weighted(5, u)>> : t, u \in FewNodeTerms}}
  \cup UNION {{Placed(Nil, NoTerms, terms, NoTerms), Placed(Nil, NoTerms, NoTerms, terms)} :
                terms \in {Terms(<<PodTerm(sel, <<"t">>, Empty)>>, <<>>) : sel \in PodSelectors}
                          \cup {Terms(<<>>, <<Weighted(w, PodTerm(sel, <<"t">>, Empty))>>) : sel \in PodSelectors, w \in {0, 1, 5}}}
  \cup {Placed(Nil, Terms(<<t>>, <<Weighted(5, t)>>), Terms(<<u>>, <<Weighted(5, v)>>), Terms(<<v>>, <<Weighted(5, u)>>)) :
          t \in {NodeTerm(<<Requirement("k", "Gt", <<1>>)>>)}, u, v \in FewPodTerms}
  \cup {Toleration(Put(Put(Put(t, "Operator", op), "Effect", effect), "TolerationSeconds", seconds)) :
          t \in Tolerations, op \in {Empty, <<"Exists">>, <<"Equal">>, <<"Other">>}, effect \in {Empty, <<"NoExecute">>, <<"Other">>},
          seconds \in {Empty, <<"60">>}}
  \cup {[BlankKokiPod EXCEPT !.affinity = <<a>>] : a \in Affinities(Strings) \cup {Affinity(Nil, Nil, Nil, Empty, Empty)}}
  \cup {[BlankKokiPod EXCEPT !.affinity = <<a, b>>] : a, b \in Affinities(FewStrings)}
  \cup {[BlankKokiPod EXCEPT !.tolerations = <<[selector |-> t]>>] :
          t \in {<<"*">>, <<"k">>, <<"k", "=", "v">>, <<"k", "=", "v", ":", "NoExecute">>, <<"k", ":", "Other">>, <<"k", "=", "v", "=", "w">>,
                 <<"k", ":", "NoExecute", ":", "x">>, Empty}}

-----------------------------------------------------------------------------
WithContainer(c) == [BlankPod EXCEPT !.containers = <<c>>]
WithKokiContainer(k) == [BlankKokiPod EXCEPT !.containers = <<k>>]

ContainerValues(name) ==
  CASE name = "ImagePullPolicy" -> {<<v>> : v \in DOMAIN convertPullPolicy \cup {"other"}}
    [] name = "TerminationMessagePolicy" -> {<<v>> : v \in DOMAIN convertTerminationMsgPolicy \cup {"other"}}
    [] name \in {"Privileged", "AllowPrivilegeEscalation", "ReadOnlyRootFilesystem", "RunAsNonRoot"} -> {True, False}
    [] name \in {"Stdin", "StdinOnce", "TTY"} -> {True}
    [] OTHER -> {<<name>>}

SecurityContexts ==
  {<<>>, [RunAsUser |-> <<"1">>], [RunAsUser |-> <<"2">>, RunAsNonRoot |-> True],
   [RunAsNonRoot |-> False, RunAsGroup |-> <<"2">>, SELinuxOptions |-> <<"se">>]}

Vars ==
  {EnvVar(<<"N">>, "value", f) : f \in {<<>>, [Value |-> <<"v">>], [Value |-> <<"v", "=", "w">>], [Value |-> Colon]}}
  \cup {EnvVar(<<"N", "=", "M">>, "value", [Value |-> <<"v">>])}
  \cup {EnvVar(<<"N">>, "field", f) : f \in {[FieldPath |-> <<"metadata", ".", "name">>], [FieldPath |-> <<"spec", ".", "nodeName">>, APIVersion |-> <<"v1">>]}}
  \cup {EnvVar(<<"N">>, "resource", f) : f \in {[Resource |-> <<"limits", ".", "cpu">>], [Resource |-> <<"cpu">>],
                                                [Resource |-> <<"requests", ".", "cpu">>, Divisor |-> <<"1">>]}}
  \cup {EnvVar(<<"N">>, kind, f) : kind \in {"config", "secret"},
                                   f \in {[Object |-> <<"o">>, Key |-> <<"key">>], [Object |-> <<"o">>, Key |-> Colon], [Key |-> <<"key">>],
                                          [Object |-> <<"o">>, Key |-> <<"key">>, Optional |-> True]}}
Froms == {EnvVar(prefix, kind, f) : prefix \in {Empty, <<"P">>}, kind \in {"config", "secret"},
                                    f \in {[Object |-> <<"o">>], [Object |-> Colon], [Object |-> <<"o">>, Optional |-> False]}}
FewVars == {EnvVar(<<"N">>, "value", [Value |-> <<"v">>]), EnvVar(<<"N">>, "secret", [Object |-> <<"o">>, Key |-> <<"key">>]),
            EnvVar(<<"M">>, "resource", [Resource |-> <<"limits", ".", "cpu">>])}

Mounts ==
  {[MountPath |-> <<"path">>, Name |-> name] @@ rest : name \in {<<"v">>, Colon},
     rest \in {<<>>, [ReadOnly |-> True], [Propagation |-> <<"Other">>]} \cup {[Propagation |-> <<p>>] : p \in DOMAIN convertMountPropagation}
              \cup {[SubPath |-> sub] : sub \in {<<"sub">>, <<"ro">>, Colon}} \cup {[SubPath |-> sub, ReadOnly |-> True] : sub \in {<<"sub">>, Colon}}}

HTTP(f, port, headers) == Handler(Nil, [f |-> f, port |-> port, headers |-> headers], Nil)
TCP(f, port) == Handler(Nil, Nil, [f |-> f, port |-> port])
Ports == {Port(TRUE, <<"8080">>), Port(TRUE, <<"0">>), Port(FALSE, <<"web">>), Port(FALSE, Empty)}
Headers == {<<>>, <<[name |-> <<"H">>, value |-> <<"v">>]>>, <<[name |-> <<"H">>, value |-> Colon]>>}
Handlers ==
  {Handler(<<"command">>, Nil, Nil), Handler(Nil, Nil, Nil), Handler(<<"command">>, HTTP(<<>>, Port(FALSE, Empty), <<>>).http, Nil)}
  \cup {HTTP(f, Port(TRUE, <<"8080">>), headers) : f \in {<<>>, [Host |-> <<"h">>], [Host |-> Colon, Scheme |-> <<"HTTPS">>, Path |-> <<"/", "p">>]}, headers \in Headers}
  \cup {HTTP([Host |-> <<"h">>, Path |-> path], Port(TRUE, <<"8080">>), <<>>) : path \in {<<"p">>, <<"/">>, <<"/", "p">>, <<"/", "p", "?", "q">>}}
  \cup {HTTP([Host |-> <<"h">>, Scheme |-> <<"HTTPS">>], port, <<>>) : port \in Ports}
  \cup {TCP(f, port) : f \in {<<>>, [Host |-> <<"h">>], [Host |-> Colon]}, port \in Ports}

ProbeFields == {<<>>, [n \in DOMAIN Probe |-> <<n>>]}

URLs ==
  {<<scheme, "://">> \o rest : scheme \in {"HTTP", "https", "tcp", "ftp"},
     rest \in {<<"h">>, <<"h", ":", "80">>, <<"h", ":", "web", "/", "p">>, <<"h", ":", "80", "/", "p", "?", "q">>, <<"h", ":", "80", ":", "x">>, <<":", "80">>}}
  \cup {<<"h">>}

ContainerDocs ==
  UNION {{WithContainer([BlankContainer EXCEPT !.f = (n :> v) @@ @]) : v \in ContainerValues(n)} : n \in DOMAIN Container}
  \cup {WithContainer([BlankContainer EXCEPT !.f = [n \in DOMAIN Container |-> CHOOSE v \in ContainerValues(n) : v # <<"other">>]])}
  \cup {[WithContainer([BlankContainer EXCEPT !.f = @ @@ c]) EXCEPT !.f = p @@ @, !.init = init] :
          c, p \in SecurityContexts, init \in {<<>>, <<BlankContainer>>}}
  \cup {[WithContainer(BlankContainer) EXCEPT !.statuses = <<[ContainerID |-> <<"id">>, Name |-> <<"c">>]>>]}
  \cup {WithContainer([BlankContainer EXCEPT !.args = args]) :
          args \in {<< <<a>> >> : a \in DOMAIN Floats \cup {"a"}} \cup {<< <<"a", "=", "b">>, <<"80">> >>}}
  \cup {WithContainer([BlankContainer EXCEPT !.limits = l, !.requests = r]) :
          l, r \in {<<>>, [cpu |-> <<"1">>], [memory |-> <<"1G">>, cpu |-> <<"100m">>], [gpu |-> <<"1">>]}}
  \cup {WithContainer([BlankContainer EXCEPT !.env = <<e>>]) : e \in Vars}
  \cup {WithContainer([BlankContainer EXCEPT !.envFrom = <<e>>]) : e \in Froms}
  \cup {WithContainer([BlankContainer EXCEPT !.env = <<d, e>>, !.envFrom = <<g>>]) : d, e \in FewVars, g \in Froms}
  \cup {WithContainer([BlankContainer EXCEPT !.mounts = <<m>>]) : m \in Mounts}
  \cup UNION {{WithContainer([BlankContainer EXCEPT !.postStart = h]), WithContainer([BlankContainer EXCEPT !.preStop = h])} : h \in Handlers}
  \cup UNION {{WithContainer([BlankContainer EXCEPT !.liveness = [f |-> f, handler |-> h]]),
               WithContainer([BlankContainer EXCEPT !.readiness = [f |-> f, handler |-> h]])} : h \in Handlers, f \in ProbeFields}
  \cup UNION {{WithKokiContainer([BlankKokiContainer EXCEPT !.on_start = Action(Empty, NetAction(url, headers))]),
               WithKokiContainer([BlankKokiContainer EXCEPT !.liveness_probe = [f |-> <<>>, action |-> Action(Empty, NetAction(url, headers))]])} :
              url \in URLs, headers \in {<<>>, << <<"H", ":", "v">> >>, << <<"H">> >>}}
  \cup {WithKokiContainer([BlankKokiContainer EXCEPT !.f = f @@ @]) :
          f \in {[ro |-> ro, rw |-> rw] : ro, rw \in {True, False}} \cup {[ro |-> ro] : ro \in {True, False}} \cup {[rw |-> rw] : rw \in {True, False}}
                \cup {[pull |-> <<p>>] : p \in {"always", "if-not-present", "other"}} \cup {[container_id |-> <<"id">>, ready |-> True], [ready |-> True]}
                \cup {"cpu.max" :> q @@ "mem.min" :> <<"1G">> : q \in {<<"1">>, <<"much">>}}}
  \cup {WithKokiContainer([BlankKokiContainer EXCEPT !.volume = <<[store |-> store, propagation |-> <<p>>, mount |-> <<"path">>]>>]) :
          p \in {"none", "bidirectional", "other"},
          store \in {<<"v">>, <<"v", ":", "ro">>, <<"v", ":", "sub">>, <<"v", ":", "sub", ":", "rw">>, <<"v", ":", "a", ":", "b", ":", "ro">>}}
  \cup {WithKokiContainer([BlankKokiContainer EXCEPT !.env = <<e, EnvWithVal(<<"N">>)>>]) :
          e \in {EnvWithVal(<<"N", "=">>), EnvWithVal(<<"=", "v">>)}
                \cup {EnvWithFrom([key |-> <<"N">>, from |-> from, required |-> r]) : r \in {True, False},
                        from \in {<<"config", ":", "c">>, <<"secret", ":", "s", ":", "k">>, <<"config", ":", "c", ":", "k", ":", "x">>, <<"limits", ".", "cpu">>, <<"secret">>}}}

PodValues(name) ==
  CASE name = "DNSPolicy" -> {<<v>> : v \in DOMAIN convertDNSPolicy \cup {"other"}}
    [] name = "RestartPolicy" -> {<<v>> : v \in DOMAIN convertRestartPolicy \cup {"other"}}
    [] name = "Phase" -> {<<v>> : v \in DOMAIN convertPhase \cup {"other"}}
    [] name = "QOSClass" -> {<<v>> : v \in DOMAIN convertPodQOSClass \cup {"other"}}
    [] name \in {"HostNetwork", "HostPID", "HostIPC"} -> {True}
    [] name = "AutomountServiceAccountToken" -> {True, False}
    [] name \in {"Hostname", "Subdomain"} -> {<<name>>, <<"a", ".", "b">>}
    [] name = "ServiceAccountName" -> {<<name>>, Colon}
    [] OTHER -> {<<name>>}

PodNames ==
  DOMAIN PodTags
  \cup {"Hostname", "Subdomain", "ServiceAccountName", "AutomountServiceAccountToken", "HostNetwork", "HostPID", "HostIPC"}

AllPodFields == [n \in PodNames |-> CHOOSE v \in PodValues(n) : v \notin {<<"other">>, <<"a", ".", "b">>, Colon, False}]

Paired == {<<"Hostname", "Subdomain">>, <<"ServiceAccountName", "AutomountServiceAccountToken">>, <<"HostNetwork", "HostIPC">>}

PodFieldDocs ==
  UNION {{[BlankPod EXCEPT !.f = (n :> v) @@ @] : v \in PodValues(n)} : n \in PodNames}
  \cup UNION {{[BlankPod EXCEPT !.f = (q[1] :> v) @@ (q[2] :> w) @@ @] : v \in PodValues(q[1]), w \in PodValues(q[2])} : q \in Paired}
  \cup {[BlankPod EXCEPT !.f = AllPodFields]}
  \cup {[BlankPod EXCEPT !.aliases = <<[ip |-> ip, names |-> names]>>] : ip \in {Empty, <<"ip">>}, names \in {<<>>, << <<"a">> >>, << <<"a">>, <<"b">> >>}}
  \cup {[BlankPod EXCEPT !.registries = << <<"r">>, <<"s">> >>]}
  \cup {[BlankPod EXCEPT !.conditions = <<[Type |-> <<t>>, Status |-> <<v>>, Message |-> <<"m">>]>>] :
          t \in DOMAIN convertPodConditionType \cup {"other"}, v \in DOMAIN convertConditionStatus \cup {"other"}}
  \cup {[BlankKokiPod EXCEPT !.f = (f[1] :> f[2]) @@ @] :
          f \in {<<"hostname", <<"a", ".", "b">> >>, <<"hostname", <<".", "b">> >>, <<"hostname", <<"a", ".", "b", ".", "c">> >>, <<"account", <<":", "auto">> >>,
                 <<"account", <<"a", ":", "auto">> >>, <<"account", <<"a", ":", "x">> >>, <<"account", <<"a", ":", "auto", ":", "x">> >>,
                 <<"dns_policy", <<"other">> >>, <<"phase", <<"running">> >>}}
  \cup {[BlankKokiPod EXCEPT !.host_mode = modes] : modes \in {<< <<"ipc">>, <<"net">> >>, << <<"other">> >>}}
  \cup {[BlankKokiPod EXCEPT !.host_aliases = <<a>>] : a \in {<<"ip">>, <<"ip", " ", "a">>, <<"ip", " ", " ", "a", " ", "b">>, <<" ", "a">>}}

-----------------------------------------------------------------------------
Rules == {"SELinuxRule", "RunAsUserRule", "SupplementalGroupsRule", "FSGroupRule"}

PolicyValues(name) ==
  CASE name \in Rules -> {<<v>> : v \in DOMAIN convertUIDRule \cup {"other"}}
    [] name \in {"AllowPrivilegeEscalation", "DefaultAllowPrivilegeEscalation"} -> {True, False}
    [] name \in {"Privileged", "ReadOnlyRootFilesystem", "HostNetwork", "HostPID", "HostIPC"} -> {True}
    [] OTHER -> {<<name>>}

PolicyNames == DOMAIN PodSecurityPolicy \cup {"HostNetwork", "HostPID", "HostIPC"}
SELinuxNames == {"SELinuxRule", "SELinuxUser", "SELinuxRole", "SELinuxType", "SELinuxLevel"}
PolicyValue(name) == IF name \in Rules THEN <<"MustRunAs">> ELSE CHOOSE v \in PolicyValues(name) : TRUE

Policy(f, volumes, paths, drivers) ==
  Manifest("kube", "pod_security_policy", [f |-> f, volumes |-> volumes, paths |-> paths, drivers |-> drivers])
KokiPolicy(f, plugins, modes, paths) ==
  Manifest("koki", "pod_security_policy",
           [f |-> f, vol_plugins |-> plugins, host_mode |-> modes, host_paths_allowed |-> paths, flex_volumes_allowed |-> <<>>])

PolicyDocs ==
  UNION {{Policy(n :> v, <<>>, <<>>, <<>>) : v \in PolicyValues(n)} : n \in PolicyNames}
  \cup {Policy([n \in s |-> PolicyValue(n)], <<>>, <<>>, <<>>) : s \in SUBSET SELinuxNames \cup {PolicyNames}}
  \cup {Policy(<<>>, <<v, w>>, <<>>, <<>>) : v, w \in {<<x>> : x \in DOMAIN convertVolumePlugin \cup {"other"}} \cup {Empty}}
  \cup {Policy(<<>>, <<>>, paths, drivers) : paths, drivers \in {<<>>, << <<"a">>, Empty, <<"b">> >>, << <<"a">> >>}}
  \cup {KokiPolicy(r :> <<v>>, <<>>, <<>>, <<>>) : r \in {PodSecurityPolicy[n] : n \in Rules}, v \in Range(convertUIDRule) \cup {"other"}}
  \cup {KokiPolicy(<<>>, plugins, modes, paths) : plugins \in {<< <<"flex">> >>, << <<"flexVolume">> >>},
           modes \in {<<>>, << <<"pid">>, <<"net">> >>, << <<"other">> >>}, paths \in {<<>>, <<Empty>>}}

Hook(name, service, rules, selector) == KubeWebhook(name, <<>>, service, rules, selector)
Hooks(list) == Manifest("kube", "webhooks", list)
Lists(words) == {<<>>} \cup {<<w>> : w \in words} \cup {<<v, w>> : v, w \in words}
OperationLists == {<<>>, << <<"*">> >>, << <<"other">> >>, << <<"CREATE">>, <<"other">> >>, << <<"CREATE">>, <<"UPDATE">>, <<"DELETE">> >>,
                   << <<"CONNECT">>, <<"CREATE">>, <<"UPDATE">>, <<"DELETE">> >>}
OneRule == KubeRule(<<Empty>>, << <<"v1">> >>, << <<"pods">> >>, << <<"CREATE">>, <<"DELETE">> >>)
RuleDocs ==
  {KubeRule(groups, << <<"v1">> >>, resources, << <<"UPDATE">> >>) :
     groups \in Lists({Empty, <<"apps">>}), resources \in Lists({<<"pods">>, <<"pods", "/", "status">>})}
  \cup {[OneRule EXCEPT !.operations = operations, !.versions = versions] :
           operations \in OperationLists, versions \in {<<>>, << <<"v1">> >>, << <<"v1">>, <<"v2">> >>}}
Versions == <<"v1", "v2", "v3">>
HookServices ==
  {Nil} \cup {ServiceReference(ns, <<"name">>, path) : ns \in {Empty, <<"ns">>}, path \in {Nil, Empty, <<"/", "p">>, <<"/", "p", ":", "q">>}}
KokiHook(name, service, rules, selector) == [name |-> name, f |-> <<>>, service |-> service, rules |-> rules, selector |-> selector]
KokiRules ==
  {[text |-> t] : t \in {<<"v1", "/", "pods", "/", "CREATE">>, <<"g", "/", "v1", "/", "pods", "/", "CREATE", "|", "other">>, <<"v1", "/", "pods">>,
                          <<"g", "/", "v1", "/", "pods", "/", "status", "/", "*">>}}
  \cup {[lists |-> KubeRule(groups, << <<"v1">> >>, << <<"pods", "/", "status">> >>, operations)] :
           groups \in {<<>>, <<Empty>>}, operations \in {<<>>, << <<"CREATE">>, <<"UPDATE">> >>, << <<"CREATE", "|", "CONNECT">> >>}}

WebhookDocs ==
  {Hooks(<<Hook(<<"a">>, Nil, <<r>>, Nil)>>) : r \in RuleDocs}
  \cup {Hooks(<<Hook(<<"a">>, s, <<OneRule>>, Nil)>>) : s \in HookServices}
  \cup {Hooks(<<Hook(<<"a">>, Nil, <<>>, sel)>>) : sel \in PodSelectors}
  \cup {Hooks(<<KubeWebhook(<<"a">>, f, Nil, <<OneRule, OneRule>>, Nil)>>) :
           f \in {[n \in s |-> <<n>>] : s \in SUBSET DOMAIN Webhook}}
  \cup {Hooks([i \in DOMAIN names |-> Hook(names[i], Nil, <<[OneRule EXCEPT !.versions = << <<Versions[i]>> >>]>>, Nil)]) :
           names \in {<<>>} \cup {<<v, w, x>> : v, w, x \in {<<"a">>, <<"b">>, Empty}}}
  \cup {Manifest("koki", "webhooks", [key \in {<<"a">>, <<"b">>} |-> KokiHook(IF key = <<"a">> THEN name ELSE <<"b">>, s, <<r>>, Nil)]) :
           name \in {Empty, <<"a">>, <<"b">>}, r \in KokiRules, s \in {Empty, <<"ns", "/", "name">>, <<"name", ":", "/", "p">>, <<":">>}}
  \cup {Manifest("koki", "webhooks", <<"a">> :> KokiHook(<<"a">>, Empty, <<>>, RSSelector(<<Segment("k", op, <<1>>)>>, Nil))) : op \in {"=", "!=", "malformed"}}

AccessNames == {<<"n">>, <<"system", ":", "n">>, <<"n", "\\">>, <<"\\", ":", "n">>, <<"\\", "\\", ":">>, <<":", ":">>}
Groups == {Empty, <<"apps">>, <<"rbac", ".", "k8s", ".", "io">>}
AggregatedSelectors == {LabelSelector(Nil, <<>>), LabelSelector(K(1), <<>>)} \cup (PodSelectors \ {Nil})

AccessDocs ==
  {Manifest("kube", "binding", [subjects |-> <<Reference(group, <<"User">>, ns, name)>>, role |-> Reference(<<"rbac">>, <<"Role">>, Empty, <<"r">>)]) :
     group \in Groups, ns \in {Empty, <<"ns">>}, name \in AccessNames}
  \cup {Manifest("kube", "binding", [subjects |-> <<>>, role |-> Reference(group, <<"Role">>, Empty, name)]) : group \in Groups, name \in AccessNames}
  \cup {Manifest("koki", "binding", [subjects |-> <<s>>, role |-> role]) :
           s \in {<<"User">>, <<"User", ":", "\\", "n">>, <<".", "User", ":", ":", "n">>, <<"User", ":", "a", ":", "b", ":", "c">>, <<"User", ":", "n", "\\">>},
           role \in {<<"Role", ":", "r">>, <<".", "Role", ":", "r">>, <<"rbac", ".", "Role", ":", "a", ":", "b">>, <<"rbac", ".", "Role", ":", "a", "\\", ":", "b">>}}
  \cup {Manifest("kube", "cluster_role", [rules |-> <<[n \in s |-> <<n>>], [Verbs |-> <<"get">>]>>, aggregation |-> a]) :
           s \in {{"Verbs"}, DOMAIN PolicyRule}, a \in {Nil, <<>>} \cup {<<sel>> : sel \in AggregatedSelectors} \cup {<<sel, LabelSelector(K(1), <<>>)>> : sel \in AggregatedSelectors}}
  \cup {Manifest("koki", "cluster_role", [rules |-> <<>>, aggregation |-> << <<Segment("k", op, <<1>>), Segment("k", "=", <<2>>)>> >>]) : op \in {"=", "!=", "malformed"}}
  \cup {Manifest("kube", "hpa", [f |-> [n \in s |-> <<n>>], target |-> Reference(group, <<"Deployment">>, Empty, name)]) :
           s \in {{}, DOMAIN HorizontalPodAutoscaler}, group \in Groups \cup {<<"apps", "/", "v1">>}, name \in AccessNames}
  \cup {Manifest("koki", "hpa", [f |-> <<>>, ref |-> ref]) : ref \in {<<"Deployment">>, <<".", "Deployment", ":", "n">>, <<"apps", ".", "Deployment", ":">>}}

-----------------------------------------------------------------------------
ControllerValues(kind, n) ==
  CASE n = "PodManagementPolicy" -> {<<v>> : v \in DOMAIN convertPodManagementPolicy}
    [] n = "ConcurrencyPolicy" -> {<<v>> : v \in DOMAIN convertConcurrencyPolicy}
    [] n = "AccessModes" -> {<<"ReadWriteOnce", "ReadOnlyMany">>}
    [] n = "Phase" -> {<<v>> : v \in DOMAIN convertPVCPhase}
    [] n \in {"Requests", "Capacity"} -> {[storage |-> <<"1G">>], [storage |-> <<"1G">>, gpu |-> <<"1">>], [gpu |-> <<"1">>]}
    [] kind = "pdb" /\ n \in {"MaxUnavailable", "MinAvailable"} -> {Port(TRUE, <<"80">>), Port(FALSE, <<"50%">>), Port(TRUE, <<"1000000">>), Port(FALSE, <<"inf">>)}
    [] OTHER -> {<<n>>}

Unknown(n) == IF n \in {"PodManagementPolicy", "ConcurrencyPolicy", "AccessModes", "Phase"} THEN {<<"other">>} ELSE {}

SpecNames(kind) == (DOMAIN Specs[kind] \ (StrategyFields(kind) \cup {"Storage"})) \cup (IF kind = "pvc" THEN {"Requests"} ELSE {})
StatusNames(kind) == (DOMAIN Statuses[kind] \ {"Storage"}) \cup (IF kind = "pvc" THEN {"Capacity"} ELSE {})
Some(kind, names) == [n \in names |-> CHOOSE v \in ControllerValues(kind, n) : TRUE]
NoStrategy == Strategy(Empty, Nil)
OneTemplate(kind) == IF HasTemplate(kind) THEN [NodeName |-> <<"node">>] ELSE <<>>
Kube(kind, c) == Manifest("kube", kind, c)
Blank(kind) == Controller(<<>>, NoStrategy, OneTemplate(kind), <<>>, <<>>, <<>>)
Complete(kind) == Controller(Some(kind, SpecNames(kind)), NoStrategy, OneTemplate(kind), Some(kind, StatusNames(kind)), <<>>, <<>>)

RollingOptions(kind) == {Nil} \cup {[n \in s |-> <<n>>] : s \in SUBSET (StrategyFields(kind) \ {"Recreate", "OnDelete"})}
Conditions(kind) ==
  {[Type |-> <<t>>, Status |-> <<v>>, Message |-> <<"m">>] :
     t \in DOMAIN ConditionTypes[kind] \cup {"other"}, v \in DOMAIN convertConditionStatus \cup {"other"}}
  \cup {[Status |-> <<"True">>, Reason |-> <<"r">>, LastTransitionTime |-> <<"t">>]}

\* The fields of the pod template, and those of the same name elsewhere.
TemplateDocs(kind) ==
  {Kube(kind, [Blank(kind) EXCEPT !.template = [n \in s |-> <<n>>], !.f = f]) :
     s \in SUBSET {"ActiveDeadlineSeconds", "NodeName"}, f \in {<<>>, Some(kind, SpecNames(kind) \cap {"ActiveDeadlineSeconds"})}}
  \cup {Kube(kind, [Blank(kind) EXCEPT !.f = Some(kind, s \cap SpecNames(kind)), !.status = Some(kind, t \cap StatusNames(kind))]) :
           s, t \in SUBSET {"Replicas", "AccessModes"}}

ControllerDocs ==
  UNION {UNION {{Kube(kind, [Blank(kind) EXCEPT !.f = n :> v]) : v \in ControllerValues(kind, n) \cup Unknown(n)} : n \in SpecNames(kind)}
         \cup UNION {{Kube(kind, [Blank(kind) EXCEPT !.status = n :> v]) : v \in ControllerValues(kind, n) \cup Unknown(n)} : n \in StatusNames(kind)}
         \cup {Kube(kind, Complete(kind))} : kind \in ControllerKinds}
  \cup UNION {TemplateDocs(kind) : kind \in {k \in ControllerKinds : HasTemplate(k)}}
  \cup UNION {{Kube(kind, [Blank(kind) EXCEPT !.strategy = Strategy(type, rolling)]) :
                  type \in {Empty, <<"RollingUpdate">>, <<"Recreate">>, <<"OnDelete">>}, rolling \in RollingOptions(kind)} :
               kind \in {"deployment", "daemon_set", "stateful_set"}}
  \cup UNION {{Kube(kind, [Blank(kind) EXCEPT !.conditions = <<c>>]) : c \in Conditions(kind)} : kind \in DOMAIN ConditionTypes}
  \cup {Kube("stateful_set", [Complete("stateful_set") EXCEPT !.claims = claims]) :
           claims \in {<<Complete("pvc")>>, <<Blank("pvc"), [Blank("pvc") EXCEPT !.status = [Phase |-> <<"Bound">>, AccessModes |-> <<"ReadWriteMany">>]]>>}}
  \cup {Manifest("koki", kind, [f |-> ("node" :> <<"node">>) @@ f, condition |-> <<>>, pvcs |-> <<>>]) :
           kind \in {"job", "cron_job"}, f \in {<<>>, [active_deadline |-> <<"1">>]}}
  \cup {Manifest("koki", "cron_job", [f |-> ("node" :> <<"node">>) @@ f, condition |-> <<>>, pvcs |-> <<>>]) :
           f \in {[start_deadline |-> <<"1">>, max_success_history |-> <<"1">>], [concurrency |-> <<"other">>]}}
  \cup {Manifest("koki", "stateful_set", [f |-> ("node" :> <<"node">>) @@ f, condition |-> <<>>, pvcs |-> <<[f |-> claim, condition |-> <<>>]>>]) :
           f \in {[replicas |-> <<"1">>, replace_on_delete |-> True, partition |-> <<"1">>], [pod_policy |-> <<"other">>]},
           claim \in {[storage |-> <<"1G">>, access_modes |-> <<"rw_once">>], [storage |-> <<"much">>], [access_modes |-> <<"other">>], [phase |-> <<"other">>]}}

-----------------------------------------------------------------------------
Resource(f, names, items) == [f |-> f, names |-> names, items |-> items]

\* Every value of an enumeration and one that is not in it, and otherwise the
\* name of the field.
Values(table, n) == IF n \in DOMAIN table THEN {<<v>> : v \in DOMAIN table[n] \cup {"other"}} ELSE {<<n>>}
Known(table, n) == CHOOSE v \in Values(table, n) : v # <<"other">>
Objects(tags, table) ==
  UNION {{n :> v : v \in Values(table, n)} : n \in DOMAIN tags} \cup {[n \in DOMAIN tags |-> Known(table, n)]}
  \cup (IF {"Type", "Status"} \subseteq DOMAIN table THEN {[Type |-> <<t>>, Status |-> v] : t \in DOMAIN table["Type"], v \in Values(table, "Status")} ELSE {})

ResourceDocs ==
  UNION {{Kube(kind, Resource(f, <<>>, <<>>)) : f \in Objects(Tags[kind], Get(convertFields, kind))} : kind \in DOMAIN Tags}
  \cup UNION {{Kube(kind, Resource(<<>>, <<>>, items)) : items \in {<<>>} \cup {<<i, j>> : i \in Objects(ItemTags[kind], Get(convertItems, kind)),
                                                                                    j \in {[n \in DOMAIN ItemTags[kind] |-> Known(Get(convertItems, kind), n)]}}} :
              kind \in DOMAIN ItemTags}
  \cup UNION {{Kube(kind, Resource(<<>>, <<n, m>>, <<>>)) : n \in {<<v>> : v \in DOMAIN convertNames[kind] \cup {"other"}},
                                                          m \in {<<CHOOSE v \in DOMAIN convertNames[kind] : TRUE>>, Empty}} : kind \in DOMAIN convertNames}
  \cup {Manifest("koki", "event", Resource(f, <<>>, <<>>)) :
           f \in {[n \in s |-> IF n = "series_state" THEN <<"ongoing">> ELSE <<"1">>] : s \in SUBSET {"series_count", "series_state", "last_observed"}}}
  \cup {Manifest("koki", "namespace", Resource(<<>>, <<Empty>>, <<>>)), Manifest("koki", "csr", Resource([extra |-> <<"x">>], <<>>, <<>>))}

\* With each of the ways to write an address and what is not one, alone and
\* beside or as a host name.
Endpoints ==
  {[ip |-> ip, hostname |-> name] : ip \in DOMAIN Addresses \cup {Empty, <<"10", ".", "0">>}, name \in {Empty, <<"h">>, <<"h", ".", "d">>, IPv4}}

IngressDocs ==
  {Kube("ingress", [backend |-> Nil, tls |-> <<>>, rules |-> <<>>, endpoints |-> <<e, f>>]) : e \in Endpoints, f \in Endpoints}
  \cup {Kube("ingress", [backend |-> b, tls |-> tls, rules |-> rules, endpoints |-> <<>>]) :
     b \in {Nil} \cup {IngressBackend(name, port) : name \in {Empty, <<"s">>}, port \in Ports}, tls \in {<<>>, <<[Hosts |-> <<"h">>]>>},
     rules \in {<<>>} \cup {<<[host |-> <<"h">>, http |-> http]>> : http \in {Nil, <<>>, <<[path |-> <<"/">>, backend |-> IngressBackend(<<"s">>, Port(TRUE, <<"80">>))]>>}}}
  \cup {Manifest("koki", "ingress", [backend |-> name, backend_port |-> port, tls |-> <<>>, rules |-> <<>>, endpoints |-> endpoints]) :
           name \in {Empty, <<"s">>}, port \in {Nil, Port(TRUE, <<"80">>)},
           endpoints \in {<<>>} \cup {<<text>> : text \in DOMAIN Addresses \cup {Empty, <<"h">>}}}

InitializerRules ==
  {InitializerRule(groups, << <<"v1">> >>, << r >>) : groups \in Lists({Empty, <<"apps">>}), r \in {<<"pods">>, <<"pods", "/", "status">>}}
  \cup {InitializerRule(<<Empty>>, versions, << <<"pods">> >>) : versions \in {<<>>, << <<"v1">>, <<"v2">> >>}}

InitializerDocs ==
  {Kube("initializer_config", <<[name |-> <<"a">>, rules |-> <<r>>], [name |-> name, rules |-> rules]>>) :
     r \in InitializerRules, name \in {<<"a">>, <<"b">>},
     rules \in {<<>>, <<InitializerRule(<<Empty>>, << <<"v2">> >>, << <<"jobs">> >>), InitializerRule(<<>>, << <<"v3">> >>, << <<"jobs">> >>)>>}}
  \cup {Manifest("koki", "initializer_config", <<"a">> :> [name |-> <<"a">>, rules |-> <<text>>]) :
           text \in {<<"pods">>, <<"v1", "/", "pods">>, <<"/", "v1", "/", "pods">>, <<"g", "/", "v1", "/", "pods", "/", "status">>}}

\* One of the parts of a preset at a time, and few of them together.
FewMounts == {[MountPath |-> <<"path">>, Name |-> <<"v">>, ReadOnly |-> True]}
PresetDocs ==
  {Kube("pod_preset", PodPreset(<<e, v>>, <<>>, <<>>, <<>>, LabelSelector(K(1), <<>>))) : e \in Vars, v \in FewVars}
  \cup {Kube("pod_preset", PodPreset(<<>>, <<e>>, <<m>>, <<>>, LabelSelector(K(1), <<>>))) : e \in Froms, m \in Mounts}
  \cup {Kube("pod_preset", PodPreset(<<v>>, <<>>, <<m>>, vols, sel)) :
           v \in FewVars, m \in FewMounts, vols \in {<<>>} \cup {<<x, y>> : x, y \in Few}, sel \in PodSelectors \ {Nil}}
  \cup {Manifest("koki", "pod_preset", [env |-> <<>>, mounts |-> <<[mount |-> <<"path">>, store |-> store]>>, volumes |-> "v" :> VolumeString(text), selector |-> sel]) :
           store \in {<<"v">>, <<"v", ":", "x", ":", "y">>, <<"a", ":", "b", ":", "c", ":", "d">>}, text \in {<<"empty_dir">>, <<"pvc", ":", "a">>, <<"other">>},
           sel \in {Nil, RSSelector(<<>>, K(1)), RSSelector(<<Segment("k", "malformed", <<1>>)>>, Nil)}}

TemplateNames == PodNames \ DOMAIN (PodTemplateMeta @@ PodStatus)
TemplateResourceDocs ==
  {Kube("pod_template", [meta |-> meta, f |-> f]) :
     meta \in {[n \in s |-> <<n>>] : s \in {{}, {"Name"}, DOMAIN PodTemplateMeta}},
     f \in {<<>>, [n \in TemplateNames |-> AllPodFields[n]]} \cup UNION {{n :> v : v \in PodValues(n)} : n \in TemplateNames}}
  \cup {Manifest("koki", "pod_template", [pod_meta |-> <<>>, f |-> <<>>, host_mode |-> modes]) : modes \in {<<>>, << <<"net">>, <<"pid">> >>, << <<"other">> >>}}

\* The same containers as init containers.
InitDocs ==
  {[d EXCEPT !.init = d.containers, !.containers = <<BlankContainer>>] : d \in {d \in ContainerDocs : d.syntax = "kube"}}

MCFirstDocs ==
  InitDocs \cup PresetDocs \cup TemplateResourceDocs \cup
  ResourceDocs \cup IngressDocs \cup InitializerDocs \cup ControllerDocs \cup VolumeDocs \cup PVDocs \cup PlacementDocs \cup ContainerDocs \cup PodFieldDocs \cup PolicyDocs \cup WebhookDocs \cup AccessDocs
=============================================================================
