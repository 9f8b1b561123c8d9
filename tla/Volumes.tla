------------------------------ MODULE Volumes -------------------------------
(***************************************************************************)
(* The volumes of a pod: their Go types, how these are written in Short    *)
(* syntax and read again (types/volume.go), and their conversion to and    *)
(* from Kubernetes syntax.                                                 *)
(*                                                                         *)
(* A volume has a type, fields f by their Go names, and, for the types     *)
(* that have them, files (a list of items in Kubernetes, a map in Short)   *)
(* and projected sources.  A volume has one source.  Lists, maps and       *)
(* numbers that are only copied are one value.                             *)
(***************************************************************************)
EXTENDS Text

-----------------------------------------------------------------------------
(***************************************************************************)
(* The Go types: the names their fields have in Short syntax.  A field     *)
(* with the tag "-" is not here: it is part of the selector.               *)
(***************************************************************************)
NoTags == <<>>
HostPathVolume == NoTags
EmptyDirVolume == [Medium |-> "medium", SizeLimit |-> "max_size"]
GcePDVolume == [FSType |-> "fs", Partition |-> "partition", ReadOnly |-> "ro"]
AwsEBSVolume == [FSType |-> "fs", Partition |-> "partition", ReadOnly |-> "ro"]
AzureDiskVolume ==
  [DiskName |-> "disk_name", DataDiskURI |-> "disk_uri", CachingMode |-> "cache", FSType |-> "fs", ReadOnly |-> "ro", Kind |-> "kind"]
AzureFileVolume == NoTags
CephFSVolume == [Monitors |-> "monitors", Path |-> "path", User |-> "user", SecretFileOrRef |-> "secret", ReadOnly |-> "ro"]
CinderVolume == [FSType |-> "fs", ReadOnly |-> "ro"]
FibreChannelVolume == [TargetWWNs |-> "wwn", Lun |-> "lun", FSType |-> "fs", ReadOnly |-> "ro", WWIDs |-> "wwid"]
FlexVolume == [FSType |-> "fs", SecretRef |-> "secret", ReadOnly |-> "ro", Options |-> "options"]
FlockerVolume == NoTags
GlusterfsVolume == [EndpointsName |-> "endpoints", Path |-> "path", ReadOnly |-> "ro"]
ISCSIVolume ==
  [TargetPortal |-> "target_portal", IQN |-> "iqn", Lun |-> "lun", ISCSIInterface |-> "iscsi_interface", FSType |-> "fs",
   ReadOnly |-> "ro", Portals |-> "portals", DiscoveryCHAPAuth |-> "chap_discovery", SessionCHAPAuth |-> "chap_session",
   SecretRef |-> "secret", InitiatorName |-> "initiator"]
NFSVolume == NoTags
PhotonPDVolume == NoTags
PortworxVolume == [FSType |-> "fs", ReadOnly |-> "ro"]
PVCVolume == NoTags
QuobyteVolume == [Registry |-> "registry", ReadOnly |-> "ro", User |-> "user", Group |-> "group"]
ScaleIOVolume ==
  [Gateway |-> "gateway", System |-> "system", SecretRef |-> "secret", SSLEnabled |-> "ssl", ProtectionDomain |-> "protection_domain",
   StoragePool |-> "storage_pool", StorageMode |-> "storage_mode", FSType |-> "fs", ReadOnly |-> "ro"]
VsphereVolume == [FSType |-> "fs", StoragePolicyName |-> "policy.name", StoragePolicyID |-> "policy.id"]
ConfigMapVolume == [DefaultMode |-> "mode", Required |-> "required"]
SecretVolume == [DefaultMode |-> "mode", Required |-> "required"]
DownwardAPIVolume == [DefaultMode |-> "mode"]
ProjectedVolume == [DefaultMode |-> "mode"]
GitVolume == [Revision |-> "rev", Directory |-> "dir"]
RBDVolume ==
  [CephMonitors |-> "monitors", RBDImage |-> "image", FSType |-> "fs", RBDPool |-> "pool", RadosUser |-> "user",
   Keyring |-> "keyring", SecretRef |-> "secret", ReadOnly |-> "ro"]
StorageOSVolume == [VolumeNamespace |-> "vol_ns", FSType |-> "fs", ReadOnly |-> "ro", SecretRef |-> "secret"]

\* The types that have a field without omitempty, which is always written.
AlwaysObjects == {"azure_disk", "cephfs", "glusterfs", "iscsi", "quobyte", "scaleio", "projected", "rbd"}

-----------------------------------------------------------------------------
(***************************************************************************)
(* How a type is written: the fields of its selector, in their order, how  *)
(* many of them must be there, its other fields, and the fields without    *)
(* which it is not written.                                                *)
(***************************************************************************)
Form(selector, least, tags, needs) == [selector |-> selector, least |-> least, tags |-> tags, needs |-> needs]

HostPath == Form(<<"Path", "Type">>, 1, HostPathVolume, {})
EmptyDir == Form(<<>>, 0, EmptyDirVolume, {})
GcePD == Form(<<"PDName">>, 1, GcePDVolume, {"PDName"})
AwsEBS == Form(<<"VolumeID">>, 1, AwsEBSVolume, {"VolumeID"})
AzureDisk == Form(<<>>, 0, AzureDiskVolume, {"DiskName", "DataDiskURI"})
AzureFile == Form(<<"SecretName", "ShareName", "ReadOnly">>, 2, AzureFileVolume, {})
CephFS == Form(<<>>, 0, CephFSVolume, {})
Cinder == Form(<<"VolumeID">>, 1, CinderVolume, {})
FibreChannel == Form(<<>>, 0, FibreChannelVolume, {})
Flex == Form(<<"Driver">>, 1, FlexVolume, {})
Flocker == Form(<<"DatasetUUID">>, 1, FlockerVolume, {})
Glusterfs == Form(<<>>, 0, GlusterfsVolume, {})
ISCSI == Form(<<>>, 0, ISCSIVolume, {})
NFS == Form(<<"Server", "Path", "ReadOnly">>, 2, NFSVolume, {})
PhotonPD == Form(<<"PdID", "FSType">>, 1, PhotonPDVolume, {})
Portworx == Form(<<"VolumeID">>, 1, PortworxVolume, {})
PVC == Form(<<"ClaimName", "ReadOnly">>, 1, PVCVolume, {})
Quobyte == Form(<<"Volume">>, 1, QuobyteVolume, {})
ScaleIO == Form(<<"VolumeName">>, 1, ScaleIOVolume, {})
Vsphere == Form(<<"VolumePath">>, 1, VsphereVolume, {})
ConfigMap == Form(<<"Name">>, 1, ConfigMapVolume, {})
Secret == Form(<<"SecretName">>, 1, SecretVolume, {})
DownwardAPI == Form(<<>>, 0, DownwardAPIVolume, {})
Projected == Form(<<>>, 0, ProjectedVolume, {})
Git == Form(<<"Repository">>, 1, GitVolume, {})
RBD == Form(<<>>, 0, RBDVolume, {})
StorageOS == Form(<<"VolumeName">>, 1, StorageOSVolume, {})

Forms ==
  [host_path |-> HostPath, empty_dir |-> EmptyDir, gce_pd |-> GcePD, aws_ebs |-> AwsEBS, azure_disk |-> AzureDisk,
   azure_file |-> AzureFile, cephfs |-> CephFS, cinder |-> Cinder, fc |-> FibreChannel, flex |-> Flex, flocker |-> Flocker,
   glusterfs |-> Glusterfs, iscsi |-> ISCSI, nfs |-> NFS, photon |-> PhotonPD, portworx |-> Portworx, pvc |-> PVC,
   quobyte |-> Quobyte, scaleio |-> ScaleIO, vsphere |-> Vsphere, secret |-> Secret, downward_api |-> DownwardAPI,
   projected |-> Projected, git |-> Git, rbd |-> RBD, storageos |-> StorageOS] @@ ("config-map" :> ConfigMap)

-----------------------------------------------------------------------------
(***************************************************************************)
(* The texts of fields that have several parts                             *)
(***************************************************************************)
\* A regular expression tells a mode from a part of the key: 0644, not 07.
ThreeDigits(mode) == mode \in {"0644", "0400", "0755"}

MarshalKeyAndMode(f) == Get(f, "Key") \o (IF "Mode" \in DOMAIN f THEN <<":">> \o f.Mode ELSE Empty)

UnmarshalKeyAndMode(s) ==
  IF Len(s) > 1 /\ s[Len(s) - 1] = ":" /\ ThreeDigits(Last(s))
  THEN Put([Mode |-> <<Last(s)>>], "Key", SubSeq(s, 1, Len(s) - 2))
  ELSE Put(<<>>, "Key", s)

\* path:version, and the container, its resource and a divisor: the last
\* part may be missing.
Parts(f, names) ==
  Join([i \in 1..(IF Last(names) \in DOMAIN f THEN Len(names) ELSE Len(names) - 1) |-> Get(f, names[i])], ":")

FromParts(s, names) ==
  LET parts == Split(s, ":")
  IN  IF Len(parts) \notin Len(names) - 1..Len(names) THEN {}
      ELSE {FoldLeft(LAMBDA f, i : Put(f, names[i], parts[i]), <<>>, [i \in DOMAIN parts |-> i])}

ObjectFieldSelector == <<"FieldPath", "APIVersion">>
VolumeResourceFieldSelector == <<"ContainerName", "Resource", "Divisor">>

MarshalDownwardAPIVolumeFile(f) ==
  Put(Put(Put(<<>>, "field", IF "FieldPath" \in DOMAIN f THEN Parts(f, ObjectFieldSelector) ELSE Empty),
          "resource", IF "Resource" \in DOMAIN f THEN Parts(f, VolumeResourceFieldSelector) ELSE Empty),
      "mode", Get(f, "Mode"))

UnmarshalDownwardAPIVolumeFile(k) ==
  {Put(field @@ resource, "Mode", Get(k, "mode")) :
     field \in IF "field" \in DOMAIN k THEN FromParts(k.field, ObjectFieldSelector) ELSE {<<>>},
     resource \in IF "resource" \in DOMAIN k THEN FromParts(k.resource, VolumeResourceFieldSelector) ELSE {<<>>}}

MarshalFiles(type, files) ==
  [path \in DOMAIN files |->
     IF type = "downward_api" THEN MarshalDownwardAPIVolumeFile(files[path]) ELSE [key |-> MarshalKeyAndMode(files[path])]]

UnmarshalFiles(type, files) ==
  Results(LAMBDA k : IF type = "downward_api" THEN UnmarshalDownwardAPIVolumeFile(k) ELSE {UnmarshalKeyAndMode(k.key)}, files)

\* A secret is preferred to a file.
MarshalCephFSSecret(f) ==
  CASE "SecretRef" \in DOMAIN f -> <<"ref", ":">> \o f.SecretRef
    [] "SecretRef" \notin DOMAIN f /\ "SecretFile" \in DOMAIN f -> <<"file", ":">> \o f.SecretFile
    [] OTHER -> Empty

UnmarshalCephFSSecret(s) ==
  LET parts == SplitInTwo(s, ":")
  IN  IF s = Empty THEN {<<>>}
      ELSE IF Len(parts) < 2 THEN {}
      ELSE CASE parts[1] = <<"file">> -> {Put(<<>>, "SecretFile", parts[2])}
             [] parts[1] = <<"ref">> -> {Put(<<>>, "SecretRef", parts[2])}
             [] OTHER -> {}

\* A projection of a secret or a config map has its name; one that has
\* neither is one of the downward API.
MarshalVolumeProjection(p) ==
  [f |-> CASE p.type = "secret" -> [secret |-> Get(p.f, "Name")]
           [] p.type = "config-map" -> [config |-> Get(p.f, "Name")]
           [] p.type = "downward_api" -> <<>>,
   files |-> MarshalFiles(p.type, p.files)]

UnmarshalVolumeProjection(k) ==
  LET type == CASE "secret" \in DOMAIN k.f -> "secret"
                [] "secret" \notin DOMAIN k.f /\ "config" \in DOMAIN k.f -> "config-map"
                [] OTHER -> "downward_api"
      name == CASE type = "secret" -> k.f.secret [] type = "config-map" -> k.f.config [] OTHER -> Empty
  IN  {[type |-> type, f |-> Put(<<>>, "Name", name), files |-> files] : files \in UnmarshalFiles(type, k.files)}

-----------------------------------------------------------------------------
(***************************************************************************)
(* Volumes in Short syntax: a string, or an object with the selector as    *)
(* its vol_id.                                                             *)
(***************************************************************************)
Volume(type, f, files, sources) == [type |-> type, f |-> f, files |-> files, sources |-> sources]

VolumeString(text) == [text |-> text, vol_type |-> Nil, vol_id |-> Nil, f |-> <<>>, files |-> <<>>, sources |-> <<>>]
VolumeObject(type, id, f, files, sources) ==
  [text |-> Nil, vol_type |-> type, vol_id |-> id, f |-> f, files |-> files, sources |-> sources]

\* A variant: an empty last field keeps its place.
MarshalSelectorPadded(form, f) ==
  [i \in DOMAIN form.selector |-> IF form.selector[i] = "ReadOnly" THEN <<"ro">> ELSE Get(f, form.selector[i])]

\* All that must be there are written, though they are empty; a last one
\* that need not be there only if it is not.
MarshalSelector(form, f) ==
  LET names == form.selector
      some  == IF names # <<>> /\ Last(names) \in DOMAIN f THEN Len(names) ELSE form.least
  IN  [i \in 1..some |-> IF names[i] = "ReadOnly" THEN <<"ro">> ELSE Get(f, names[i])]

MarshalJSON(v) ==
  LET form    == Forms[v.type]
      f       == IF v.type = "cephfs" THEN Put(v.f, "SecretFileOrRef", MarshalCephFSSecret(v.f)) ELSE v.f
      id      == MarshalSelector(form, f)
      fields  == Renamed(f, form.tags)
      sources == [i \in DOMAIN v.sources |-> MarshalVolumeProjection(v.sources[i])]
      extra   == DOMAIN fields # {} \/ DOMAIN v.files # {} \/ v.type \in AlwaysObjects
  IN  IF ~(form.needs \subseteq DOMAIN f) THEN {}
      ELSE IF ~extra THEN {VolumeString(Join(<< <<v.type>> >> \o id, ":"))}
      ELSE {VolumeObject(v.type, IF id = <<>> THEN Nil ELSE Join(id, ":"), fields, MarshalFiles(v.type, v.files), sources)}

HostPathTypes == {"dir-or-create", "dir", "file-or-create", "file", "socket", "char-dev", "block-dev"}

\* Is this a segment that may be in the place of a field?
Admits(name, segment) ==
  /\ name = "ReadOnly" => segment = <<"ro">>
  /\ name = "Type" => segment = Empty \/ \E type \in HostPathTypes : segment = <<type>>

UnmarshalSelector(form, selector) ==
  LET names == form.selector
  IN  IF form = Git THEN {Put(<<>>, "Repository", Join(selector, ":"))}
      ELSE IF Len(selector) \notin form.least..Len(names) \/ \E i \in DOMAIN selector : ~Admits(names[i], selector[i]) THEN {}
      ELSE {FoldLeft(LAMBDA f, i : Put(f, names[i], IF names[i] = "ReadOnly" THEN True ELSE selector[i]),
                     <<>>, [i \in DOMAIN selector |-> i])}

\* What an object says of a type's fields.
UnmarshalFields(form, k) == Renamed(k, AntiFunction(form.tags))

Unmarshal(k, type, selector) ==
  LET form   == Forms[type]
      fields == UnmarshalFields(form, k.f)
      secret == IF type = "cephfs" THEN UnmarshalCephFSSecret(Get(fields, "SecretFileOrRef")) ELSE {<<>>}
  IN  {Volume(type, s @@ Without(fields, {"SecretFileOrRef"}) @@ id, files, sources) :
         id \in UnmarshalSelector(form, selector), s \in secret,
         files \in UnmarshalFiles(type, k.files), sources \in Results(UnmarshalVolumeProjection, k.sources)}

UnmarshalJSON(k) ==
  LET segments == Split(k.text, ":")
  IN  IF k.text # Nil
      THEN UNION {Unmarshal(k, type, Tail(segments)) : type \in {t \in DOMAIN Forms : segments[1] = <<t>>}}
      ELSE IF k.vol_type \notin DOMAIN Forms THEN {}
      ELSE Unmarshal(k, k.vol_type, IF k.vol_id = Nil THEN <<>> ELSE <<k.vol_id>>)

-----------------------------------------------------------------------------
(***************************************************************************)
(* To Short syntax                                                         *)
(***************************************************************************)
convertStorageMedium == [Memory |-> "memory", HugePages |-> "huge-pages"]
convertHostPathType ==
  [DirectoryOrCreate |-> "dir-or-create", Directory |-> "dir", FileOrCreate |-> "file-or-create", File |-> "file",
   Socket |-> "socket", CharDevice |-> "char-dev", BlockDevice |-> "block-dev"]
convertAzureDiskKind == [Dedicated |-> "dedicated", Shared |-> "shared", Managed |-> "managed"]
convertAzureDiskCachingMode == [None |-> "none", ReadOnly |-> "ro", ReadWrite |-> "rw"]
convertScaleIOStorageMode == [ThickProvisioned |-> "thick", ThinProvisioned |-> "thin"]

convertCephFSSecretFileOrRef(s) == Copy(s, IF "SecretFile" \in DOMAIN s THEN {"SecretFile"} ELSE {"SecretRef"})

\* Without a name there is no policy.
convertVsphereStoragePolicy(s) ==
  Copy(s, IF "StoragePolicyName" \in DOMAIN s THEN {"StoragePolicyName", "StoragePolicyID"} ELSE {})

convertOptionalToRequired(s) == Negated(s, "Optional", "Required")

convertKeyToPathItems(items) == LET last == LastOf(items) IN [path \in DOMAIN last |-> Copy(last[path].f, {"Key", "Mode"})]

convertObjectFieldRef(s) == Copy(s, {"FieldPath", "APIVersion"})
convertVolumeResourceFieldRef(s) == Copy(s, {"ContainerName", "Resource", "Divisor"})

convertDownwardAPIVolumeFiles(items) ==
  LET last == LastOf(items)
  IN  [path \in DOMAIN last |->
         convertObjectFieldRef(last[path].f) @@ convertVolumeResourceFieldRef(last[path].f) @@ Copy(last[path].f, {"Mode"})]

convertSecretProjection(p) == Volume("secret", Copy(p.f, {"Name"}), convertKeyToPathItems(p.items), <<>>)
convertConfigMapProjection(p) == Volume("config-map", Copy(p.f, {"Name"}), convertKeyToPathItems(p.items), <<>>)
convertDownwardAPIProjection(p) == Volume("downward_api", <<>>, convertDownwardAPIVolumeFiles(p.items), <<>>)

convertVolumeProjections(sources) ==
  [i \in DOMAIN sources |->
     CASE sources[i].type = "secret" -> convertSecretProjection(sources[i])
       [] sources[i].type = "config-map" -> convertConfigMapProjection(sources[i])
       [] sources[i].type = "downward_api" -> convertDownwardAPIProjection(sources[i])]

convertGcePDVolume(s) == Copy(s, {"PDName", "FSType", "Partition", "ReadOnly"})
convertAwsEBSVolume(s) == Copy(s, {"VolumeID", "FSType", "Partition", "ReadOnly"})
convertHostPathVolume(s) == Translated(Copy(s, {"Path", "Type"}), "Type", convertHostPathType)
convertGlusterfsVolume(s) == Copy(s, {"EndpointsName", "Path", "ReadOnly"})
convertNFSVolume(s) == Copy(s, {"Server", "Path", "ReadOnly"})
convertISCSIVolume(s) ==
  Copy(s, {"TargetPortal", "IQN", "Lun", "ISCSIInterface", "FSType", "ReadOnly", "Portals", "DiscoveryCHAPAuth",
           "SessionCHAPAuth", "SecretRef", "InitiatorName"})
convertCinderVolume(s) == Copy(s, {"VolumeID", "FSType", "ReadOnly"})
convertFibreChannelVolume(s) == Copy(s, {"TargetWWNs", "Lun", "ReadOnly", "WWIDs", "FSType"})
convertFlockerVolume(s) == Put(<<>>, "DatasetUUID", IF "DatasetUUID" \in DOMAIN s THEN s.DatasetUUID ELSE Get(s, "DatasetName"))
convertFlexVolume(s) == Copy(s, {"Driver", "FSType", "SecretRef", "ReadOnly", "Options"})
convertVsphereVolume(s) == Copy(s, {"VolumePath", "FSType"}) @@ convertVsphereStoragePolicy(s)
convertQuobyteVolume(s) == Copy(s, {"Registry", "Volume", "ReadOnly", "User", "Group"})
convertAzureDiskVolume(s) ==
  UNION {Translated(f, "CachingMode", convertAzureDiskCachingMode) :
           f \in Translated(Copy(s, {"DiskName", "DataDiskURI", "FSType", "ReadOnly", "Kind", "CachingMode"}), "Kind", convertAzureDiskKind)}
convertPhotonPDVolume(s) == Copy(s, {"PdID", "FSType"})
convertPortworxVolume(s) == Copy(s, {"VolumeID", "FSType", "ReadOnly"})

ScaleIOFields ==
  {"Gateway", "System", "SecretRef", "SSLEnabled", "ProtectionDomain", "StoragePool", "StorageMode", "VolumeName", "FSType", "ReadOnly"}

\* The fields of a type: convertVolume, without the files and the sources.
convertSource(type, s) ==
  CASE type = "empty_dir" -> Translated(Copy(s, {"Medium", "SizeLimit"}), "Medium", convertStorageMedium)
    [] type = "host_path" -> convertHostPathVolume(s)
    [] type = "gce_pd" -> {convertGcePDVolume(s)}
    [] type = "aws_ebs" -> {convertAwsEBSVolume(s)}
    [] type = "azure_disk" -> convertAzureDiskVolume(s)
    [] type = "azure_file" -> {Copy(s, {"SecretName", "ShareName", "ReadOnly"})}
    [] type = "cephfs" -> {Copy(s, {"Monitors", "Path", "User", "ReadOnly"}) @@ convertCephFSSecretFileOrRef(s)}
    [] type = "cinder" -> {convertCinderVolume(s)}
    [] type = "fc" -> {convertFibreChannelVolume(s)}
    [] type = "flex" -> {convertFlexVolume(s)}
    [] type = "flocker" -> {convertFlockerVolume(s)}
    [] type = "glusterfs" -> {convertGlusterfsVolume(s)}
    [] type = "iscsi" -> {convertISCSIVolume(s)}
    [] type = "nfs" -> {convertNFSVolume(s)}
    [] type = "photon" -> {convertPhotonPDVolume(s)}
    [] type = "portworx" -> {convertPortworxVolume(s)}
    [] type = "pvc" -> {Copy(s, {"ClaimName", "ReadOnly"})}
    [] type = "quobyte" -> {convertQuobyteVolume(s)}
    [] type = "scaleio" -> Translated(Copy(s, ScaleIOFields), "StorageMode", convertScaleIOStorageMode)
    [] type = "vsphere" -> {convertVsphereVolume(s)}
    [] type = "config-map" -> {convertOptionalToRequired(Copy(s, {"Name", "DefaultMode", "Optional"}))}
    [] type = "secret" -> {convertOptionalToRequired(Copy(s, {"SecretName", "DefaultMode", "Optional"}))}
    [] type \in {"downward_api", "projected"} -> {Copy(s, {"DefaultMode"})}
    [] type = "git" -> {Copy(s, {"Repository", "Revision", "Directory"})}
    [] type = "rbd" -> {Copy(s, {"CephMonitors", "RBDImage", "FSType", "RBDPool", "RadosUser", "Keyring", "SecretRef", "ReadOnly"})}
    [] type = "storageos" -> {Copy(s, {"VolumeName", "VolumeNamespace", "FSType", "ReadOnly", "SecretRef"})}

convertVolume(v) ==
  {Volume(v.type, f, IF v.type = "downward_api" THEN convertDownwardAPIVolumeFiles(v.items) ELSE convertKeyToPathItems(v.items),
          convertVolumeProjections(v.sources)) : f \in convertSource(v.type, v.f)}

\* Converted, and written.
convertVolumes(volumes) ==
  IF \E i \in DOMAIN volumes : convertVolume(volumes[i]) = {} THEN {}
  ELSE Results(LAMBDA v : UNION {MarshalJSON(c) : c \in convertVolume(v)}, LastOf(volumes))

-----------------------------------------------------------------------------
(***************************************************************************)
(* To Kubernetes syntax                                                    *)
(***************************************************************************)
KubeVolume(name, type, f, items, sources) == [name |-> name, type |-> type, f |-> f, items |-> items, sources |-> sources]

revertStorageMedium == "memory" :> "Memory" @@ "huge-pages" :> "HugePages"
revertHostPathType ==
  "dir-or-create" :> "DirectoryOrCreate" @@ "dir" :> "Directory" @@ "file-or-create" :> "FileOrCreate" @@ "file" :> "File"
    @@ "socket" :> "Socket" @@ "char-dev" :> "CharDevice" @@ "block-dev" :> "BlockDevice"
revertAzureDiskKind == [dedicated |-> "Dedicated", shared |-> "Shared", managed |-> "Managed"]
revertAzureDiskCachingMode == [none |-> "None", ro |-> "ReadOnly", rw |-> "ReadWrite"]
revertScaleIOStorageMode == [thick |-> "ThickProvisioned", thin |-> "ThinProvisioned"]

revertCephFSSecretFileOrRef(s) == Copy(s, IF "SecretFile" \in DOMAIN s THEN {"SecretFile"} ELSE {"SecretRef"})
revertVsphereStoragePolicy(s) == Copy(s, {"StoragePolicyName", "StoragePolicyID"})
revertRequiredToOptional(s) == Negated(s, "Required", "Optional")

\* A variant: the mode is left out.
revertKeyToPathItemsModeless(files) ==
  {[i \in DOMAIN paths |-> [name |-> paths[i], f |-> Copy(files[paths[i]], {"Key"})]] : paths \in SetToSeqs(DOMAIN files)}

\* In the order of a Go map.
revertKeyToPathItems(files) ==
  {[i \in DOMAIN paths |-> [name |-> paths[i], f |-> Copy(files[paths[i]], {"Key", "Mode"})]] : paths \in SetToSeqs(DOMAIN files)}

revertObjectFieldRef(s) == Copy(s, {"FieldPath", "APIVersion"})

\* A divisor is always written.
revertVolumeResourceFieldRef(s) ==
  IF "Resource" \notin DOMAIN s THEN <<>> ELSE Copy(s, {"ContainerName", "Resource", "Divisor"}) @@ [Divisor |-> <<"0">>]

revertDownwardAPIVolumeFiles(files) ==
  LET paths == Sorted(DOMAIN files)
  IN  [i \in DOMAIN paths |->
         [name |-> paths[i],
          f |-> revertObjectFieldRef(files[paths[i]]) @@ revertVolumeResourceFieldRef(files[paths[i]]) @@ Copy(files[paths[i]], {"Mode"})]]

revertProjection(p) == {KubeVolume(Nil, p.type, Copy(p.f, {"Name"}), items, <<>>) : items \in revertKeyToPathItems(p.files)}

revertSecretProjection(p) == IF "Name" \notin DOMAIN p.f THEN {} ELSE revertProjection(p)
revertConfigMapProjection(p) == IF "Name" \notin DOMAIN p.f THEN {} ELSE revertProjection(p)
revertDownwardAPIProjection(p) == {KubeVolume(Nil, p.type, <<>>, revertDownwardAPIVolumeFiles(p.files), <<>>)}

revertVolumeProjections(sources) ==
  Results(LAMBDA p : CASE p.type = "secret" -> revertSecretProjection(p)
                       [] p.type = "config-map" -> revertConfigMapProjection(p)
                       [] p.type = "downward_api" -> revertDownwardAPIProjection(p), sources)

revertGcePDVolume(s) == Copy(s, {"PDName", "FSType", "Partition", "ReadOnly"})
revertAwsEBSVolume(s) == Copy(s, {"VolumeID", "FSType", "Partition", "ReadOnly"})
revertHostPathVolume(s) == Translated(Copy(s, {"Path", "Type"}), "Type", revertHostPathType)
revertGlusterfsVolume(s) == Copy(s, {"EndpointsName", "Path", "ReadOnly"})
revertNFSVolume(s) == Copy(s, {"Server", "Path", "ReadOnly"})
revertISCSIVolume(s) ==
  Copy(s, {"TargetPortal", "IQN", "Lun", "ISCSIInterface", "FSType", "ReadOnly", "Portals", "DiscoveryCHAPAuth",
           "SessionCHAPAuth", "SecretRef", "InitiatorName"})
revertCinderVolume(s) == Copy(s, {"VolumeID", "FSType", "ReadOnly"})
revertFibreChannelVolume(s) == Copy(s, {"TargetWWNs", "Lun", "FSType", "ReadOnly", "WWIDs"})
revertFlockerVolume(s) == Copy(s, {"DatasetUUID"})
revertFlexVolume(s) == Copy(s, {"Driver", "FSType", "SecretRef", "ReadOnly", "Options"})
revertVsphereVolume(s) == Copy(s, {"VolumePath", "FSType"}) @@ revertVsphereStoragePolicy(s)
revertQuobyteVolume(s) == Copy(s, {"Registry", "Volume", "ReadOnly", "User", "Group"})
revertAzureDiskVolume(s) ==
  UNION {Translated(f, "CachingMode", revertAzureDiskCachingMode) :
           f \in Translated(Copy(s, {"DiskName", "DataDiskURI", "FSType", "ReadOnly", "Kind", "CachingMode"}), "Kind", revertAzureDiskKind)}
revertPhotonPDVolume(s) == Copy(s, {"PdID", "FSType"})
revertPortworxVolume(s) == Copy(s, {"VolumeID", "FSType", "ReadOnly"})

\* The fields of a type: revertVolume, without the files and the sources.
revertSource(type, s) ==
  CASE type = "empty_dir" -> Translated(Copy(s, {"Medium", "SizeLimit"}), "Medium", revertStorageMedium)
    [] type = "host_path" -> revertHostPathVolume(s)
    [] type = "gce_pd" -> {revertGcePDVolume(s)}
    [] type = "aws_ebs" -> {revertAwsEBSVolume(s)}
    [] type = "azure_disk" -> revertAzureDiskVolume(s)
    [] type = "azure_file" -> {Copy(s, {"SecretName", "ShareName", "ReadOnly"})}
    [] type = "cephfs" -> {Copy(s, {"Monitors", "Path", "User", "ReadOnly"}) @@ revertCephFSSecretFileOrRef(s)}
    [] type = "cinder" -> {revertCinderVolume(s)}
    [] type = "fc" -> {revertFibreChannelVolume(s)}
    [] type = "flex" -> {revertFlexVolume(s)}
    [] type = "flocker" -> {revertFlockerVolume(s)}
    [] type = "glusterfs" -> {revertGlusterfsVolume(s)}
    [] type = "iscsi" -> {revertISCSIVolume(s)}
    [] type = "nfs" -> {revertNFSVolume(s)}
    [] type = "photon" -> {revertPhotonPDVolume(s)}
    [] type = "portworx" -> {revertPortworxVolume(s)}
    [] type = "pvc" -> {Copy(s, {"ClaimName", "ReadOnly"})}
    [] type = "quobyte" -> {revertQuobyteVolume(s)}
    [] type = "scaleio" -> Translated(Copy(s, ScaleIOFields), "StorageMode", revertScaleIOStorageMode)
    [] type = "vsphere" -> {revertVsphereVolume(s)}
    [] type = "config-map" -> {revertRequiredToOptional(f) : f \in {c \in {Copy(s, {"Name", "DefaultMode", "Required"})} : "Name" \in DOMAIN c}}
    [] type = "secret" -> {revertRequiredToOptional(Copy(s, {"SecretName", "DefaultMode", "Required"}))}
    [] type \in {"downward_api", "projected"} -> {Copy(s, {"DefaultMode"})}
    [] type = "git" -> {Copy(s, {"Repository", "Revision", "Directory"})}
    [] type = "rbd" -> {Copy(s, {"CephMonitors", "RBDImage", "FSType", "RBDPool", "RadosUser", "Keyring", "SecretRef", "ReadOnly"})}
    [] type = "storageos" -> {Copy(s, {"VolumeName", "VolumeNamespace", "FSType", "ReadOnly", "SecretRef"})}

revertVolume(name, v) ==
  {KubeVolume(name, v.type, f, items, sources) :
     f \in revertSource(v.type, v.f),
     items \in IF v.type = "downward_api" THEN {revertDownwardAPIVolumeFiles(v.files)} ELSE revertKeyToPathItems(v.files),
     sources \in revertVolumeProjections(v.sources)}

\* Read, and reverted.
revertVolumes(volumes) ==
  LET names == Sorted(DOMAIN volumes)
  IN  Results(LAMBDA name : UNION {revertVolume(name, v) : v \in UnmarshalJSON(volumes[name])}, names)

=============================================================================
