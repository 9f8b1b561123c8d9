------------------------- MODULE PersistentVolumes --------------------------
(***************************************************************************)
(* PersistentVolumes: types/persistentvolume.go and their converters.      *)
(*                                                                         *)
(* They have a pod's volume sources, but for those that name objects of    *)
(* the pod's namespace, and some that name a secret in any namespace.  The *)
(* source is always an object in Short syntax, whose vol_id is split as a  *)
(* pod's string is, and shares it with the metadata.  A secret is two      *)
(* fields, its name and SecretNamespace.                                   *)
(***************************************************************************)
EXTENDS Volumes

PersistentVolumeMeta ==
  [Version |-> "version", Cluster |-> "cluster", Name |-> "name", Namespace |-> "namespace", Labels |-> "labels",
   Annotations |-> "annotations", Storage |-> "storage", AccessModes |-> "modes", Claim |-> "claim", ReclaimPolicy |-> "reclaim",
   StorageClass |-> "storage_class", MountOptions |-> "mount_opts", Phase |-> "status", Message |-> "status_message",
   Reason |-> "status_reason"]

ISCSIPersistentVolume == ISCSIVolume
RBDPersistentVolume == RBDVolume
CephFSPersistentVolume == CephFSVolume
AzureFilePersistentVolume == [Secret |-> "secret", ShareName |-> "share", ReadOnly |-> "ro"]
ScaleIOPersistentVolume == ScaleIOVolume
LocalVolume == [Path |-> "path"]
StorageOSPersistentVolume == StorageOSVolume
CSIPersistentVolume == [Driver |-> "driver", ReadOnly |-> "ro"]

PersistentISCSI == Form(<<>>, 0, ISCSIPersistentVolume, {})
PersistentRBD == Form(<<>>, 0, RBDPersistentVolume, {})
PersistentCephFS == Form(<<>>, 0, CephFSPersistentVolume, {})
PersistentAzureFile == Form(<<>>, 0, AzureFilePersistentVolume, {})
PersistentScaleIO == Form(<<"VolumeName">>, 1, ScaleIOPersistentVolume, {})
PersistentLocal == Form(<<>>, 0, LocalVolume, {})
PersistentStorageOS == Form(<<"VolumeName">>, 1, StorageOSPersistentVolume, {})
PersistentCSI == Form(<<"VolumeHandle">>, 1, CSIPersistentVolume, {})

PersistentForms ==
  [gce_pd |-> GcePD, aws_ebs |-> AwsEBS, host_path |-> HostPath, glusterfs |-> Glusterfs, nfs |-> NFS, iscsi |-> PersistentISCSI,
   cinder |-> Cinder, fc |-> FibreChannel, flocker |-> Flocker, flex |-> Flex, vsphere |-> Vsphere, quobyte |-> Quobyte,
   azure_disk |-> AzureDisk, photon |-> PhotonPD, portworx |-> Portworx, rbd |-> PersistentRBD, cephfs |-> PersistentCephFS,
   azure_file |-> PersistentAzureFile, scaleio |-> PersistentScaleIO, local |-> PersistentLocal, storageos |-> PersistentStorageOS,
   csi |-> PersistentCSI]

\* The field that is a SecretReference, if the type has one.
SecretField(type) ==
  CASE type \in {"iscsi", "rbd", "scaleio", "storageos"} -> "SecretRef" [] type = "azure_file" -> "Secret" [] OTHER -> Nil

-----------------------------------------------------------------------------
MarshalSecretReference(name, namespace) == IF namespace = Empty THEN name ELSE namespace \o <<":">> \o name

\* A variant: the namespace is what is before the first colon.
UnmarshalSecretReferenceFirst(s, field) ==
  LET parts == SplitInTwo(s, ":")
  IN  IF Len(parts) = 1 THEN Put(<<>>, field, s) ELSE Put(Put(<<>>, field, parts[2]), "SecretNamespace", parts[1])

\* At the last colon.
UnmarshalSecretReference(s, field) ==
  LET parts == Split(s, ":")
  IN  Put(Put(<<>>, field, Last(parts)), "SecretNamespace", Join(Front(parts), ":"))

MarshalCephFSPersistentSecret(f) ==
  MarshalCephFSSecret(Put(f, "SecretRef", MarshalSecretReference(Get(f, "SecretRef"), Get(f, "SecretNamespace"))))

UnmarshalCephFSPersistentSecret(s) ==
  {IF "SecretRef" \in DOMAIN f THEN UnmarshalSecretReference(f.SecretRef, "SecretRef") ELSE f : f \in UnmarshalCephFSSecret(s)}

AccessModesToString == [ReadOnlyMany |-> "ro", ReadWriteMany |-> "rw", ReadWriteOnce |-> "rw-once"]
AccessModesFromString == "ro" :> "ReadOnlyMany" @@ "rw" :> "ReadWriteMany" @@ "rw-once" :> "ReadWriteOnce"

\* Every mode of a list, if all are in the table.
Modes(list, table) ==
  IF \E i \in DOMAIN list : \A mode \in DOMAIN table : list[i] # <<mode>> THEN {}
  ELSE {[i \in DOMAIN list |-> <<table[list[i][1]]>>]}

KokiPersistentVolume(type, id, f, meta) == [vol_type |-> type, vol_id |-> id, f |-> f, meta |-> meta]

MarshalPersistentVolume(pv) ==
  LET form   == PersistentForms[pv.type]
      secret == SecretField(pv.type)
      f      == CASE pv.type = "cephfs" -> Put(pv.f, "SecretFileOrRef", MarshalCephFSPersistentSecret(pv.f))
                  [] secret # Nil -> Put(pv.f, secret, MarshalSecretReference(Get(pv.f, secret), Get(pv.f, "SecretNamespace")))
                  [] OTHER -> pv.f
      id     == MarshalSelector(form, f)
  IN  IF ~(form.needs \subseteq DOMAIN f) THEN {}
      ELSE {KokiPersistentVolume(pv.type, IF id = <<>> THEN Nil ELSE Join(id, ":"), Renamed(f, form.tags),
                                 Renamed(Put(pv.meta, "AccessModes", Join(modes, ",")), PersistentVolumeMeta)) :
              modes \in Modes(pv.modes, AccessModesToString)}

UnmarshalPersistentVolume(k) ==
  LET form   == PersistentForms[k.vol_type]
      fields == UnmarshalFields(form, k.f)
      secret == SecretField(k.vol_type)
      meta   == Renamed(k.meta, AntiFunction(PersistentVolumeMeta))
      read   == CASE k.vol_type = "cephfs" -> UnmarshalCephFSPersistentSecret(Get(fields, "SecretFileOrRef"))
                  [] secret # Nil -> {UnmarshalSecretReference(Get(fields, secret), secret)}
                  [] OTHER -> {<<>>}
  IN  IF k.vol_type \notin DOMAIN PersistentForms THEN {}
      ELSE {[type |-> k.vol_type, f |-> s @@ Without(fields, {"SecretFileOrRef", secret}) @@ id, meta |-> Without(meta, {"AccessModes"}),
             modes |-> modes] :
              id \in UnmarshalSelector(form, IF k.vol_id = Nil THEN <<>> ELSE Split(k.vol_id, ":")), s \in read,
              modes \in IF "AccessModes" \in DOMAIN meta THEN Modes(Split(meta.AccessModes, ","), AccessModesFromString) ELSE {<<>>}}

-----------------------------------------------------------------------------
(***************************************************************************)
(* To Short syntax.  A Kubernetes PersistentVolume has fields meta that    *)
(* are only copied or translated, its capacity, a map from resources, and  *)
(* lists of access modes and mount options.                                *)
(***************************************************************************)
convertPersistentVolumePhase ==
  [Pending |-> "pending", Available |-> "available", Bound |-> "bound", Released |-> "released", Failed |-> "failed"]

\* Nothing is left of a status without a known phase: its error is dropped.
convertPersistentVolumeStatus(s) ==
  IF "Phase" \notin DOMAIN s THEN {} ELSE Translated(Copy(s, {"Phase", "Message", "Reason"}), "Phase", convertPersistentVolumePhase)

convertCephFSPersistentSecretFileOrRef(s) ==
  Copy(s, IF "SecretFile" \in DOMAIN s THEN {"SecretFile"} ELSE {"SecretRef", "SecretNamespace"})

convertSecretRef(s) ==
  IF "SecretNamespace" \in DOMAIN s THEN s.SecretNamespace \o <<"/">> \o Get(s, "SecretRef") ELSE Get(s, "SecretRef")

convertFlexPersistentVolume(s) == Put(Copy(s, {"Driver", "FSType", "ReadOnly", "Options"}), "SecretRef", convertSecretRef(s))

convertPersistentVolumeSource(type, s) ==
  CASE type = "iscsi" -> {convertISCSIVolume(s) @@ Copy(s, {"SecretNamespace"})}
    [] type = "flex" -> {convertFlexPersistentVolume(s)}
    [] type \in {"rbd", "storageos"} -> {f @@ Copy(s, {"SecretNamespace"}) : f \in convertSource(type, s)}
    [] type = "cephfs" -> {Copy(s, {"Monitors", "Path", "User", "ReadOnly"}) @@ convertCephFSPersistentSecretFileOrRef(s)}
    [] type = "azure_file" -> {Put(Copy(s, {"ShareName", "ReadOnly", "SecretNamespace"}), "Secret", Get(s, "SecretName"))}
    [] type = "scaleio" -> IF {"SecretRef", "SecretNamespace"} \cap DOMAIN s = {} THEN {}
                           ELSE {f @@ Copy(s, {"SecretNamespace"}) : f \in convertSource(type, s)}
    [] type = "local" -> {Copy(s, {"Path"})}
    [] type = "csi" -> {Copy(s, {"Driver", "VolumeHandle", "ReadOnly"})}
    [] OTHER -> convertSource(type, s)

\* strings.ToLower and, below, strings.Title of the policies there are.
convertReclaimPolicy == [Recycle |-> "recycle", Delete |-> "delete", Retain |-> "retain"]

convertCapacity(capacity) ==
  IF DOMAIN capacity = {} THEN {Empty} ELSE {capacity[r] : r \in DOMAIN capacity \cap {"storage"}}

CopiedMeta ==
  [APIVersion |-> "Version", ClusterName |-> "Cluster", Name |-> "Name", Namespace |-> "Namespace", Labels |-> "Labels",
   Annotations |-> "Annotations", ClaimRef |-> "Claim", StorageClassName |-> "StorageClass"]

ConvertPersistentVolume(d) ==
  LET status == convertPersistentVolumeStatus(d.meta)
      policy == Copy(d.meta, {"ReclaimPolicy"})
  IN  UNION {MarshalPersistentVolume(
               [type |-> d.type, f |-> f, modes |-> d.modes,
                meta |-> Put(Put(Renamed(d.meta, CopiedMeta) @@ lower @@ (IF status = {} THEN <<>> ELSE CHOOSE s \in status : TRUE),
                                 "Storage", storage), "MountOptions", Join(d.options, ","))]) :
               storage \in convertCapacity(d.capacity), f \in convertPersistentVolumeSource(d.type, d.f),
               lower \in Translated(policy, "ReclaimPolicy", convertReclaimPolicy)}

-----------------------------------------------------------------------------
(***************************************************************************)
(* To Kubernetes syntax                                                    *)
(***************************************************************************)
revertPersistentVolumePhase ==
  [pending |-> "Pending", available |-> "Available", bound |-> "Bound", released |-> "Released", failed |-> "Failed"]

revertPersistentVolumeStatus(s) == Translated(Copy(s, {"Phase", "Message", "Reason"}), "Phase", revertPersistentVolumePhase)

revertCephFSPersistentSecretFileOrRef(s) ==
  Copy(s, IF "SecretFile" \in DOMAIN s THEN {"SecretFile"} ELSE {"SecretRef", "SecretNamespace"})

revertSecretRef(s) ==
  LET parts == Split(s, "/")
  IN  CASE Len(parts) = 1 -> {Put(<<>>, "SecretRef", s)}
        [] Len(parts) = 2 -> {Put(Put(<<>>, "SecretRef", parts[2]), "SecretNamespace", parts[1])}
        [] OTHER -> {}

revertFlexPersistentVolume(s) ==
  {Copy(s, {"Driver", "FSType", "ReadOnly", "Options"}) @@ secret : secret \in revertSecretRef(Get(s, "SecretRef"))}

revertPersistentVolumeSource(type, s) ==
  CASE type = "iscsi" -> {revertISCSIVolume(s) @@ Copy(s, {"SecretNamespace"})}
    [] type = "flex" -> revertFlexPersistentVolume(s)
    [] type \in {"rbd", "scaleio", "storageos"} -> {f @@ Copy(s, {"SecretNamespace"}) : f \in revertSource(type, s)}
    [] type = "cephfs" -> {Copy(s, {"Monitors", "Path", "User", "ReadOnly"}) @@ revertCephFSPersistentSecretFileOrRef(s)}
    [] type = "azure_file" -> {Put(Copy(s, {"ShareName", "ReadOnly", "SecretNamespace"}), "SecretName", Get(s, "Secret"))}
    [] type = "local" -> {Copy(s, {"Path"})}
    [] type = "csi" -> {Copy(s, {"Driver", "VolumeHandle", "ReadOnly"})}
    [] OTHER -> revertSource(type, s)

revertReclaimPolicy ==
  [recycle |-> "Recycle", delete |-> "Delete", retain |-> "Retain", Recycle |-> "Recycle", Delete |-> "Delete", Retain |-> "Retain"]

revertCapacity(storage) == Put(<<>>, "storage", storage)

KubePersistentVolume(type, f, meta, capacity, modes, options) ==
  [type |-> type, f |-> f, meta |-> meta, capacity |-> capacity, modes |-> modes, options |-> options]

RevertPersistentVolume(k) ==
  UNION {{KubePersistentVolume(pv.type, f, Renamed(pv.meta, AntiFunction(CopiedMeta)) @@ status @@ policy @@ [APIVersion |-> <<"v1">>],
                               revertCapacity(Get(pv.meta, "Storage")), pv.modes,
                               IF "MountOptions" \in DOMAIN pv.meta THEN Split(pv.meta.MountOptions, ",") ELSE <<>>) :
            f \in revertPersistentVolumeSource(pv.type, pv.f), status \in revertPersistentVolumeStatus(pv.meta),
            policy \in Translated(Copy(pv.meta, {"ReclaimPolicy"}), "ReclaimPolicy", revertReclaimPolicy)} :
         pv \in UnmarshalPersistentVolume(k)}
=============================================================================
