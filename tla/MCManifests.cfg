SPECIFICATION Spec
CONSTANTS
  Nil = Nil
  EmptyValue = 0
  Joined <- MCJoined
  Key <- MCKey
  Value <- MCValue
  FirstDocs <- MCFirstDocs
CHECK_DEADLOCK FALSE
INVARIANTS VolumesKept PersistentVolumesKept PlacementKept ContainersKept PodFieldsKept WebhooksKept AccessKept ControllersKept ResourcesKept FailsForACause Settles
