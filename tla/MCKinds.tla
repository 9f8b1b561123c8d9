------------------------------ MODULE MCKinds ------------------------------
(***************************************************************************)
(* Every kind in every apiVersion that it can be read in, in some it       *)
(* cannot, and in Short syntax also without one.                           *)
(***************************************************************************)
EXTENDS Kinds

\* In the scheme, but not converted.
NotConverted ==
  {<<"apps/v1", "Deployment">>, <<"apps/v1", "StatefulSet">>, <<"apps/v1", "DaemonSet">>,
   <<"rbac.authorization.k8s.io/v1beta1", "Role">>, <<"autoscaling/v2beta1", "HorizontalPodAutoscaler">>,
   <<"networking.k8s.io/v1", "NetworkPolicy">>}

Unknown == {<<"apps/v1beta3", "Deployment">>, <<"v1", "Ingress">>}

Readable == UNION {{<<v, k.kind>> : v \in k.reads} : k \in Kinds}

MCIsRegistered(version, kind) == <<version, kind>> \in Readable \cup NotConverted

Metas == SUBSET {"name", "labels", "finalizers"}

MCFirstDocs ==
  {KubeDoc(t[1], t[2], m) : t \in Readable \cup NotConverted \cup Unknown, m \in Metas}
  \cup UNION {{KokiDoc(k.key, v, m) : v \in k.reads \cup {"", "apps/v1", "bogus/v1"}, m \in {{}, {"name"}}} : k \in Kinds}
=============================================================================
