----------------------------- MODULE Workloads -----------------------------
(***************************************************************************)
(* Selectors, and the labels of the pod templates they select, when a      *)
(* manifest is converted to Short syntax and back: the part of the         *)
(* converters of ReplicaSet, Deployment, DaemonSet, StatefulSet and Job    *)
(* between "Get the right Selector" and "End Selector/Template section",   *)
(* the same of ReplicationController, the selectors of                     *)
(* PodDisruptionBudget and PersistentVolumeClaim, which have no template.  *)
(*                                                                         *)
(* Short has one place for labels that selector and template share, so     *)
(* they are moved to the selector on the way there and to the template on  *)
(* the way back.  A step is a run of short on what the last one wrote.     *)
(***************************************************************************)
EXTENDS LabelSelectors

CONSTANT FirstDocs  \* the documents short may be given first

-----------------------------------------------------------------------------
(***************************************************************************)
(* Documents, as the types of either syntax let them be.                   *)
(***************************************************************************)
\* A ReplicationController selects by labels only, and may have no template.
AnyKube ==
  [syntax : {"kube"}, kind : {"controller", "job"}, selector : AnySelector \cup {Nil}, template : AnyTemplate]
  \cup [syntax : {"kube"}, kind : {"selecting"}, selector : AnySelector \cup {Nil}, template : {Nil}]
  \cup [syntax : {"kube"}, kind : {"rc"}, selector : [labels : AnyLabels, exprs : {<<>>}] \cup {Nil},
        template : AnyTemplate \cup {Nil}]

AnyKoki ==
  [syntax : {"koki"}, kind : {"controller", "job", "rc", "selecting"}, selector : AnyRSSelector \cup {Nil},
   meta : AnyMeta \cup {Nil}, spec : BOOLEAN]

ASSUME DocsAssumption == FirstDocs \subseteq AnyKube \cup AnyKoki

\* Where no operator is between a key and values, both are a key.
ASSUME JoinedAssumption ==
  \A d \in FirstDocs :
    d.syntax = "kube" /\ d.selector # Nil =>
      \A i \in DOMAIN d.selector.exprs : Joined(d.selector.exprs[i].key, d.selector.exprs[i].values) \in Key

-----------------------------------------------------------------------------
VARIABLES
  first,         \* what the first run was given
  doc,           \* what the next run is given
  kube, koki,    \* the latest documents before doc in either syntax, or Nil
  refused        \* has a run failed?

vars == <<first, doc, kube, koki, refused>>

-----------------------------------------------------------------------------
(***************************************************************************)
(* To Short syntax.  The operators return the set of possible results,     *)
(* which is empty for an error.                                            *)
(***************************************************************************)
\* The selector is set only if there is something in it.
SetSelector(rs) == IF rs.labels # Nil \/ rs.shorthand # <<>> THEN rs ELSE Nil

Meta(labels, annotated) == [labels |-> labels, annotated |-> annotated]

applyTemplateLabelsOverride(override, meta) ==
  LET annotated == meta # Nil /\ meta.annotated
  IN  IF IsEmpty(override) /\ ~annotated THEN Nil ELSE Meta(Written(override), annotated)

\* Controllers are serialized and parsed again before they are converted.
Reread(d) == [d EXCEPT !.selector = WrittenSelector(@), !.template.labels = Written(@)]

ConvertController(d) ==
  {[syntax |-> "koki", kind |-> d.kind, selector |-> SetSelector(c.selector),
    meta |-> applyTemplateLabelsOverride(c.override, Meta(d.template.labels, d.template.annotated)),
    spec |-> d.template.spec] : c \in convertRSLabelSelector(d.selector, d.template.labels)}

\* The selector is not copied: it is expected to be the template's labels.
ConvertRC(d) ==
  {[syntax |-> "koki", kind |-> d.kind, selector |-> Nil,
    meta |-> IF d.template = Nil THEN Nil ELSE Meta(Written(d.template.labels), d.template.annotated),
    spec |-> d.template # Nil /\ d.template.spec]}

ConvertSelecting(d) ==
  {[syntax |-> "koki", kind |-> d.kind, selector |-> SetSelector(c.selector), meta |-> Nil, spec |-> FALSE] :
     c \in convertRSLabelSelector(d.selector, Nil)}

-----------------------------------------------------------------------------
(***************************************************************************)
(* To Kubernetes syntax                                                    *)
(***************************************************************************)
revertTemplate(meta, spec) ==
  IF meta = Nil /\ ~spec THEN Nil
  ELSE [labels |-> IF meta = Nil THEN Nil ELSE Written(meta.labels),
        annotated |-> meta # Nil /\ meta.annotated, spec |-> spec]

KubeDoc(kind, sel, template) ==
  [syntax |-> "kube", kind |-> kind, selector |-> WrittenSelector(sel), template |-> template]

RevertController(d) ==
  LET reverted == revertRSSelector(d.selector, IF d.meta = Nil THEN Nil ELSE d.meta.labels)
      template(r) == revertTemplate(applyTemplateLabelsOverride(r.override, d.meta), d.spec)
  IN  {KubeDoc(d.kind, r.selector, template(r)) : r \in {s \in reverted : template(s) # Nil}}

\* The selector of a ReplicationController has labels only.
RevertRC(d) ==
  LET template == revertTemplate(d.meta, d.spec)
      labels   == IF d.selector = Nil THEN Nil ELSE Written(d.selector.labels)
  IN  {KubeDoc(d.kind, IF labels = Nil THEN Nil ELSE LabelSelector(labels, <<>>),
               IF template # Nil /\ template.labels = Nil THEN [template EXCEPT !.labels = labels] ELSE template)}

RevertSelecting(d) == {KubeDoc(d.kind, r.selector, Nil) : r \in revertRSSelector(d.selector, Nil)}

-----------------------------------------------------------------------------
Init ==
  /\ first \in FirstDocs
  /\ doc = first
  /\ kube = Nil
  /\ koki = Nil
  /\ refused = FALSE

Becomes(results) ==
  /\ \/ \E d \in results : doc' = d /\ UNCHANGED refused
     \/ results = {} /\ refused' = TRUE /\ UNCHANGED doc
  /\ UNCHANGED first

Convert(d) ==
  CASE d.kind = "controller" -> ConvertController(Reread(d))
    [] d.kind = "job" -> ConvertController(d)
    [] d.kind = "rc" -> ConvertRC(d)
    [] d.kind = "selecting" -> ConvertSelecting(d)

Revert(d) ==
  CASE d.kind \in {"controller", "job"} -> RevertController(d)
    [] d.kind = "rc" -> RevertRC(d)
    [] d.kind = "selecting" -> RevertSelecting(d)

ToKoki ==
  /\ ~refused
  /\ doc.syntax = "kube"
  /\ Becomes(Convert(doc))
  /\ kube' = doc
  /\ UNCHANGED koki

ToKube ==
  /\ ~refused
  /\ doc.syntax = "koki"
  /\ Becomes(Revert(doc))
  /\ koki' = doc
  /\ UNCHANGED kube

Next == ToKoki \/ ToKube

Spec == Init /\ [][Next]_vars

-----------------------------------------------------------------------------
(***************************************************************************)
(* Properties                                                              *)
(***************************************************************************)
TemplateLabels(d) == IF d.template = Nil THEN Nil ELSE Written(d.template.labels)

\* The objects a manifest selects: without a selector, those with the labels
\* of its template, if it has one.
Selected(d) ==
  LET sel == IF d.selector # Nil THEN d.selector ELSE LabelSelector(TemplateLabels(d), <<>>)
  IN  {labels \in Labelings : Matches(sel, labels)}

IsBlank(sel) == sel # Nil /\ IsEmpty(sel.labels) /\ sel.exprs = <<>>

\* What the API server accepts: operators are known and have the values they
\* need, the selector is not empty and selects the template; without one, it
\* can be satisfied.
Valid(d) ==
  /\ d.selector # Nil =>
       \A i \in DOMAIN d.selector.exprs :
         /\ d.selector.exprs[i].op \in Operators
         /\ d.selector.exprs[i].op \in {"In", "NotIn"} => d.selector.exprs[i].values # <<>>
  /\ ~IsBlank(d.selector)
  /\ Selected(d) # {}
  /\ d.kind \in {"controller", "job"} =>
       (IF TemplateLabels(d) = Nil THEN <<>> ELSE TemplateLabels(d)) \in Selected(d)
  /\ d.kind = "rc" /\ d.selector # Nil => d.selector.labels = TemplateLabels(d)

\* A manifest that is converted to Short and back selects what it selected,
\* and its template has the labels it had, though labels were moved, and
\* expressions written as text and parsed.
KeepsMeaning ==
  (doc.syntax = "kube" /\ kube # Nil /\ Valid(kube)) =>
    Selected(doc) = Selected(kube) /\ TemplateLabels(doc) = TemplateLabels(kube)

\* A trip to Short and back is a normal form: the second trip, and any after
\* it, changes nothing of what the first has written, order included.  Nor
\* does the first trip of a manifest made from Short, but for a
\* ReplicationController, whose selector does not survive.
Settles ==
  (/\ doc.syntax = "kube" /\ kube \notin {Nil, first} /\ ~IsBlank(kube.selector)
   /\ first.syntax = "kube" \/ doc.kind # "rc") => doc = kube

\* What short has written it can read: a run on it fails only when it is
\* Short with a controller that has no pod, and nothing is left of its
\* template.
FailsAtOnce ==
  (refused /\ doc # first) =>
    doc.syntax = "koki" /\ doc.kind \in {"controller", "job"} /\ ~doc.spec
=============================================================================
