---------------------------- MODULE MCWorkloads ----------------------------
(***************************************************************************)
(* Module Workloads for two keys: selectors of up to two labels and two    *)
(* expressions, on templates with the same, fewer, more and other labels.  *)
(***************************************************************************)
EXTENDS Workloads

MCKey == {"a", "b"}
MCJoined(key, values) == "b"
MCValue == {"", "1", "2"}

A(v) == [k \in {"a"} |-> v]
AB(v, w) == [k \in {"a", "b"} |-> IF k = "a" THEN v ELSE w]
LabelMaps == {Nil, <<>>, A("1"), A("2"), AB("1", "1"), AB("1", "")}
TemplateMaps == {Nil, <<>>, A("1"), AB("1", "1"), AB("1", "")}

Values == {<<>>, <<"">>, <<"1">>, <<"1", "2">>}
Requirements ==
  {Requirement("a", op, v) : op \in {"In", "NotIn"}, v \in Values}
  \cup {Requirement("b", "In", <<"1">>), Requirement("b", "NotIn", <<"2">>), Requirement("a", "Bogus", <<>>)}
  \cup {Requirement("a", NoOperator, v) : v \in {<<>>, <<"1">>}}
  \cup {Requirement(k, op, <<>>) : k \in {"a", "b"}, op \in {"Exists", "DoesNotExist"}}

ExprSeqs == {<<>>} \cup {<<r>> : r \in Requirements} \cup {<<r, s>> : r, s \in Requirements}

Selectors ==
  {Nil} \cup {LabelSelector(l, e) : l \in {Nil, A("1"), AB("1", "1")}, e \in ExprSeqs}
  \cup {LabelSelector(l, <<>>) : l \in LabelMaps}

Templates == [labels : TemplateMaps, annotated : {FALSE}, spec : {TRUE}]
             \cup [labels : {Nil, A("1")}, annotated : BOOLEAN, spec : BOOLEAN]

KubeDocs ==
  [syntax : {"kube"}, kind : {"controller", "job"}, selector : Selectors, template : Templates]
  \cup [syntax : {"kube"}, kind : {"selecting"}, selector : Selectors, template : {Nil}]
  \cup [syntax : {"kube"}, kind : {"rc"}, template : Templates \cup {Nil},
        selector : {Nil} \cup {LabelSelector(l, <<>>) : l \in LabelMaps \ {Nil, <<>>}}]

Segments ==
  {Segment("a", op, v) : op \in {"=", "!="}, v \in {<<>>, <<"1">>, <<"1", "2">>}}
  \cup {Segment("b", op, <<>>) : op \in {"", "!", "malformed"}}
  \cup {Segment("b", "=", <<"1">>)}

Shorthands ==
  {RSSelector(<<s>>, Nil) : s \in Segments} \cup {RSSelector(<<s, t>>, Nil) : s, t \in Segments}

Metas == {Nil} \cup [labels : TemplateMaps \ {<<>>}, annotated : BOOLEAN]
MapSelectors == {Nil} \cup {RSSelector(<<>>, l) : l \in LabelMaps}

KokiDocs ==
  [syntax : {"koki"}, kind : {"controller", "job"}, selector : MapSelectors \cup Shorthands,
   meta : Metas, spec : BOOLEAN]
  \cup [syntax : {"koki"}, kind : {"rc"}, selector : MapSelectors, meta : Metas, spec : BOOLEAN]
  \cup [syntax : {"koki"}, kind : {"selecting"}, selector : MapSelectors \cup Shorthands,
        meta : {Nil}, spec : {FALSE}]

MCFirstDocs == KubeDocs \cup KokiDocs
=============================================================================
