----------------------------- MODULE Placement ------------------------------
(***************************************************************************)
(* Where a pod may run: its node selector, its affinity to nodes and to    *)
(* other pods, and its tolerations, in both syntaxes.                      *)
(*                                                                         *)
(* Short has one list of affinities.  Each is for nodes, for pods or       *)
(* against pods, and a string: the segments of a selector, and ":soft" and *)
(* ":soft:weight" after it.  A string is here its segments and the rest    *)
(* between its colons.                                                     *)
(***************************************************************************)
EXTENDS LabelSelectors

AffinityString(exprs, rest) == [exprs |-> exprs, rest |-> rest]
Affinity(node, pod, anti, topology, namespaces) ==
  [node |-> node, pod |-> pod, anti_pod |-> anti, topology |-> topology, namespaces |-> namespaces]

NodeTerm(exprs) == [exprs |-> exprs]
PodTerm(sel, topology, namespaces) == [sel |-> sel, topology |-> topology, namespaces |-> namespaces]
Weighted(weight, term) == [weight |-> weight, term |-> term]

\* The affinities to nodes, or to pods, or against them.
Terms(hard, soft) == [hard |-> hard, soft |-> soft]
NoTerms == Terms(<<>>, <<>>)

-----------------------------------------------------------------------------
(***************************************************************************)
(* To Short syntax                                                         *)
(***************************************************************************)
NodeOperators == Operators \cup {"Gt", "Lt"}

convertOperator(op) == CASE op = "Gt" -> ">" [] op = "Lt" -> "<" [] op \in Operators -> Symbol(op) [] op = NoOperator -> ""

convertNodeExpr(r) ==
  Segment(IF r.op = NoOperator /\ r.values # <<>> THEN Joined(r.key, r.values) ELSE r.key, convertOperator(r.op),
          IF r.op \in {"In", "NotIn", "Gt", "Lt"} THEN r.values ELSE <<>>)

convertMatchLabelsToExprs(labels) ==
  LET keys == Sorted(IF labels = Nil THEN {} ELSE DOMAIN labels) IN [i \in DOMAIN keys |-> Segment(keys[i], "=", <<labels[keys[i]]>>)]

\* A variant: the weight is left out.
softWeightless(weight) == <<"soft">>

\* A weight of 0 means that there is none.
soft(weight) == IF weight = 0 THEN <<"soft">> ELSE <<"soft", weight>>

\* A term without expressions is left out.
Present(affinities) == SelectSeq(affinities, LAMBDA a : \E s \in {a.node, a.pod, a.anti_pod} \ {Nil} : s.exprs # <<>>)

convertNodeTerm(term, rest) == Affinity(AffinityString([i \in DOMAIN term.exprs |-> convertNodeExpr(term.exprs[i])], rest), Nil, Nil, Empty, Empty)

convertNodeAffinity(node) ==
  LET terms == node.hard \o [i \in DOMAIN node.soft |-> node.soft[i].term]
  IN  IF \E i \in DOMAIN terms : \E j \in DOMAIN terms[i].exprs : terms[i].exprs[j].op \notin NodeOperators \cup {NoOperator} THEN {}
      ELSE {Present([i \in DOMAIN node.hard |-> convertNodeTerm(node.hard[i], <<>>)]
                    \o [i \in DOMAIN node.soft |-> convertNodeTerm(node.soft[i].term, soft(node.soft[i].weight))])}

convertPodTerm(isAntiAffinity, term, rest) ==
  LET exprs == IF term.sel = Nil THEN <<>>
               ELSE convertMatchLabelsToExprs(term.sel.labels)
                      \o [i \in DOMAIN term.sel.exprs |-> ConvertOperatorLabelSelector(term.sel.exprs[i])]
      s     == AffinityString(exprs, rest)
  IN  Affinity(Nil, IF isAntiAffinity THEN Nil ELSE s, IF isAntiAffinity THEN s ELSE Nil, term.topology, term.namespaces)

UnknownOperator(term) ==
  term.sel # Nil /\ \E i \in DOMAIN term.sel.exprs : term.sel.exprs[i].op \notin Operators \cup {NoOperator}

convertPodAffinityTerms(isAntiAffinity, hard) ==
  IF \E i \in DOMAIN hard : UnknownOperator(hard[i]) THEN {}
  ELSE {Present([i \in DOMAIN hard |-> convertPodTerm(isAntiAffinity, hard[i], <<>>)])}

convertPodWeightedAffinityTerms(isAntiAffinity, weighted) ==
  IF \E i \in DOMAIN weighted : UnknownOperator(weighted[i].term) THEN {}
  ELSE {Present([i \in DOMAIN weighted |-> convertPodTerm(isAntiAffinity, weighted[i].term, soft(weighted[i].weight))])}

convertPodAffinity(terms) ==
  {h \o s : h \in convertPodAffinityTerms(FALSE, terms.hard), s \in convertPodWeightedAffinityTerms(FALSE, terms.soft)}
convertPodAntiAffinity(terms) ==
  {h \o s : h \in convertPodAffinityTerms(TRUE, terms.hard), s \in convertPodWeightedAffinityTerms(TRUE, terms.soft)}

\* The node selector becomes one more affinity to nodes.
convertAffinity(p) ==
  LET selector == convertMatchLabelsToExprs(p.nodeSelector)
  IN  {(IF selector = <<>> THEN <<>> ELSE <<Affinity(AffinityString(selector, <<>>), Nil, Nil, Empty, Empty)>>) \o node \o pod \o anti :
         node \in convertNodeAffinity(p.nodes), pod \in convertPodAffinity(p.pods), anti \in convertPodAntiAffinity(p.antipods)}

\* key=value:effect, key:effect or *:effect
convertToleration(t) ==
  LET op   == Get(t, "Operator")
      expr == IF op = <<"Exists">> THEN (IF "Key" \in DOMAIN t THEN t.Key ELSE <<"*">>)
              ELSE Get(t, "Key") \o <<"=">> \o Get(t, "Value")
  IN  IF \/ op \notin {Empty, <<"Equal">>, <<"Exists">>}
         \/ op # <<"Exists">> /\ "Key" \notin DOMAIN t THEN {}
      ELSE {Put([selector |-> Join(<<expr>> \o (IF "Effect" \in DOMAIN t THEN <<t.Effect>> ELSE <<>>), ":")],
                "expiry_after", Get(t, "TolerationSeconds"))}

convertTolerations(tolerations) == Results(convertToleration, tolerations)

-----------------------------------------------------------------------------
(***************************************************************************)
(* To Kubernetes syntax                                                    *)
(***************************************************************************)
\* "" is split into one segment, whose first character is looked at.
parseNodeExprs(segments) ==
  IF segments = <<>> \/ \E i \in DOMAIN segments : segments[i].op \notin {convertOperator(op) : op \in NodeOperators} THEN {}
  ELSE {NodeTerm([i \in DOMAIN segments |->
          LET s == segments[i]
          IN  Requirement(s.key, CHOOSE op \in NodeOperators : convertOperator(op) = s.op,
                          IF s.op \in {"", "!"} THEN <<>> ELSE ParseValues(s.values))])}

\* No selector is parsed from an empty string.
parsePodExprs(segments) ==
  IF segments = <<>> THEN {Nil} ELSE IF Parses(segments) THEN {ParseLabelSelector(segments)} ELSE {}

\* Is this ":soft" or ":soft:weight"?  What follows is ignored.
IsSoft(rest) == rest # <<>>
WellQualified(rest) == IsSoft(rest) => rest[1] = "soft" /\ (Len(rest) > 1 => rest[2] \in Int)
weight(rest, default) == IF Len(rest) > 1 THEN rest[2] ELSE default

\* A term for each of a list, hard ones and soft ones; default is the weight
\* of a soft one that has none.
splitAndRevert(terms, rests, default) ==
  LET hard == SelectSeq([i \in DOMAIN rests |-> i], LAMBDA i : ~IsSoft(rests[i]))
      weighted == SelectSeq([i \in DOMAIN rests |-> i], LAMBDA i : IsSoft(rests[i]))
  IN  IF \E i \in DOMAIN rests : ~WellQualified(rests[i]) THEN {}
      ELSE {Terms([i \in DOMAIN hard |-> t[hard[i]]],
                  [i \in DOMAIN weighted |-> Weighted(weight(rests[weighted[i]], default), t[weighted[i]])]) : t \in terms}

splitAndRevertNodeAffinity(affinities) ==
  splitAndRevert(Results(LAMBDA a : parseNodeExprs(a.node.exprs), affinities), [i \in DOMAIN affinities |-> affinities[i].node.rest], 0)

revertNodeAffinity(affinities) == IF affinities = <<>> THEN {NoTerms} ELSE splitAndRevertNodeAffinity(affinities)

splitAndRevertPodAffinity(affinities, name) ==
  splitAndRevert(Results(LAMBDA a : {PodTerm(sel, a.topology, a.namespaces) : sel \in parsePodExprs(a[name].exprs)}, affinities),
                 [i \in DOMAIN affinities |-> affinities[i][name].rest], 1)

revertPodAffinity(affinities) == IF affinities = <<>> THEN {NoTerms} ELSE splitAndRevertPodAffinity(affinities, "pod")
revertPodAntiAffinity(affinities) == IF affinities = <<>> THEN {NoTerms} ELSE splitAndRevertPodAffinity(affinities, "anti_pod")

splitAffinities(affinities) ==
  LET isNode(a) == a.node # Nil
      isPod(a)  == ~isNode(a) /\ a.pod # Nil
      isAnti(a) == ~isNode(a) /\ ~isPod(a)
  IN  IF \E i \in DOMAIN affinities : isAnti(affinities[i]) /\ affinities[i].anti_pod = Nil THEN {}
      ELSE {[node |-> SelectSeq(affinities, isNode), pod |-> SelectSeq(affinities, isPod), antiPod |-> SelectSeq(affinities, isAnti)]}

ConvertKokiAffinity(affinities) ==
  UNION {{[nodes |-> node, pods |-> pod, antipods |-> anti] :
            node \in revertNodeAffinity(split.node), pod \in revertPodAffinity(split.pod), anti \in revertPodAntiAffinity(split.antiPod)} :
         split \in splitAffinities(affinities)}

revertToleration(k) ==
  LET superFields == Split(k.selector, ":")
      fields      == Split(superFields[1], "=")
      effect      == IF Len(superFields) = 2 THEN superFields[2] ELSE Empty
      keyed       == CASE Len(fields) = 1 -> Put([Operator |-> <<"Exists">>], "Key", IF fields[1] = <<"*">> THEN Empty ELSE fields[1])
                       [] Len(fields) = 2 -> Put(Put([Operator |-> <<"Equal">>], "Key", fields[1]), "Value", fields[2])
  IN  IF \/ Len(superFields) > 2
         \/ Len(superFields) = 2 /\ effect \notin {<<"NoSchedule">>, <<"PreferNoSchedule">>, <<"NoExecute">>}
         \/ Len(fields) > 2 THEN {}
      ELSE {Put(Put(keyed, "Effect", effect), "TolerationSeconds", Get(k, "expiry_after"))}

revertTolerations(tolerations) == Results(revertToleration, tolerations)

-----------------------------------------------------------------------------
(***************************************************************************)
(* What the scheduler makes of it                                          *)
(***************************************************************************)
NodeHolds(r, labels) ==
  CASE r.op = "Gt" -> r.key \in DOMAIN labels /\ labels[r.key] > r.values[1]
    [] r.op = "Lt" -> r.key \in DOMAIN labels /\ labels[r.key] < r.values[1]
    [] OTHER -> Holds(r, labels)

NodeMatches(term, labels) == \A i \in DOMAIN term.exprs : NodeHolds(term.exprs[i], labels)

\* May a node with these labels run the pod?  All of the node selector must
\* hold, and one of the terms, if there are any.
MayRun(p, labels) ==
  /\ p.nodeSelector # Nil => \A k \in DOMAIN p.nodeSelector : k \in DOMAIN labels /\ labels[k] = p.nodeSelector[k]
  /\ p.nodes.hard # <<>> => \E i \in DOMAIN p.nodes.hard : NodeMatches(p.nodes.hard[i], labels)

\* How much such a node is preferred.
Preference(p, labels) ==
  FoldLeft(LAMBDA sum, w : sum + w.weight, 0, SelectSeq(p.nodes.soft, LAMBDA w : NodeMatches(w.term, labels)))

\* The other pods a term is about, where and in which namespaces; none if it
\* has no selector.
About(term) == PodTerm({labels \in Labelings : term.sel # Nil /\ Matches(term.sel, labels)}, term.topology, term.namespaces)
PodTerms(terms) ==
  Terms([i \in DOMAIN terms.hard |-> About(terms.hard[i])],
        [i \in DOMAIN terms.soft |-> Weighted(terms.soft[i].weight, About(terms.soft[i].term))])

Taints == [key : {<<"k">>, <<"l">>}, value : {Empty, <<"v">>}, effect : {<<"NoSchedule">>, <<"PreferNoSchedule">>, <<"NoExecute">>}]

Tolerates(t, taint) ==
  /\ "Effect" \in DOMAIN t => t.Effect = taint.effect
  /\ "Key" \in DOMAIN t => t.Key = taint.key
  /\ Get(t, "Operator") # <<"Exists">> => Get(t, "Value") = taint.value

Tolerated(tolerations) ==
  [i \in DOMAIN tolerations |->
     [taints |-> {taint \in Taints : Tolerates(tolerations[i], taint)}, seconds |-> Get(tolerations[i], "TolerationSeconds")]]
=============================================================================
