--------------------------- MODULE LabelSelectors ---------------------------
(***************************************************************************)
(* Label selectors, and the expressions they are written with in Short     *)
(* syntax: parser/expressions.                                             *)
(***************************************************************************)
EXTENDS Text

CONSTANTS
  Key, Value,    \* of labels
  EmptyValue,    \* the empty string
  Joined(_, _)   \* a key followed by values, which reads as a key

-----------------------------------------------------------------------------
(***************************************************************************)
(* Labels are a map, which may be nil.  A selector has labels and          *)
(* expressions; as a string it is the sequence of its segments.  A segment *)
(* is key=v,w or key!=v,w or key or !key; or it is none of these: it has   *)
(* too many operators, or is empty (seg[0] panics).  An error and a panic  *)
(* are both a run that failed.                                             *)
(***************************************************************************)
IsEmpty(labels) == labels = Nil \/ DOMAIN labels = {}

\* What is left of labels when the manifest is written: omitempty.
Written(labels) == IF IsEmpty(labels) THEN Nil ELSE labels

LabelSelector(labels, exprs) == [labels |-> labels, exprs |-> exprs]
Requirement(key, op, values) == [key |-> key, op |-> op, values |-> values]
Segment(key, op, values) == [key |-> key, op |-> op, values |-> values]

\* An operator may be left out: the code lets that pass.
NoOperator == ""
Operators == {"In", "NotIn", "Exists", "DoesNotExist"}
Symbol(op) == CASE op = "In" -> "=" [] op = "NotIn" -> "!=" [] op = "Exists" -> "" [] op = "DoesNotExist" -> "!"
Operator(symbol) == CHOOSE op \in Operators : Symbol(op) = symbol

\* Split returns one empty string where there is none.
ParseValues(values) == IF values = <<>> THEN <<EmptyValue>> ELSE values

IsLabel(segment) == segment.op = "=" /\ Len(ParseValues(segment.values)) = 1

\* Equality with one value becomes a label, and the last one counts.
ParseLabels(segments) ==
  LET equal   == {i \in DOMAIN segments : IsLabel(segments[i])}
      last(k) == CHOOSE i \in equal : segments[i].key = k /\ \A j \in equal : segments[j].key = k => j <= i
  IN  IF equal = {} THEN Nil
      ELSE [k \in {segments[i].key : i \in equal} |-> ParseValues(segments[last(k)].values)[1]]

ParseRequirement(segment) ==
  Requirement(segment.key, Operator(segment.op),
              IF segment.op \in {"=", "!="} THEN ParseValues(segment.values) ELSE <<>>)

\* The others become expressions, in their order: reqs[n] are those of the
\* first n segments.
ParseRequirements(segments) ==
  LET reqs[n \in 0..Len(segments)] ==
        IF n = 0 THEN <<>>
        ELSE IF IsLabel(segments[n]) THEN reqs[n - 1] ELSE Append(reqs[n - 1], ParseRequirement(segments[n]))
  IN  reqs[Len(segments)]

ParseLabelSelector(segments) == LabelSelector(ParseLabels(segments), ParseRequirements(segments))

\* A variant: the operator is written before each of the values.
ConvertOperatorLabelSelectorRepeats(r) ==
  Segment(r.key,
          IF Len(r.values) > 1 THEN "malformed" ELSE IF r.op = NoOperator THEN "" ELSE Symbol(r.op), r.values)

ConvertOperatorLabelSelector(r) ==
  CASE r.op = NoOperator -> Segment(IF r.values = <<>> THEN r.key ELSE Joined(r.key, r.values), "", <<>>)
    [] r.op \in {"Exists", "DoesNotExist"} -> Segment(r.key, Symbol(r.op), <<>>)
    [] r.op \in {"In", "NotIn"} -> Segment(r.key, Symbol(r.op), r.values)

\* Labels are written in the order of a Go map, expressions in their own.
UnparseLabelSelector(sel) ==
  IF \E i \in DOMAIN sel.exprs : sel.exprs[i].op \notin Operators \cup {NoOperator} THEN {}
  ELSE {[i \in DOMAIN keys |-> Segment(keys[i], "=", <<sel.labels[keys[i]]>>)]
          \o [i \in DOMAIN sel.exprs |-> ConvertOperatorLabelSelector(sel.exprs[i])] :
        keys \in SetToSeqs(IF sel.labels = Nil THEN {} ELSE DOMAIN sel.labels)}

Parses(segments) == \A i \in DOMAIN segments : segments[i].op \in {"=", "!=", "", "!"}

-----------------------------------------------------------------------------
(***************************************************************************)
(* A selector in Short syntax has labels, or a shorthand string.  Its      *)
(* conversion takes and returns the labels of the pod template too; the    *)
(* set of possible results is empty for an error.                          *)
(***************************************************************************)
RSSelector(shorthand, labels) == [shorthand |-> shorthand, labels |-> labels]

\* A variant: the labels of the template are left to the selector.
convertRSLabelSelectorAlwaysShared(sel, labels) ==
  IF sel = Nil THEN {[selector |-> RSSelector(<<>>, labels), override |-> Nil]}
  ELSE IF sel.exprs = <<>> THEN {[selector |-> RSSelector(<<>>, sel.labels), override |-> Nil]}
  ELSE {[selector |-> RSSelector(s, Nil), override |-> labels] : s \in UnparseLabelSelector(sel)}

convertRSLabelSelector(sel, labels) ==
  IF sel = Nil THEN {[selector |-> RSSelector(<<>>, labels), override |-> Nil]}
  ELSE IF sel.exprs = <<>>
  THEN {[selector |-> RSSelector(<<>>, sel.labels), override |-> IF sel.labels = labels THEN Nil ELSE labels]}
  ELSE {[selector |-> RSSelector(s, Nil), override |-> labels] : s \in UnparseLabelSelector(sel)}

\* A variant: a template that has labels gets those of the selector too.
revertRSSelectorOverrides(rs, labels) ==
  IF rs = Nil THEN {[selector |-> Nil, override |-> Nil]}
  ELSE IF rs.shorthand = <<>>
  THEN {[selector |-> LabelSelector(rs.labels, <<>>), override |-> rs.labels]}
  ELSE IF ~Parses(rs.shorthand) THEN {}
  ELSE {[selector |-> ParseLabelSelector(rs.shorthand), override |-> labels]}

revertRSSelector(rs, labels) ==
  IF rs = Nil THEN {[selector |-> Nil, override |-> Nil]}
  ELSE IF rs.shorthand = <<>>
  THEN {[selector |-> LabelSelector(rs.labels, <<>>), override |-> IF IsEmpty(labels) THEN rs.labels ELSE labels]}
  ELSE IF ~Parses(rs.shorthand) THEN {}
  ELSE LET sel == ParseLabelSelector(rs.shorthand)
       IN  {[selector |-> sel, override |-> IF IsEmpty(labels) /\ sel.exprs = <<>> THEN sel.labels ELSE labels]}

WrittenSelector(sel) == IF sel = Nil THEN Nil ELSE LabelSelector(Written(sel.labels), sel.exprs)

-----------------------------------------------------------------------------
(***************************************************************************)
(* What selectors mean                                                     *)
(***************************************************************************)
\* The labels an object may have, and whether a selector matches them.
Labelings == UNION {[keys -> Value] : keys \in SUBSET Key}

Holds(r, labels) ==
  LET has == r.key \in DOMAIN labels
      one == has /\ \E i \in DOMAIN r.values : r.values[i] = labels[r.key]
  IN  CASE r.op = "In" -> one
        [] r.op = "NotIn" -> ~one
        [] r.op = "Exists" -> has
        [] r.op = "DoesNotExist" -> ~has

Matches(sel, labels) ==
  /\ sel.labels # Nil => \A k \in DOMAIN sel.labels : k \in DOMAIN labels /\ labels[k] = sel.labels[k]
  /\ \A i \in DOMAIN sel.exprs : Holds(sel.exprs[i], labels)
-----------------------------------------------------------------------------
(***************************************************************************)
(* Selectors, the templates they select and their metadata, as the types   *)
(* of either syntax let them be.  An operator is any string: "Bogus"       *)
(* stands for those the code does not know.                                *)
(***************************************************************************)
AnyLabels == Labelings \cup {Nil}
AnyRequirement == [key : Key, op : Operators \cup {NoOperator, "Bogus"}, values : Seq(Value)]
AnySegment == [key : Key, op : {"=", "!=", "", "!", "malformed"}, values : Seq(Value)]
AnySelector == [labels : AnyLabels, exprs : Seq(AnyRequirement)]
AnyRSSelector == [shorthand : Seq(AnySegment), labels : AnyLabels]
AnyTemplate == [labels : AnyLabels, annotated : BOOLEAN, spec : BOOLEAN]
AnyMeta == [labels : AnyLabels, annotated : BOOLEAN]

\* Keys are bounded in length.
ASSUME LabelsAssumption == IsFiniteSet(Key) /\ EmptyValue \in Value

\* Nil is none of the things that may be missing.
ASSUME NilAssumption == Nil \notin Labelings \cup AnySelector \cup AnyRSSelector \cup AnyTemplate \cup AnyMeta
=============================================================================
