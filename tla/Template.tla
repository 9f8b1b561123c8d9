------------------------------ MODULE Template ------------------------------
(***************************************************************************)
(* Package template: filling the holes ${name.path} of a YAML value, and   *)
(* jsonutil.AtPathIn, which the holes' paths are looked up with.           *)
(*                                                                         *)
(* A value is a string, a number, a list or a map.  A string is the        *)
(* sequence of its parts, literals and holes, which is what the three      *)
(* regular expressions of template.go distinguish.  ReplaceAny follows the *)
(* code; Holes, Fits and Fill split it into the holes a value has, the     *)
(* values each may take, and the substitution, so that the evaluator of    *)
(* module Imports can fill the holes one by one.                           *)
(***************************************************************************)
EXTENDS Integers, Sequences, SequencesExt, TLC

CONSTANTS Err, Panic

Str(parts) == [t |-> "str", parts |-> parts]
Num(n) == [t |-> "num", n |-> n]
List(items) == [t |-> "list", items |-> items]
Map(entries) == [t |-> "map", entries |-> entries]

Lit(text) == [p |-> "lit", text |-> text]
Hole(name, path) == [p |-> "hole", name |-> name, path |-> path, dots |-> FALSE]
Dots(name, path) == [p |-> "hole", name |-> name, path |-> path, dots |-> TRUE]

-----------------------------------------------------------------------------
\* strconv.ParseInt, for the keys that are used.
Numerals == {"-1", "0", "1", "2"}
ParseInt(key) == CASE key = "-1" -> -1 [] key = "0" -> 0 [] key = "1" -> 1 [] key = "2" -> 2

\* Only the upper bound of an index is tested: a negative one panics.
RECURSIVE AtPathIn(_, _)
AtPathIn(obj, path) ==
  IF path = <<>> THEN obj
  ELSE CASE obj.t = "list" ->
              IF Head(path) \notin Numerals THEN Err
              ELSE LET i == ParseInt(Head(path))
                   IN  IF Len(obj.items) <= i THEN Err
                       ELSE IF i < 0 THEN Panic
                       ELSE AtPathIn(obj.items[i + 1], Tail(path))
         [] obj.t = "map" ->
              IF Head(path) \in DOMAIN obj.entries THEN AtPathIn(obj.entries[Head(path)], Tail(path)) ELSE Err
         [] OTHER -> Err

-----------------------------------------------------------------------------
\* The identifier between the braces.  Split at its dots, the three dots of
\* a spread that is not a list item are three empty segments.
Ident(part) == [name |-> part.name,
                path |-> IF part.dots THEN part.path \o <<"", "", "">> ELSE part.path]
SpreadIdent(part) == [name |-> part.name, path |-> part.path]

IsWhole(value) == value.t = "str" /\ Len(value.parts) = 1 /\ value.parts[1].p = "hole"
IsSpread(value) == IsWhole(value) /\ value.parts[1].dots

Scalar(value) == value.t \in {"str", "num"}

\* The number is formatted, the string is taken as it is.
Text(value) == IF value.t = "num" THEN <<Lit(ToString(value.n))>> ELSE value.parts

\* A resolver is a function from identifiers to values or Err.
FillString(parts, resolver) ==
  IF \A i \in DOMAIN parts : parts[i].p = "hole" =>
       /\ resolver[Ident(parts[i])] # Err
       /\ Scalar(resolver[Ident(parts[i])])
  THEN Str(FlattenSeq([i \in DOMAIN parts |->
             IF parts[i].p = "hole" THEN Text(resolver[Ident(parts[i])]) ELSE <<parts[i]>>]))
  ELSE Err

ReplaceString(template, resolver) ==
  IF IsWhole(template) THEN resolver[Ident(template.parts[1])]
  ELSE FillString(template.parts, resolver)

\* The items a list item is replaced by when it is a spread.
GetSpread(item, resolver) ==
  LET val == resolver[SpreadIdent(item.parts[1])]
  IN  IF val = Err THEN Err ELSE IF val.t = "list" THEN val.items ELSE Err

RECURSIVE ReplaceAny(_, _)
\* A variant: the list is inserted as one item.
ReplaceSliceNested(items, resolver) ==
  LET new == [i \in DOMAIN items |->
                IF IsSpread(items[i]) THEN resolver[SpreadIdent(items[i].parts[1])]
                ELSE ReplaceAny(items[i], resolver)]
  IN  IF \E i \in DOMAIN new : new[i] = Err THEN Err ELSE List(new)

ReplaceSlice(items, resolver) ==
  LET new == [i \in DOMAIN items |->
                IF IsSpread(items[i]) THEN GetSpread(items[i], resolver)
                ELSE LET item == ReplaceAny(items[i], resolver)
                     IN  IF item = Err THEN Err ELSE <<item>>]
  IN  IF \E i \in DOMAIN new : new[i] = Err THEN Err ELSE List(FlattenSeq(new))

ReplaceMap(entries, resolver) ==
  LET new == [k \in DOMAIN entries |-> ReplaceAny(entries[k], resolver)]
  IN  IF \E k \in DOMAIN new : new[k] = Err THEN Err ELSE Map(new)

ReplaceAny(template, resolver) ==
  CASE template.t = "str" -> ReplaceString(template, resolver)
    [] template.t = "list" -> ReplaceSlice(template.items, resolver)
    [] template.t = "map" -> ReplaceMap(template.entries, resolver)
    [] OTHER -> template

-----------------------------------------------------------------------------
(***************************************************************************)
(* The same in three parts.  A hole is an identifier and the use made of   *)
(* its value: it replaces the string, is written into it, or is spread     *)
(* over a list.                                                            *)
(***************************************************************************)
HoleAs(use, ident) == [use |-> use, name |-> ident.name, path |-> ident.path]

Fits(hole, value) ==
  CASE hole.use = "expand" -> TRUE
    [] hole.use = "fill" -> Scalar(value)
    [] hole.use = "spread" -> value.t = "list"

StringHoles(value) ==
  IF IsWhole(value) THEN {HoleAs("expand", Ident(value.parts[1]))}
  ELSE {HoleAs("fill", Ident(value.parts[i])) : i \in {j \in DOMAIN value.parts : value.parts[j].p = "hole"}}

RECURSIVE Holes(_)
Holes(template) ==
  CASE template.t = "str" -> StringHoles(template)
    [] template.t = "list" ->
         UNION {IF IsSpread(template.items[i]) THEN {HoleAs("spread", SpreadIdent(template.items[i].parts[1]))}
                ELSE Holes(template.items[i]) : i \in DOMAIN template.items}
    [] template.t = "map" -> UNION {Holes(template.entries[k]) : k \in DOMAIN template.entries}
    [] OTHER -> {}

\* env gives every hole a value that fits it.
RECURSIVE Fill(_, _)
Fill(template, env) ==
  CASE template.t = "str" ->
         IF IsWhole(template) THEN env[HoleAs("expand", Ident(template.parts[1]))]
         ELSE Str(FlattenSeq([i \in DOMAIN template.parts |->
                    IF template.parts[i].p = "hole"
                    THEN Text(env[HoleAs("fill", Ident(template.parts[i]))])
                    ELSE <<template.parts[i]>>]))
    [] template.t = "list" ->
         List(FlattenSeq([i \in DOMAIN template.items |->
                IF IsSpread(template.items[i])
                THEN env[HoleAs("spread", SpreadIdent(template.items[i].parts[1]))].items
                ELSE <<Fill(template.items[i], env)>>]))
    [] template.t = "map" -> Map([k \in DOMAIN template.entries |-> Fill(template.entries[k], env)])
    [] OTHER -> template
=============================================================================
