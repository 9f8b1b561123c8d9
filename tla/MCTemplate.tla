----------------------------- MODULE MCTemplate -----------------------------
(***************************************************************************)
(* Filling the holes of a template one by one, in any order, compared with *)
(* ReplaceAny, which walks the template.  Module Imports evaluates in the  *)
(* first way: a hole at a time, each perhaps after the evaluation of an    *)
(* import; the code in the second.                                         *)
(***************************************************************************)
EXTENDS Template, FiniteSets

\* Values a resolver may return: scalars, structures, and none.
Values == {Str(<<Lit("s")>>), Num(7), List(<<Str(<<Lit("s")>>), Num(7)>>), List(<<>>),
           Map([k \in {"k"} |-> List(<<Num(7)>>)]), Str(<<Hole("y", <<>>)>>), Err}

Strings == {Str(<<Lit("s")>>), Str(<<Hole("x", <<>>)>>), Str(<<Dots("x", <<>>)>>),
            Str(<<Lit("s"), Hole("x", <<>>)>>), Str(<<Hole("y", <<>>), Lit("s"), Hole("x", <<>>)>>),
            Str(<<Hole("x", <<>>), Hole("x", <<>>)>>), Str(<<Lit("s"), Dots("x", <<>>)>>)}
Leaves == Strings \cup {Num(7)}
Lists(items) == {List(<<>>)} \cup {List(<<a>>) : a \in items} \cup {List(<<a, b>>) : a, b \in items}
Maps(items) == {Map([k \in {"k", "m"} |-> IF k = "k" THEN a ELSE b]) : a, b \in items}
Templates == Leaves \cup Lists(Leaves) \cup Maps(Leaves)
             \cup {Map([k \in {"k"} |-> a]) : a \in Lists(Strings)} \cup {List(<<a>>) : a \in Lists(Strings)}

\* The identifiers of Templates, and what the resolver says of them.
X == [name |-> "x", path |-> <<>>]
XDots == [name |-> "x", path |-> <<"", "", "">>]
Y == [name |-> "y", path |-> <<>>]

VARIABLES template, resolver, env, outcome
vars == <<template, resolver, env, outcome>>

\* A hole whose name the code looks up: ${x...} outside a list is x with a
\* path of empty keys, which no value has.
Init ==
  /\ template \in Templates
  /\ \E x, y \in Values :
       resolver = [id \in {X, XDots, Y} |-> CASE id = X -> x [] id = Y -> y [] OTHER -> Err]
  /\ env = <<>>
  /\ outcome = "filling"

ValueOf(hole) == resolver[[name |-> hole.name, path |-> hole.path]]

FillOne ==
  /\ outcome = "filling"
  /\ \E h \in Holes(template) \ DOMAIN env :
       IF ValueOf(h) # Err /\ Fits(h, ValueOf(h))
       THEN /\ env' = (h :> ValueOf(h)) @@ env
            /\ UNCHANGED outcome
       ELSE /\ outcome' = "error"
            /\ UNCHANGED env
  /\ UNCHANGED <<template, resolver>>

Finish ==
  /\ outcome = "filling"
  /\ Holes(template) \subseteq DOMAIN env
  /\ outcome' = "filled"
  /\ UNCHANGED <<template, resolver, env>>

Next == FillOne \/ Finish
Spec == Init /\ [][Next]_vars

\* Whatever the order, filling hole by hole gives what ReplaceAny gives, and
\* fails exactly if ReplaceAny does.
StepwiseIsReplaceAny ==
  /\ outcome = "filled" => Fill(template, env) = ReplaceAny(template, resolver)
  /\ outcome = "error" => ReplaceAny(template, resolver) = Err
=============================================================================
