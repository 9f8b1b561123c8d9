-------------------------- MODULE WorkloadsProofs --------------------------
(***************************************************************************)
(* Proofs about module Workloads, for every set of keys and values and any *)
(* number of labels, expressions and values: a manifest that is converted  *)
(* to Short and back selects what it selected, is in a normal form, and is *)
(* read again.                                                             *)
(***************************************************************************)
EXTENDS Workloads, SequenceFacts, FiniteSetTheorems

(***************************************************************************)
(* The inductive invariant.  What is written in Kubernetes syntax is       *)
(* normal: its expressions are those that are not labels, and a template   *)
(* has labels if the selector has nothing else.                            *)
(***************************************************************************)
NormalRequirement(r) ==
  /\ r.op \in Operators
  /\ r.op = "In" => Len(r.values) > 1
  /\ r.op = "NotIn" => r.values # <<>>
  /\ r.op \in {"Exists", "DoesNotExist"} => r.values = <<>>

NormalSelector(sel) ==
  /\ sel.labels = Written(sel.labels)
  /\ \A i \in DOMAIN sel.exprs : NormalRequirement(sel.exprs[i])

NormalLabels(sel, labels) ==
  /\ labels = Written(labels)
  /\ sel = Nil => labels = Nil
  /\ sel # Nil /\ sel.exprs = <<>> /\ sel.labels # Nil => labels # Nil

Normal(d) ==
  /\ d.selector # Nil => NormalSelector(d.selector)
  /\ d.kind \in {"controller", "job"} => NormalLabels(d.selector, d.template.labels)
  /\ d.kind = "rc" /\ d.template # Nil => d.template.labels = Written(d.template.labels)

\* What is written in Short can be parsed.
Readable(d) == d.selector # Nil => Parses(d.selector.shorthand)

DocsInv ==
  /\ doc.syntax = "kube" => doc \in AnyKube /\ (doc = first \/ Normal(doc))
  /\ doc.syntax = "koki" => doc \in AnyKoki /\ (doc = first \/ Readable(doc))
  /\ doc.syntax \in {"kube", "koki"}
  /\ kube # Nil => kube \in AnyKube /\ (kube = first \/ Normal(kube))
  /\ first \in FirstDocs

\* How the documents were made of each other.
History ==
  /\ doc.syntax = "koki" /\ kube # Nil => doc \in Convert(kube)
  /\ doc.syntax = "kube" /\ kube # Nil => doc = kube \/ \E k \in Convert(kube) : doc \in Revert(k)
  /\ refused => IF doc.syntax = "kube" THEN Convert(doc) = {} ELSE Revert(doc) = {}

\* The selector of a ReplicationController does not survive.
NoSelectorOfRC ==
  first.syntax = "kube" =>
    /\ doc.kind = "rc" => doc = first \/ doc.selector = Nil
    /\ kube # Nil /\ kube.kind = "rc" => kube = first \/ kube.selector = Nil

WorkloadsInv == DocsInv /\ History /\ NoSelectorOfRC
-----------------------------------------------------------------------------
(***************************************************************************)
(* Orders of a set, and the last of some positions                         *)
(***************************************************************************)
\* A finite set has an order, and in each one every element occurs once.
LEMMA Orderings ==
  ASSUME NEW S, IsFiniteSet(S)
  PROVE  /\ SetToSeqs(S) # {}
         /\ \A f \in SetToSeqs(S) :
              /\ f \in Seq(S) /\ DOMAIN f = 1..Len(f)
              /\ \A i, j \in DOMAIN f : f[i] = f[j] => i = j
              /\ \A x \in S : \E i \in DOMAIN f : f[i] = x
<1> DEFINE n == Cardinality(S)
<1>1. n \in Nat /\ ExistsBijection(1..n, S)
  BY FS_CardinalityType
<1>2. SetToSeqs(S) = Injection(1..n, S)
  BY DEF SetToSeqs, Injection, IsInjective
<1>3. SetToSeqs(S) # {}
  BY <1>1, <1>2 DEF ExistsBijection, Bijection
<1>4. ASSUME NEW f \in SetToSeqs(S)
      PROVE  /\ f \in Seq(S) /\ DOMAIN f = 1..Len(f)
             /\ \A i, j \in DOMAIN f : f[i] = f[j] => i = j
             /\ \A x \in S : \E i \in DOMAIN f : f[i] = x
  <2>1. f \in [1..n -> S] /\ \A i, j \in 1..n : f[i] = f[j] => i = j
    BY <1>2, <1>4 DEF Injection, IsInjective
  <2>2. f \in Seq(S) /\ Len(f) = n
    BY <2>1, <1>1
  <2>3. IsFiniteSet(1..n) /\ Cardinality(1..n) = n
    BY <1>1, FS_Interval
  <2>4. f \in Surjection(1..n, S)
    BY <2>3, <1>2, <1>4, FS_Injection
  <2> QED
    BY <2>1, <2>2, <2>4 DEF Surjection
<1> QED
  BY <1>3, <1>4

\* Some numbers up to n have a greatest.
LEMMA LastExists ==
  ASSUME NEW n \in Nat, NEW I, I \subseteq 1..n, I # {}
  PROVE  \E i \in I : \A j \in I : j <= i
<1> DEFINE S == {k \in Nat : \A J \in SUBSET (1..k) : J # {} => \E i \in J : \A j \in J : j <= i}
<1>1. 0 \in S
  <2>1. \A J \in SUBSET (1..0) : J = {}
    OBVIOUS
  <2> QED
    BY <2>1
<1>2. ASSUME NEW k \in Nat, k \in S
      PROVE  k + 1 \in S
  <2> SUFFICES ASSUME NEW J \in SUBSET (1..k+1), J # {}
               PROVE  \E i \in J : \A j \in J : j <= i
    OBVIOUS
  <2>1. CASE k + 1 \in J
    BY <2>1
  <2>2. CASE k + 1 \notin J
    <3>1. J \in SUBSET (1..k)
      BY <2>2
    <3> QED
      BY <3>1, <1>2
  <2> QED
    BY <2>1, <2>2
<1>3. Nat \subseteq S
  <2> HIDE DEF S
  <2> QED
    BY <1>1, <1>2, InductionOnSet
<1>4. n \in S
  BY <1>3
<1> QED
  BY <1>4

-----------------------------------------------------------------------------
(***************************************************************************)
(* Operators and values                                                    *)
(***************************************************************************)
Symbols == {"=", "!=", "", "!"}

\* Operators have different symbols.
LEMMA OperatorSymbols ==
  /\ Operator("=") = "In" /\ Operator("!=") = "NotIn" /\ Operator("") = "Exists" /\ Operator("!") = "DoesNotExist"
  /\ Symbol("In") = "=" /\ Symbol("NotIn") = "!=" /\ Symbol("Exists") = "" /\ Symbol("DoesNotExist") = "!"
<1>1. Symbol("In") = "=" /\ Symbol("NotIn") = "!=" /\ Symbol("Exists") = "" /\ Symbol("DoesNotExist") = "!"
  BY DEF Symbol
<1>2. \A op \in Operators : op = "In" \/ op = "NotIn" \/ op = "Exists" \/ op = "DoesNotExist"
  BY DEF Operators
<1>3. "In" \in Operators /\ "NotIn" \in Operators /\ "Exists" \in Operators /\ "DoesNotExist" \in Operators
  BY DEF Operators
<1>4. ASSUME NEW op \in Operators
      PROVE  Operator(Symbol(op)) = op
  <2>1. \A o \in Operators : Symbol(o) = Symbol(op) => o = op
    BY <1>1, <1>2
  <2> HIDE DEF Operators
  <2> QED
    BY <2>1 DEF Operator
<1> QED
  BY <1>1, <1>3, <1>4

\* Splitting the values of a segment returns at least one.
LEMMA ParsedValues ==
  ASSUME NEW values \in Seq(Value)
  PROVE  /\ ParseValues(values) \in Seq(Value) /\ ParseValues(values) # <<>> /\ Len(ParseValues(values)) >= 1
         /\ values # <<>> => ParseValues(values) = values
<1>1. <<EmptyValue>> \in Seq(Value) /\ <<EmptyValue>> # <<>> /\ Len(<<EmptyValue>>) = 1
  BY LabelsAssumption
<1>2. values # <<>> => Len(values) >= 1
  OBVIOUS
<1> QED
  BY <1>1, <1>2 DEF ParseValues

\* An expression that has been parsed is normal.
LEMMA ParsedRequirement ==
  ASSUME NEW s \in AnySegment, s.op \in Symbols, ~IsLabel(s)
  PROVE  ParseRequirement(s) \in AnyRequirement /\ NormalRequirement(ParseRequirement(s))
<1> DEFINE r == ParseRequirement(s)
<1>1. s.key \in Key /\ s.values \in Seq(Value)
  BY DEF AnySegment
<1>2. /\ ParseValues(s.values) \in Seq(Value) /\ ParseValues(s.values) # <<>>
      /\ Len(ParseValues(s.values)) \in Nat /\ Len(ParseValues(s.values)) >= 1
  BY <1>1, ParsedValues
<1>3. /\ r = [key |-> r.key, op |-> r.op, values |-> r.values]
      /\ r.key = s.key /\ r.op = Operator(s.op)
      /\ r.values = IF s.op \in {"=", "!="} THEN ParseValues(s.values) ELSE <<>>
  BY DEF ParseRequirement, Requirement
<1>4. <<>> \in Seq(Value)
  OBVIOUS
<1> HIDE DEF r
<1>5. s.op = "=" => r.op = "In" /\ r.values \in Seq(Value) /\ Len(r.values) > 1
  <2>1. s.op = "=" => Len(ParseValues(s.values)) # 1
    BY DEF IsLabel
  <2>2. s.op = "=" => r.op = "In" /\ r.values = ParseValues(s.values)
    BY <1>3, OperatorSymbols
  <2> QED
    BY <1>2, <2>1, <2>2, SMTT(30)
<1>6. s.op = "!=" => r.op = "NotIn" /\ r.values \in Seq(Value) /\ r.values # <<>>
  BY <1>2, <1>3, OperatorSymbols
<1>7. s.op \in {"", "!"} => r.op \in {"Exists", "DoesNotExist"} /\ r.values \in Seq(Value) /\ r.values = <<>>
  BY <1>3, <1>4, OperatorSymbols
<1>8. r.op \in Operators /\ r.values \in Seq(Value) /\ NormalRequirement(r)
  BY <1>5, <1>6, <1>7 DEF Symbols, Operators, NormalRequirement
<1>9. r \in AnyRequirement
  BY <1>1, <1>3, <1>8 DEF AnyRequirement
<1> QED
  BY <1>8, <1>9 DEF r
-----------------------------------------------------------------------------
(***************************************************************************)
(* The expressions of a shorthand.  f[k] are those of the first k          *)
(* segments.                                                               *)
(***************************************************************************)
IsRounds(f, s, n) ==
  f = [k \in 0..n |-> IF k = 0 THEN <<>>
                      ELSE IF IsLabel(s[k]) THEN f[k - 1] ELSE Append(f[k - 1], ParseRequirement(s[k]))]

\* The function that collects expressions segment by segment exists.
LEMMA RoundsExist ==
  ASSUME NEW s, NEW n \in Nat
  PROVE  \E f : IsRounds(f, s, n)
<1> DEFINE S == {k \in Nat : \E f : IsRounds(f, s, k)}
<1>1. 0 \in S
  <2> DEFINE f == [k \in 0..0 |-> <<>>]
  <2>1. f = [k \in 0..0 |-> IF k = 0 THEN <<>>
                            ELSE IF IsLabel(s[k]) THEN f[k - 1] ELSE Append(f[k - 1], ParseRequirement(s[k]))]
    OBVIOUS
  <2> QED
    BY <2>1 DEF IsRounds
<1>2. ASSUME NEW m \in Nat, m \in S
      PROVE  m + 1 \in S
  <2>1. PICK f : IsRounds(f, s, m)
    BY <1>2
  <2> DEFINE next == IF IsLabel(s[m + 1]) THEN f[m] ELSE Append(f[m], ParseRequirement(s[m + 1]))
             g == [k \in 0..m+1 |-> IF k = m + 1 THEN next ELSE f[k]]
  <2>2. \A k \in 0..m : f[k] = IF k = 0 THEN <<>>
                               ELSE IF IsLabel(s[k]) THEN f[k - 1] ELSE Append(f[k - 1], ParseRequirement(s[k]))
    BY <2>1 DEF IsRounds
  <2> HIDE DEF next
  <2>3. \A k \in 0..m : g[k] = f[k]
    OBVIOUS
  <2>4. ASSUME NEW k \in 0..m+1
        PROVE  g[k] = IF k = 0 THEN <<>>
                      ELSE IF IsLabel(s[k]) THEN g[k - 1] ELSE Append(g[k - 1], ParseRequirement(s[k]))
    <3>1. CASE k = m + 1
      <4>1. g[k] = next /\ g[k - 1] = f[m] /\ k # 0
        BY <3>1, <2>3
      <4> QED
        BY <4>1, <3>1 DEF next
    <3>2. CASE k = 0
      BY <3>2, <2>2, <2>3
    <3>3. CASE k \in 1..m
      <4>1. k \in 0..m /\ k - 1 \in 0..m /\ k # 0
        BY <3>3
      <4>2. g[k] = f[k] /\ g[k - 1] = f[k - 1]
        BY <2>3, <4>1
      <4> HIDE DEF g
      <4> QED
        BY <2>2, <4>1, <4>2
    <3> QED
      BY <3>1, <3>2, <3>3
  <2>5. g = [k \in 0..m+1 |-> g[k]]
    OBVIOUS
  <2> HIDE DEF g
  <2>6. IsRounds(g, s, m + 1)
    BY <2>4, <2>5 DEF IsRounds
  <2> QED
    BY <2>6
<1>3. Nat \subseteq S
  <2> HIDE DEF S
  <2> QED
    BY <1>1, <1>2, InductionOnSet
<1> QED
  BY <1>3

\* What a round adds.
LEMMA Rounds ==
  ASSUME NEW s, Len(s) \in Nat
  PROVE  \E f : /\ ParseRequirements(s) = f[Len(s)]
                /\ f[0] = <<>>
                /\ \A k \in 1..Len(s) :
                     f[k] = IF IsLabel(s[k]) THEN f[k - 1] ELSE Append(f[k - 1], ParseRequirement(s[k]))
<1> DEFINE f == CHOOSE g : g = [k \in 0..Len(s) |-> IF k = 0 THEN <<>>
                      ELSE IF IsLabel(s[k]) THEN g[k - 1] ELSE Append(g[k - 1], ParseRequirement(s[k]))]
<1>1. \E g : g = [k \in 0..Len(s) |-> IF k = 0 THEN <<>>
                      ELSE IF IsLabel(s[k]) THEN g[k - 1] ELSE Append(g[k - 1], ParseRequirement(s[k]))]
  BY RoundsExist DEF IsRounds
<1>2. ParseRequirements(s) = f[Len(s)]
  BY DEF ParseRequirements
<1>3. f = [k \in 0..Len(s) |-> IF k = 0 THEN <<>>
                      ELSE IF IsLabel(s[k]) THEN f[k - 1] ELSE Append(f[k - 1], ParseRequirement(s[k]))]
  BY <1>1
<1> HIDE DEF f
<1>4. ASSUME NEW k \in 0..Len(s)
      PROVE  f[k] = IF k = 0 THEN <<>>
                    ELSE IF IsLabel(s[k]) THEN f[k - 1] ELSE Append(f[k - 1], ParseRequirement(s[k]))
  BY <1>3
<1>5. f[0] = <<>>
  BY <1>4
<1>6. \A k \in 1..Len(s) : f[k] = IF IsLabel(s[k]) THEN f[k - 1] ELSE Append(f[k - 1], ParseRequirement(s[k]))
  BY <1>4
<1> QED
  BY <1>2, <1>5, <1>6, Zenon

\* The expressions are normal, and they are those of the segments that are
\* not labels.
LEMMA ParsedRequirements ==
  ASSUME NEW s \in Seq(AnySegment), Parses(s)
  PROVE  /\ ParseRequirements(s) \in Seq(AnyRequirement)
         /\ \A r : (\E i \in DOMAIN ParseRequirements(s) : r = ParseRequirements(s)[i])
                     <=> \E i \in DOMAIN s : ~IsLabel(s[i]) /\ r = ParseRequirement(s[i])
<1>0. Len(s) \in Nat /\ DOMAIN s = 1..Len(s)
  OBVIOUS
<1>1. PICK f : /\ ParseRequirements(s) = f[Len(s)]
               /\ f[0] = <<>>
               /\ \A k \in 1..Len(s) :
                    f[k] = IF IsLabel(s[k]) THEN f[k - 1] ELSE Append(f[k - 1], ParseRequirement(s[k]))
  BY <1>0, Rounds
<1>2. ASSUME NEW k \in 1..Len(s), ~IsLabel(s[k])
      PROVE  ParseRequirement(s[k]) \in AnyRequirement
  <2>1. k \in DOMAIN s /\ s[k] \in AnySegment
    BY <1>0
  <2>2. s[k].op \in Symbols
    BY <2>1 DEF Parses, Symbols
  <2> QED
    BY <1>2, <2>1, <2>2, ParsedRequirement
<1> DEFINE P(k) == /\ f[k] \in Seq(AnyRequirement)
                   /\ \A r : (\E i \in DOMAIN f[k] : r = f[k][i])
                               <=> \E i \in 1..k : ~IsLabel(s[i]) /\ r = ParseRequirement(s[i])
           S == {k \in Nat : k <= Len(s) => P(k)}
<1>3. 0 \in S
  <2>1. f[0] = <<>>
    BY <1>1
  <2>2. <<>> \in Seq(AnyRequirement) /\ DOMAIN <<>> = {} /\ 1..0 = {}
    OBVIOUS
  <2>3. P(0)
    BY <2>1, <2>2, Zenon
  <2> QED
    BY <2>3
<1>4. ASSUME NEW k \in Nat, k \in S
      PROVE  k + 1 \in S
  <2> SUFFICES ASSUME k + 1 <= Len(s) PROVE P(k + 1)
    OBVIOUS
  <2>1. k + 1 \in 1..Len(s) /\ (k + 1) - 1 = k /\ P(k)
    BY <1>0, <1>4
  <2>2. \A i : i \in 1..k+1 <=> i \in 1..k \/ i = k + 1
    OBVIOUS
  <2>3. CASE IsLabel(s[k + 1])
    <3>1. f[k + 1] = f[k]
      BY <1>1, <2>1, <2>3
    <3>2. \A r : (\E i \in 1..k+1 : ~IsLabel(s[i]) /\ r = ParseRequirement(s[i]))
                   <=> \E i \in 1..k : ~IsLabel(s[i]) /\ r = ParseRequirement(s[i])
      BY <2>2, <2>3, Zenon
    <3>3. /\ f[k] \in Seq(AnyRequirement)
          /\ \A r : (\E i \in DOMAIN f[k] : r = f[k][i])
                      <=> \E i \in 1..k : ~IsLabel(s[i]) /\ r = ParseRequirement(s[i])
      BY <2>1, Zenon
    <3>4. \A r : (\E i \in DOMAIN f[k] : r = f[k][i])
                   <=> \E i \in 1..k+1 : ~IsLabel(s[i]) /\ r = ParseRequirement(s[i])
      <4> TAKE r
      <4> QED
        BY <3>2, <3>3, Zenon
    <3> QED
      BY <3>1, <3>3, <3>4, Zenon
  <2>4. CASE ~IsLabel(s[k + 1])
    <3> DEFINE r0 == ParseRequirement(s[k + 1])
    <3>1. f[k + 1] = Append(f[k], r0)
      BY <1>1, <2>1, <2>4
    <3>2. r0 \in AnyRequirement /\ f[k] \in Seq(AnyRequirement)
      BY <1>2, <2>1, <2>4
    <3> HIDE DEF r0
    <3>3. f[k + 1] \in Seq(AnyRequirement)
      BY <3>1, <3>2
    <3>4. \A r : (\E i \in DOMAIN f[k + 1] : r = f[k + 1][i]) <=> (\E i \in DOMAIN f[k] : r = f[k][i]) \/ r = r0
      <4> DEFINE a == f[k]
                 b == f[k + 1]
      <4>0. a \in Seq(AnyRequirement) /\ b = Append(a, r0)
        BY <3>1, <3>2
      <4> HIDE DEF a, b
      <4>1. /\ Len(a) \in Nat /\ DOMAIN a = 1..Len(a) /\ DOMAIN b = 1..Len(a) + 1
            /\ b[Len(a) + 1] = r0 /\ \A i \in 1..Len(a) : b[i] = a[i]
        BY <3>2, <4>0
      <4>2. \A i : i \in DOMAIN b <=> i \in DOMAIN a \/ i = Len(a) + 1
        BY <4>1
      <4> QED
        BY <4>1, <4>2, Zenon DEF a, b
    <3>5. \A r : (\E i \in 1..k+1 : ~IsLabel(s[i]) /\ r = ParseRequirement(s[i]))
                   <=> (\E i \in 1..k : ~IsLabel(s[i]) /\ r = ParseRequirement(s[i])) \/ r = r0
      BY <2>2, <2>4, Zenon DEF r0
    <3>6. \A r : (\E i \in DOMAIN f[k] : r = f[k][i])
                   <=> \E i \in 1..k : ~IsLabel(s[i]) /\ r = ParseRequirement(s[i])
      BY <2>1, Zenon
    <3> QED
      BY <3>3, <3>4, <3>5, <3>6, Zenon
  <2> QED
    BY <2>3, <2>4
<1>5. Nat \subseteq S
  <2> HIDE DEF S
  <2> QED
    BY <1>3, <1>4, InductionOnSet
<1>6. Len(s) \in S /\ Len(s) <= Len(s)
  <2> HIDE DEF S
  <2> QED
    BY <1>0, <1>5
<1>7. P(Len(s))
  BY <1>6, Zenon
<1> QED
  BY <1>0, <1>1, <1>7, Zenon
-----------------------------------------------------------------------------
(***************************************************************************)
(* The labels of a shorthand                                               *)
(***************************************************************************)
\* Labels have keys and values, and finitely many of them.
LEMMA LabelsType ==
  ASSUME NEW labels \in Labelings
  PROVE  /\ labels # Nil /\ labels \in AnyLabels
         /\ DOMAIN labels \subseteq Key /\ IsFiniteSet(DOMAIN labels)
         /\ labels = [k \in DOMAIN labels |-> labels[k]]
         /\ \A k \in DOMAIN labels : labels[k] \in Value
<1>1. PICK keys \in SUBSET Key : labels \in [keys -> Value]
  BY DEF Labelings
<1>2. DOMAIN labels = keys
  BY <1>1
<1>3. IsFiniteSet(keys)
  BY <1>1, FS_Subset, LabelsAssumption
<1>4. labels # Nil
  BY NilAssumption
<1> QED
  BY <1>1, <1>2, <1>3, <1>4 DEF AnyLabels

\* A function from keys to values is a set of labels.
LEMMA LabelsMade ==
  ASSUME NEW D, D \subseteq Key, NEW labels, labels = [k \in D |-> labels[k]], \A k \in D : labels[k] \in Value
  PROVE  labels \in Labelings
<1>1. labels \in [D -> Value]
  OBVIOUS
<1> QED
  BY <1>1 DEF Labelings

\* Empty labels are left out of a document, others are kept.
LEMMA WrittenLabels ==
  ASSUME NEW labels \in AnyLabels
  PROVE  /\ Written(labels) \in AnyLabels /\ Written(Written(labels)) = Written(labels)
         /\ IsEmpty(labels) => Written(labels) = Nil
         /\ ~IsEmpty(labels) => Written(labels) = labels /\ labels # Nil
         /\ IsEmpty(labels) <=> Written(labels) = Nil
BY DEF Written, IsEmpty, AnyLabels

\* A label is there if a segment is one, and has the value of some segment.
LEMMA ParsedLabels ==
  ASSUME NEW s \in Seq(AnySegment)
  PROVE  /\ ParseLabels(s) \in AnyLabels /\ ParseLabels(s) = Written(ParseLabels(s))
         /\ (\A i \in DOMAIN s : ~IsLabel(s[i])) => ParseLabels(s) = Nil
         /\ \A i \in DOMAIN s : IsLabel(s[i]) => ParseLabels(s) # Nil /\ s[i].key \in DOMAIN ParseLabels(s)
         /\ ParseLabels(s) # Nil =>
              /\ ParseLabels(s) \in Labelings
              /\ \A k \in DOMAIN ParseLabels(s) :
                   \E i \in DOMAIN s : IsLabel(s[i]) /\ s[i].key = k /\ ParseLabels(s)[k] = ParseValues(s[i].values)[1]
<1> DEFINE equal == {i \in DOMAIN s : IsLabel(s[i])}
           last(k) == CHOOSE i \in equal : s[i].key = k /\ \A j \in equal : s[j].key = k => j <= i
           keys == {s[i].key : i \in equal}
           labels == [k \in keys |-> ParseValues(s[last(k)].values)[1]]
<1>0. Len(s) \in Nat /\ DOMAIN s = 1..Len(s)
  OBVIOUS
<1>1. ParseLabels(s) = IF equal = {} THEN Nil ELSE labels
  BY DEF ParseLabels
<1>2. ASSUME NEW k \in keys
      PROVE  last(k) \in equal /\ s[last(k)].key = k
  <2> DEFINE I == {i \in equal : s[i].key = k}
  <2>1. I \subseteq 1..Len(s) /\ I # {}
    BY <1>0
  <2>2. \E i \in I : \A j \in I : j <= i
    BY <1>0, <2>1, LastExists
  <2>3. \E i \in equal : s[i].key = k /\ \A j \in equal : s[j].key = k => j <= i
    BY <2>2
  <2> QED
    BY <2>3
<1> HIDE DEF last
<1>3. ASSUME NEW i \in equal
      PROVE  s[i].key \in Key /\ ParseValues(s[i].values)[1] \in Value
  <2>1. s[i] \in AnySegment
    BY <1>0
  <2>2. s[i].key \in Key /\ s[i].values \in Seq(Value)
    BY <2>1 DEF AnySegment
  <2>3. ParseValues(s[i].values) \in Seq(Value) /\ Len(ParseValues(s[i].values)) >= 1
    BY <2>2, ParsedValues
  <2> QED
    BY <2>2, <2>3
<1>4. labels \in Labelings
  <2>1. keys \subseteq Key
    BY <1>3
  <2>2. labels = [k \in keys |-> labels[k]]
    OBVIOUS
  <2>3. \A k \in keys : labels[k] \in Value
    BY <1>2, <1>3
  <2> HIDE DEF labels, keys
  <2> QED
    BY <2>1, <2>2, <2>3, LabelsMade
<1>5. DOMAIN labels = keys /\ \A k \in keys : labels[k] = ParseValues(s[last(k)].values)[1]
  OBVIOUS
<1>6. labels # Nil /\ labels \in AnyLabels /\ Nil \in AnyLabels
  BY <1>4, LabelsType DEF AnyLabels
<1> HIDE DEF labels
<1>7. CASE equal = {}
  BY <1>1, <1>6, <1>7 DEF Written, IsEmpty
<1>8. CASE equal # {}
  <2>1. ParseLabels(s) = labels
    BY <1>1, <1>8
  <2>2. keys # {} /\ \A i \in DOMAIN s : IsLabel(s[i]) => s[i].key \in keys
    BY <1>8
  <2>3. labels = Written(labels)
    BY <1>5, <1>6, <2>2 DEF Written, IsEmpty
  <2>4. ASSUME NEW k \in keys
        PROVE  \E i \in DOMAIN s : IsLabel(s[i]) /\ s[i].key = k /\ labels[k] = ParseValues(s[i].values)[1]
    BY <1>2, <1>5
  <2>5. ~(\A i \in DOMAIN s : ~IsLabel(s[i]))
    BY <1>8
  <2> QED
    BY <1>4, <1>5, <1>6, <2>1, <2>2, <2>3, <2>4, <2>5
<1> QED
  BY <1>7, <1>8
-----------------------------------------------------------------------------
(***************************************************************************)
(* A selector as a shorthand: the labels in some order, and then the       *)
(* expressions.                                                            *)
(***************************************************************************)
Keys(sel) == IF sel.labels = Nil THEN {} ELSE DOMAIN sel.labels
LabelSegment(sel, k) == Segment(k, "=", <<sel.labels[k]>>)

IsShorthand(s, sel, m) ==
  /\ Len(s) = m + Len(sel.exprs)
  /\ \A i \in 1..m : \E k \in Keys(sel) : s[i] = LabelSegment(sel, k)
  /\ \A k \in Keys(sel) : \E i \in 1..m : s[i] = LabelSegment(sel, k)
  /\ \A j \in 1..Len(sel.exprs) : s[m + j] = ConvertOperatorLabelSelector(sel.exprs[j])

\* What can be written: an operator is known, or makes a key of its values.
Writable(r) ==
  /\ r.op \in Operators \cup {NoOperator}
  /\ r.op = NoOperator => Joined(r.key, r.values) \in Key

\* The keys, labels and expressions of a selector.
LEMMA KeysOfSelector ==
  ASSUME NEW sel \in AnySelector
  PROVE  /\ Keys(sel) \subseteq Key /\ IsFiniteSet(Keys(sel)) /\ \A k \in Keys(sel) : sel.labels[k] \in Value
         /\ Keys(sel) = IF sel.labels = Nil THEN {} ELSE DOMAIN sel.labels
         /\ sel.exprs \in Seq(AnyRequirement) /\ sel.labels \in AnyLabels /\ sel = LabelSelector(sel.labels, sel.exprs)
<1>1. sel.labels \in AnyLabels /\ sel.exprs \in Seq(AnyRequirement) /\ sel = [labels |-> sel.labels, exprs |-> sel.exprs]
  BY DEF AnySelector
<1>2. CASE sel.labels = Nil
  BY <1>1, <1>2, FS_EmptySet DEF Keys, LabelSelector
<1>3. CASE sel.labels # Nil
  <2>1. sel.labels \in Labelings
    BY <1>1, <1>3 DEF AnyLabels
  <2> QED
    BY <1>1, <1>3, <2>1, LabelsType DEF Keys, LabelSelector
<1> QED
  BY <1>2, <1>3

\* An expression that can be written becomes a segment with its key, the
\* symbol of its operator and its values.
LEMMA SegmentOfRequirement ==
  ASSUME NEW r \in AnyRequirement, Writable(r)
  PROVE  /\ ConvertOperatorLabelSelector(r) \in AnySegment /\ ConvertOperatorLabelSelector(r).op \in Symbols
         /\ r.op \in Operators =>
              /\ ConvertOperatorLabelSelector(r).key = r.key
              /\ ConvertOperatorLabelSelector(r).op = Symbol(r.op)
              /\ ConvertOperatorLabelSelector(r).values = IF r.op \in {"In", "NotIn"} THEN r.values ELSE <<>>
<1> DEFINE c == ConvertOperatorLabelSelector(r)
<1>1. r.key \in Key /\ r.values \in Seq(Value) /\ <<>> \in Seq(Value)
  BY DEF AnyRequirement
<1>2. CASE r.op = NoOperator
  <2> DEFINE k == IF r.values = <<>> THEN r.key ELSE Joined(r.key, r.values)
  <2>0. k \in Key
    BY <1>1, <1>2, Zenon DEF Writable
  <2>1. c = Segment(k, NoOperator, <<>>)
    BY <1>2, Zenon DEF ConvertOperatorLabelSelector, NoOperator
  <2> HIDE DEF k
  <2>2. /\ c = [key |-> c.key, op |-> c.op, values |-> c.values]
        /\ c.key = k /\ c.op = NoOperator /\ c.values = <<>>
    BY <2>1 DEF Segment
  <2>3. c.key \in Key
    BY <2>0, <2>2
  <2>4. r.op \notin Operators
    BY <1>2 DEF NoOperator, Operators
  <2> HIDE DEF c
  <2>5. c.op \in {"=", "!=", "", "!", "malformed"} /\ c.op \in Symbols
    BY <2>2, Zenon DEF NoOperator, Symbols
  <2>6. c \in AnySegment
    BY <1>1, <2>2, <2>3, <2>5, Zenon DEF AnySegment
  <2> QED
    BY <2>4, <2>5, <2>6 DEF c
<1>3. CASE r.op \in {"Exists", "DoesNotExist"}
  <2>1. c = Segment(r.key, Symbol(r.op), <<>>)
    BY <1>3 DEF ConvertOperatorLabelSelector, NoOperator
  <2>2. /\ c = [key |-> c.key, op |-> c.op, values |-> c.values]
        /\ c.key = r.key /\ c.op = Symbol(r.op) /\ c.values = <<>>
    BY <2>1 DEF Segment
  <2>3. Symbol(r.op) \in {"", "!"} /\ r.op \notin {"In", "NotIn"}
    BY <1>3, OperatorSymbols
  <2> HIDE DEF c
  <2>4. c \in AnySegment /\ c.op \in Symbols
    BY <1>1, <2>2, <2>3 DEF AnySegment, Symbols
  <2> QED
    BY <2>2, <2>3, <2>4 DEF c
<1>4. CASE r.op \in {"In", "NotIn"}
  <2>1. c = Segment(r.key, Symbol(r.op), r.values)
    BY <1>4 DEF ConvertOperatorLabelSelector, NoOperator
  <2>2. /\ c = [key |-> c.key, op |-> c.op, values |-> c.values]
        /\ c.key = r.key /\ c.op = Symbol(r.op) /\ c.values = r.values
    BY <2>1 DEF Segment
  <2>3. Symbol(r.op) \in {"=", "!="}
    BY <1>4, OperatorSymbols
  <2> HIDE DEF c
  <2>4. c \in AnySegment /\ c.op \in Symbols
    BY <1>1, <2>2, <2>3 DEF AnySegment, Symbols
  <2> QED
    BY <1>4, <2>2, <2>4 DEF c
<1> QED
  BY <1>2, <1>3, <1>4 DEF Writable, Operators

\* A label becomes a segment that is parsed as that label.
LEMMA SegmentOfLabel ==
  ASSUME NEW k \in Key, NEW v \in Value
  PROVE  /\ Segment(k, "=", <<v>>) \in AnySegment /\ IsLabel(Segment(k, "=", <<v>>))
         /\ Segment(k, "=", <<v>>).key = k /\ Segment(k, "=", <<v>>).op = "="
         /\ ParseValues(Segment(k, "=", <<v>>).values)[1] = v
<1>1. <<v>> \in Seq(Value) /\ <<v>> # <<>> /\ Len(<<v>>) = 1 /\ <<v>>[1] = v
  OBVIOUS
<1>2. ParseValues(<<v>>) = <<v>>
  BY <1>1 DEF ParseValues
<1> QED
  BY <1>1, <1>2 DEF Segment, AnySegment, IsLabel

\* The shorthands of a selector.
LEMMA Unparsed ==
  ASSUME NEW sel \in AnySelector, \A i \in DOMAIN sel.exprs : Writable(sel.exprs[i])
  PROVE  /\ UnparseLabelSelector(sel) # {}
         /\ \A s \in UnparseLabelSelector(sel) :
              s \in Seq(AnySegment) /\ Parses(s) /\ \E m \in Nat : IsShorthand(s, sel, m)
<1> DEFINE A(keys) == [i \in DOMAIN keys |-> Segment(keys[i], "=", <<sel.labels[keys[i]]>>)]
           B == [i \in DOMAIN sel.exprs |-> ConvertOperatorLabelSelector(sel.exprs[i])]
<1>1. /\ Keys(sel) \subseteq Key /\ IsFiniteSet(Keys(sel)) /\ \A k \in Keys(sel) : sel.labels[k] \in Value
      /\ sel.exprs \in Seq(AnyRequirement)
  BY KeysOfSelector
<1>2. UnparseLabelSelector(sel) = {A(keys) \o B : keys \in SetToSeqs(Keys(sel))}
  <2>1. ~\E i \in DOMAIN sel.exprs : sel.exprs[i].op \notin Operators \cup {NoOperator}
    BY DEF Writable
  <2> QED
    BY <2>1 DEF UnparseLabelSelector, Keys
<1>3. SetToSeqs(Keys(sel)) # {}
  BY <1>1, Orderings
<1>4. /\ B \in Seq(AnySegment) /\ Len(B) = Len(sel.exprs)
      /\ \A j \in 1..Len(sel.exprs) : B[j] = ConvertOperatorLabelSelector(sel.exprs[j]) /\ B[j].op \in Symbols
  <2>1. Len(sel.exprs) \in Nat /\ DOMAIN sel.exprs = 1..Len(sel.exprs)
    BY <1>1
  <2>2. ASSUME NEW j \in 1..Len(sel.exprs)
        PROVE  B[j] = ConvertOperatorLabelSelector(sel.exprs[j]) /\ B[j].op \in Symbols /\ B[j] \in AnySegment
    <3>1. sel.exprs[j] \in AnyRequirement /\ Writable(sel.exprs[j])
      BY <1>1, <2>1
    <3>2. B[j] = ConvertOperatorLabelSelector(sel.exprs[j])
      BY <2>1
    <3> QED
      BY <3>1, <3>2, SegmentOfRequirement
  <2>3. B = [j \in 1..Len(sel.exprs) |-> B[j]]
    BY <2>1
  <2> HIDE DEF B
  <2>4. B \in [1..Len(sel.exprs) -> AnySegment]
    BY <2>2, <2>3
  <2> QED
    BY <2>1, <2>2, <2>4
<1> HIDE DEF B
<1>5. ASSUME NEW keys \in SetToSeqs(Keys(sel))
      PROVE  LET s == A(keys) \o B
             IN  s \in Seq(AnySegment) /\ Parses(s) /\ \E m \in Nat : IsShorthand(s, sel, m)
  <2> DEFINE m == Len(keys)
             T == A(keys)
             s == T \o B
  <2>1. /\ keys \in Seq(Keys(sel)) /\ DOMAIN keys = 1..m
        /\ \A x \in Keys(sel) : \E i \in DOMAIN keys : keys[i] = x
    BY <1>1, Orderings
  <2>2. m \in Nat /\ \A i \in 1..m : keys[i] \in Keys(sel)
    BY <2>1
  <2>3. ASSUME NEW i \in 1..m
        PROVE  T[i] = LabelSegment(sel, keys[i]) /\ T[i] \in AnySegment /\ T[i].op \in Symbols
    <3>1. T[i] = Segment(keys[i], "=", <<sel.labels[keys[i]]>>)
      BY <2>1
    <3>2. keys[i] \in Key /\ sel.labels[keys[i]] \in Value
      BY <1>1, <2>2
    <3> HIDE DEF T
    <3>3. T[i] = LabelSegment(sel, keys[i])
      BY <3>1 DEF LabelSegment
    <3>4. T[i] \in AnySegment /\ T[i].op = "="
      BY <3>1, <3>2, SegmentOfLabel
    <3> QED
      BY <3>3, <3>4 DEF Symbols
  <2>4. T = [i \in 1..m |-> T[i]]
    BY <2>1
  <2> HIDE DEF T, m
  <2>5. T \in Seq(AnySegment) /\ Len(T) = m
    <3>1. T \in [1..m -> AnySegment]
      BY <2>3, <2>4
    <3> QED
      BY <3>1, <2>2
  <2>6. /\ s \in Seq(AnySegment) /\ Len(s) = m + Len(sel.exprs)
        /\ \A i \in 1..m : s[i] = T[i]
        /\ \A j \in 1..Len(sel.exprs) : s[m + j] = B[j]
    <3>1. B \in Seq(AnySegment) /\ T \in Seq(AnySegment)
      BY <1>4, <2>5
    <3>2. Len(B) = Len(sel.exprs) /\ Len(T) = m /\ Len(B) \in Nat /\ Len(T) \in Nat
      BY <1>4, <2>2, <2>5
    <3>3. s \in Seq(AnySegment) /\ Len(s) = Len(T) + Len(B)
      BY <3>1
    <3>4. \A i \in 1..Len(T) : s[i] = T[i]
      BY <3>1
    <3>5. \A j \in 1..Len(B) : s[Len(T) + j] = B[j]
      BY <3>1
    <3> QED
      BY <3>2, <3>3, <3>4, <3>5
  <2>7. \A i \in DOMAIN s : i \in 1..m \/ \E j \in 1..Len(sel.exprs) : i = m + j
    <3>1. Len(sel.exprs) \in Nat
      BY <1>1
    <3>2. DOMAIN s = 1..m + Len(sel.exprs)
      BY <2>6
    <3>3. ASSUME NEW i \in 1..m + Len(sel.exprs), i \notin 1..m
          PROVE  i - m \in 1..Len(sel.exprs) /\ i = m + (i - m)
      BY <2>2, <3>1, <3>3
    <3> QED
      BY <3>2, <3>3
  <2> HIDE DEF s
  <2>8. \A i \in DOMAIN s : s[i].op \in Symbols
    BY <1>4, <2>3, <2>6, <2>7
  <2>9. Parses(s)
    BY <2>8 DEF Parses, Symbols
  <2>10. IsShorthand(s, sel, m)
    <3>1. \A i \in 1..m : \E k \in Keys(sel) : s[i] = LabelSegment(sel, k)
      BY <2>2, <2>3, <2>6
    <3>2. \A k \in Keys(sel) : \E i \in 1..m : s[i] = LabelSegment(sel, k)
      BY <2>1, <2>3, <2>6 DEF m
    <3>3. \A j \in 1..Len(sel.exprs) : s[m + j] = ConvertOperatorLabelSelector(sel.exprs[j])
      BY <1>4, <2>6
    <3> QED
      BY <2>6, <3>1, <3>2, <3>3 DEF IsShorthand
  <2> QED
    BY <2>2, <2>6, <2>9, <2>10 DEF s, T
<1> QED
  BY <1>2, <1>3, <1>5
-----------------------------------------------------------------------------
(***************************************************************************)
(* A normal selector is what its shorthand is parsed to.                   *)
(***************************************************************************)
\* A normal expression can be written.
LEMMA NormalIsWritable ==
  ASSUME NEW r, NormalRequirement(r)
  PROVE  Writable(r) /\ r.op \in Operators
<1>1. r.op \in Operators
  BY DEF NormalRequirement
<1>2. r.op # NoOperator
  BY <1>1 DEF Operators, NoOperator
<1> QED
  BY <1>1, <1>2, Zenon DEF Writable

\* A normal expression is what its segment is parsed to.
LEMMA RequirementAgain ==
  ASSUME NEW r \in AnyRequirement, NormalRequirement(r)
  PROVE  /\ ~IsLabel(ConvertOperatorLabelSelector(r))
         /\ ParseRequirement(ConvertOperatorLabelSelector(r)) = r
<1> DEFINE c == ConvertOperatorLabelSelector(r)
<1>1. /\ c.key = r.key /\ c.op = Symbol(r.op) /\ r.op \in Operators
      /\ c.values = IF r.op \in {"In", "NotIn"} THEN r.values ELSE <<>>
  BY NormalIsWritable, SegmentOfRequirement
<1>2. r.values \in Seq(Value) /\ r = [key |-> r.key, op |-> r.op, values |-> r.values]
  BY DEF AnyRequirement
<1> HIDE DEF c
<1>3. CASE r.op = "In"
  <2>0. Len(r.values) > 1
    BY <1>3 DEF NormalRequirement
  <2>1. c.op = "=" /\ c.values = r.values /\ Len(r.values) > 1 /\ r.values # <<>>
    <3>1. c.op = "=" /\ c.values = r.values
      BY <1>1, <1>3, OperatorSymbols
    <3> QED
      BY <1>2, <2>0, <3>1
  <2>2. ParseValues(c.values) = r.values
    BY <1>2, <2>1, ParsedValues
  <2>3. ~IsLabel(c)
    BY <1>2, <2>1, <2>2 DEF IsLabel
  <2>4. ParseRequirement(c) = [key |-> r.key, op |-> r.op, values |-> r.values]
    BY <1>1, <1>3, <2>1, <2>2, OperatorSymbols DEF ParseRequirement, Requirement
  <2> QED
    BY <1>2, <2>3, <2>4 DEF c
<1>4. CASE r.op = "NotIn"
  <2>1. c.op = "!=" /\ c.values = r.values /\ r.values # <<>>
    BY <1>1, <1>2, <1>4, OperatorSymbols DEF NormalRequirement
  <2>2. ParseValues(c.values) = r.values
    BY <1>2, <2>1, ParsedValues
  <2>3. ~IsLabel(c)
    BY <2>1 DEF IsLabel
  <2>4. ParseRequirement(c) = [key |-> r.key, op |-> r.op, values |-> r.values]
    BY <1>1, <1>4, <2>1, <2>2, OperatorSymbols DEF ParseRequirement, Requirement
  <2> QED
    BY <1>2, <2>3, <2>4 DEF c
<1>5. CASE r.op \in {"Exists", "DoesNotExist"}
  <2>1. c.op \notin {"=", "!="} /\ r.values = <<>> /\ Operator(c.op) = r.op
    BY <1>1, <1>5, OperatorSymbols DEF NormalRequirement
  <2>2. ~IsLabel(c)
    BY <2>1 DEF IsLabel
  <2>3. ParseRequirement(c) = [key |-> r.key, op |-> r.op, values |-> r.values]
    BY <1>1, <2>1 DEF ParseRequirement, Requirement
  <2> QED
    BY <1>2, <2>2, <2>3 DEF c
<1> QED
  BY <1>1, <1>3, <1>4, <1>5 DEF Operators
\* The expressions of a shorthand of a normal selector are those of the
\* selector, and its labels are those of the selector.
LEMMA NormalAgain ==
  ASSUME NEW sel \in AnySelector, NormalSelector(sel), NEW s \in Seq(AnySegment), NEW m \in Nat, IsShorthand(s, sel, m)
  PROVE  ParseLabelSelector(s) = sel
<1> DEFINE n == Len(sel.exprs)
           e == sel.exprs
<1>1. /\ Keys(sel) \subseteq Key /\ \A k \in Keys(sel) : sel.labels[k] \in Value
      /\ Keys(sel) = IF sel.labels = Nil THEN {} ELSE DOMAIN sel.labels
      /\ e \in Seq(AnyRequirement) /\ sel.labels \in AnyLabels /\ sel = LabelSelector(sel.labels, e)
  BY KeysOfSelector
<1>2. n \in Nat /\ DOMAIN e = 1..n /\ Len(s) = m + n /\ Len(s) \in Nat /\ DOMAIN s = 1..m + n
  BY <1>1 DEF IsShorthand
<1>3. ASSUME NEW i \in 1..m
      PROVE  /\ i \in DOMAIN s /\ IsLabel(s[i])
             /\ \E k \in Keys(sel) : s[i].key = k /\ ParseValues(s[i].values)[1] = sel.labels[k]
  <2>1. PICK k \in Keys(sel) : s[i] = Segment(k, "=", <<sel.labels[k]>>)
    BY DEF IsShorthand, LabelSegment
  <2>2. k \in Key /\ sel.labels[k] \in Value
    BY <1>1
  <2>3. IsLabel(s[i]) /\ s[i].key = k /\ ParseValues(s[i].values)[1] = sel.labels[k]
    BY <2>1, <2>2, SegmentOfLabel
  <2>4. i \in DOMAIN s
    BY <1>2
  <2> QED
    BY <2>3, <2>4
<1>4. ASSUME NEW j \in 1..n
      PROVE  ~IsLabel(s[m + j]) /\ ParseRequirement(s[m + j]) = e[j]
  <2>1. e[j] \in AnyRequirement /\ NormalRequirement(e[j])
    BY <1>1, <1>2 DEF NormalSelector
  <2>2. s[m + j] = ConvertOperatorLabelSelector(e[j])
    BY DEF IsShorthand
  <2> QED
    BY <2>1, <2>2, RequirementAgain
<1>5. ParseRequirements(s) = e
  <2>1. PICK f : /\ ParseRequirements(s) = f[Len(s)]
                 /\ f[0] = <<>>
                 /\ \A k \in 1..Len(s) :
                      f[k] = IF IsLabel(s[k]) THEN f[k - 1] ELSE Append(f[k - 1], ParseRequirement(s[k]))
    BY <1>2, Rounds
  <2> DEFINE S == {k \in Nat : k <= m => f[k] = <<>>}
             R == {j \in Nat : j <= n => f[m + j] \in Seq(AnyRequirement) /\ Len(f[m + j]) = j
                                         /\ \A i \in 1..j : f[m + j][i] = e[i]}
  <2>2. 0 \in S
    BY <2>1
  <2>3. ASSUME NEW k \in Nat, k \in S
        PROVE  k + 1 \in S
    <3> SUFFICES ASSUME k + 1 <= m PROVE f[k + 1] = <<>>
      OBVIOUS
    <3>1. k + 1 \in 1..m /\ k + 1 \in 1..Len(s) /\ (k + 1) - 1 = k /\ f[k] = <<>>
      BY <1>2, <2>3
    <3> QED
      BY <1>3, <2>1, <3>1
  <2>4. Nat \subseteq S
    <3> HIDE DEF S
    <3> QED
      BY <2>2, <2>3, InductionOnSet
  <2>5. f[m] = <<>>
    BY <2>4
  <2>6. 0 \in R
    <3>1. f[m + 0] = <<>> /\ <<>> \in Seq(AnyRequirement) /\ Len(<<>>) = 0
      BY <2>5
    <3>2. \A i \in 1..0 : FALSE
      OBVIOUS
    <3> HIDE DEF n, e
    <3> QED
      BY <3>1, <3>2, Zenon
  <2>7. ASSUME NEW j \in Nat, j \in R
        PROVE  j + 1 \in R
    <3> DEFINE p == f[m + j]
               q == f[m + (j + 1)]
    <3> SUFFICES ASSUME j + 1 <= n
                 PROVE  q \in Seq(AnyRequirement) /\ Len(q) = j + 1 /\ \A i \in 1..j+1 : q[i] = e[i]
      OBVIOUS
    <3>1. m + (j + 1) \in 1..Len(s) /\ (m + (j + 1)) - 1 = m + j /\ j + 1 \in 1..n
      BY <1>2
    <3>2. q = Append(p, e[j + 1])
      BY <1>4, <2>1, <3>1
    <3>3. p \in Seq(AnyRequirement) /\ Len(p) = j /\ \A i \in 1..j : p[i] = e[i]
      BY <1>2, <2>7
    <3>4. e[j + 1] \in AnyRequirement
      BY <1>1, <1>2, <3>1
    <3> HIDE DEF p, q
    <3> QED
      BY <3>2, <3>3, <3>4
  <2>8. Nat \subseteq R
    <3> HIDE DEF R
    <3> QED
      BY <2>6, <2>7, InductionOnSet
  <2>9. f[m + n] \in Seq(AnyRequirement) /\ Len(f[m + n]) = n /\ \A i \in 1..n : f[m + n][i] = e[i]
    BY <1>2, <2>8
  <2>10. f[m + n] = e
    BY <1>1, <2>9
  <2> QED
    BY <1>2, <2>1, <2>10
<1>6. ParseLabels(s) = sel.labels
  <2> DEFINE L == ParseLabels(s)
  <2>0. /\ L \in AnyLabels
        /\ (\A i \in DOMAIN s : ~IsLabel(s[i])) => L = Nil
        /\ \A i \in DOMAIN s : IsLabel(s[i]) => L # Nil /\ s[i].key \in DOMAIN L
        /\ L # Nil =>
             /\ L \in Labelings
             /\ \A k \in DOMAIN L :
                  \E i \in DOMAIN s : IsLabel(s[i]) /\ s[i].key = k /\ L[k] = ParseValues(s[i].values)[1]
    BY ParsedLabels
  <2> HIDE DEF L
  <2>1. ASSUME NEW i \in DOMAIN s, IsLabel(s[i])
        PROVE  i \in 1..m
    <3>1. i \in 1..m \/ (i - m \in 1..n /\ i = m + (i - m))
      BY <1>2
    <3> QED
      BY <1>4, <2>1, <3>1
  <2>2. CASE sel.labels = Nil
    <3>1. \A i \in DOMAIN s : ~IsLabel(s[i])
      BY <1>1, <1>3, <2>1, <2>2
    <3> QED
      BY <2>0, <2>2, <3>1 DEF L
  <2>3. CASE sel.labels # Nil
    <3>1. sel.labels \in Labelings /\ Keys(sel) = DOMAIN sel.labels /\ Keys(sel) # {}
      BY <1>1, <2>3 DEF AnyLabels, NormalSelector, Written, IsEmpty
    <3>2. ASSUME NEW k \in Keys(sel)
          PROVE  L # Nil /\ k \in DOMAIN L
      <4>1. PICK i \in 1..m : s[i] = Segment(k, "=", <<sel.labels[k]>>)
        BY DEF IsShorthand, LabelSegment
      <4>2. s[i].key = k
        BY <1>1, <4>1, SegmentOfLabel
      <4> QED
        BY <1>3, <2>0, <4>2
    <3>3. L # Nil /\ L \in Labelings
      BY <2>0, <3>1, <3>2
    <3>4. ASSUME NEW k \in DOMAIN L
          PROVE  k \in Keys(sel) /\ L[k] = sel.labels[k]
      <4>1. PICK i \in DOMAIN s : IsLabel(s[i]) /\ s[i].key = k /\ L[k] = ParseValues(s[i].values)[1]
        BY <2>0, <3>3
      <4>2. i \in 1..m
        BY <2>1, <4>1
      <4> QED
        BY <1>3, <4>1, <4>2
    <3>5. DOMAIN L = DOMAIN sel.labels
      BY <3>1, <3>2, <3>4
    <3>6. L = [k \in DOMAIN L |-> L[k]] /\ sel.labels = [k \in DOMAIN sel.labels |-> sel.labels[k]]
      BY <3>1, <3>3, LabelsType
    <3>7. L = sel.labels
      BY <3>4, <3>5, <3>6
    <3> QED
      BY <3>7 DEF L
  <2> QED
    BY <2>2, <2>3
<1> QED
  BY <1>1, <1>5, <1>6 DEF ParseLabelSelector
-----------------------------------------------------------------------------
(***************************************************************************)
(* What a shorthand means: what its segments mean, if they agree.          *)
(***************************************************************************)
SegmentHolds(c, labels) ==
  IF IsLabel(c) THEN c.key \in DOMAIN labels /\ labels[c.key] = ParseValues(c.values)[1]
  ELSE Holds(ParseRequirement(c), labels)

\* If some labels satisfy all segments, the parsed selector matches those
\* that do: no label is overwritten by another value of its key.
LEMMA ParsedMeaning ==
  ASSUME NEW s \in Seq(AnySegment), Parses(s), NEW labels0, \A i \in DOMAIN s : SegmentHolds(s[i], labels0), NEW labels
  PROVE  Matches(ParseLabelSelector(s), labels) <=> \A i \in DOMAIN s : SegmentHolds(s[i], labels)
<1> DEFINE L == ParseLabels(s)
           R == ParseRequirements(s)
           p == ParseLabelSelector(s)
<1>1. p.labels = L /\ p.exprs = R
  BY DEF ParseLabelSelector, LabelSelector
<1>2. /\ \A i \in DOMAIN s : IsLabel(s[i]) => L # Nil /\ s[i].key \in DOMAIN L
      /\ L # Nil =>
           \A k \in DOMAIN L :
             \E i \in DOMAIN s : IsLabel(s[i]) /\ s[i].key = k /\ L[k] = ParseValues(s[i].values)[1]
  BY ParsedLabels
<1>3. \A r : (\E i \in DOMAIN R : r = R[i]) <=> \E i \in DOMAIN s : ~IsLabel(s[i]) /\ r = ParseRequirement(s[i])
  BY ParsedRequirements, Zenon
<1> HIDE DEF L, R, p
<1>4. ASSUME NEW i \in DOMAIN s, IsLabel(s[i])
      PROVE  L # Nil /\ s[i].key \in DOMAIN L /\ L[s[i].key] = ParseValues(s[i].values)[1]
  <2>1. L # Nil /\ s[i].key \in DOMAIN L
    BY <1>2, <1>4
  <2>2. PICK j \in DOMAIN s : IsLabel(s[j]) /\ s[j].key = s[i].key /\ L[s[i].key] = ParseValues(s[j].values)[1]
    BY <1>2, <2>1
  <2>3. labels0[s[i].key] = ParseValues(s[i].values)[1] /\ labels0[s[j].key] = ParseValues(s[j].values)[1]
    BY <1>4, <2>2 DEF SegmentHolds
  <2> QED
    BY <2>1, <2>2, <2>3
<1>5. ASSUME Matches(p, labels), NEW i \in DOMAIN s
      PROVE  SegmentHolds(s[i], labels)
  <2>1. CASE IsLabel(s[i])
    <3>1. s[i].key \in DOMAIN labels /\ labels[s[i].key] = L[s[i].key]
      BY <1>1, <1>4, <1>5, <2>1 DEF Matches
    <3> QED
      BY <1>4, <2>1, <3>1 DEF SegmentHolds
  <2>2. CASE ~IsLabel(s[i])
    <3>1. PICK j \in DOMAIN R : ParseRequirement(s[i]) = R[j]
      BY <1>3, <2>2, Zenon
    <3>2. Holds(R[j], labels)
      BY <1>1, <1>5, Zenon DEF Matches
    <3> QED
      BY <2>2, <3>1, <3>2, Zenon DEF SegmentHolds
  <2> QED
    BY <2>1, <2>2
<1>6. ASSUME \A i \in DOMAIN s : SegmentHolds(s[i], labels)
      PROVE  Matches(p, labels)
  <2>1. ASSUME L # Nil, NEW k \in DOMAIN L
        PROVE  k \in DOMAIN labels /\ labels[k] = L[k]
    <3>1. PICK i \in DOMAIN s : IsLabel(s[i]) /\ s[i].key = k /\ L[k] = ParseValues(s[i].values)[1]
      BY <1>2, <2>1
    <3>2. SegmentHolds(s[i], labels)
      BY <1>6
    <3> QED
      BY <3>1, <3>2 DEF SegmentHolds
  <2>2. ASSUME NEW j \in DOMAIN R
        PROVE  Holds(R[j], labels)
    <3>1. PICK i \in DOMAIN s : ~IsLabel(s[i]) /\ R[j] = ParseRequirement(s[i])
      BY <1>3, <2>2, Zenon
    <3>2. SegmentHolds(s[i], labels)
      BY <1>6
    <3> QED
      BY <3>1, <3>2, Zenon DEF SegmentHolds
  <2> QED
    BY <1>1, <2>1, <2>2, Zenon DEF Matches
<1> QED
  BY <1>5, <1>6 DEF p

\* What the API server accepts of an expression.
ValidRequirement(r) == r.op \in Operators /\ (r.op \in {"In", "NotIn"} => r.values # <<>>)

\* An expression means what its segment does.
LEMMA RequirementMeaning ==
  ASSUME NEW r \in AnyRequirement, ValidRequirement(r), NEW labels
  PROVE  Writable(r) /\ (SegmentHolds(ConvertOperatorLabelSelector(r), labels) <=> Holds(r, labels))
<1> DEFINE c == ConvertOperatorLabelSelector(r)
<1>0. Writable(r) /\ r.op \in Operators
  <2>1. r.op \in Operators
    BY DEF ValidRequirement
  <2>2. r.op # NoOperator
    BY <2>1 DEF Operators, NoOperator
  <2> QED
    BY <2>1, <2>2, Zenon DEF Writable
<1>1. /\ c.key = r.key /\ c.op = Symbol(r.op)
      /\ c.values = IF r.op \in {"In", "NotIn"} THEN r.values ELSE <<>>
  BY <1>0, SegmentOfRequirement
<1>2. r.values \in Seq(Value)
  BY DEF AnyRequirement
<1> HIDE DEF c
<1>3. ASSUME r.op \in {"In", "NotIn"}
      PROVE  c.op = Symbol(r.op) /\ ParseValues(c.values) = r.values /\ r.values # <<>>
  <2>1. c.values = r.values /\ r.values # <<>>
    BY <1>1, <1>3 DEF ValidRequirement
  <2> QED
    BY <1>1, <1>2, <2>1, ParsedValues
<1>4. ASSUME ~IsLabel(c)
      PROVE  Holds(ParseRequirement(c), labels) <=> Holds(r, labels)
  <2> DEFINE q == ParseRequirement(c)
  <2>1. q.key = r.key /\ q.op = Operator(c.op) /\ q.values = IF c.op \in {"=", "!="} THEN ParseValues(c.values) ELSE <<>>
    BY <1>1 DEF ParseRequirement, Requirement
  <2> HIDE DEF q
  <2>2. CASE r.op = "In"
    <3>1. q.op = "In" /\ q.values = r.values
      BY <1>1, <1>3, <2>1, <2>2, OperatorSymbols
    <3> QED
      BY <2>1, <2>2, <3>1, Zenon DEF Holds, q
  <2>3. CASE r.op = "NotIn"
    <3>1. q.op = "NotIn" /\ q.values = r.values
      BY <1>1, <1>3, <2>1, <2>3, OperatorSymbols
    <3> QED
      BY <2>1, <2>3, <3>1, Zenon DEF Holds, q
  <2>4. CASE r.op = "Exists"
    <3>1. q.op = "Exists"
      BY <1>1, <2>1, <2>4, OperatorSymbols
    <3>2. Holds(q, labels) <=> r.key \in DOMAIN labels
      BY <2>1, <3>1 DEF Holds
    <3>3. Holds(r, labels) <=> r.key \in DOMAIN labels
      BY <2>4 DEF Holds
    <3> QED
      BY <3>2, <3>3 DEF q
  <2>5. CASE r.op = "DoesNotExist"
    <3>1. q.op = "DoesNotExist"
      BY <1>1, <2>1, <2>5, OperatorSymbols
    <3>2. Holds(q, labels) <=> r.key \notin DOMAIN labels
      BY <2>1, <3>1 DEF Holds
    <3>3. Holds(r, labels) <=> r.key \notin DOMAIN labels
      BY <2>5 DEF Holds
    <3> QED
      BY <3>2, <3>3 DEF q
  <2> QED
    BY <1>0, <2>2, <2>3, <2>4, <2>5 DEF Operators
<1>5. ASSUME IsLabel(c)
      PROVE  Holds(r, labels) <=> c.key \in DOMAIN labels /\ labels[c.key] = ParseValues(c.values)[1]
  <2>1. c.op = "=" /\ Len(ParseValues(c.values)) = 1
    BY <1>5 DEF IsLabel
  <2>2. r.op = "In"
    BY <1>0, <1>1, <2>1, OperatorSymbols DEF Operators
  <2>3. ParseValues(c.values) = r.values /\ Len(r.values) = 1 /\ DOMAIN r.values = {1}
    BY <1>2, <1>3, <2>1, <2>2
  <2>4. Holds(r, labels) <=> r.key \in DOMAIN labels /\ r.values[1] = labels[r.key]
    BY <2>2, <2>3 DEF Holds
  <2> QED
    BY <1>1, <2>3, <2>4
<1> QED
  BY <1>0, <1>4, <1>5 DEF SegmentHolds, c
ValidSelector(sel) == \A i \in DOMAIN sel.exprs : ValidRequirement(sel.exprs[i])

\* A selector matches the labels that satisfy all segments of its
\* shorthand.
LEMMA ShorthandMeaning ==
  ASSUME NEW sel \in AnySelector, ValidSelector(sel), NEW s \in Seq(AnySegment), NEW m \in Nat, IsShorthand(s, sel, m),
         NEW labels
  PROVE  Matches(sel, labels) <=> \A i \in DOMAIN s : SegmentHolds(s[i], labels)
<1> DEFINE n == Len(sel.exprs)
<1>1. /\ Keys(sel) \subseteq Key /\ \A k \in Keys(sel) : sel.labels[k] \in Value
      /\ Keys(sel) = IF sel.labels = Nil THEN {} ELSE DOMAIN sel.labels
      /\ sel.exprs \in Seq(AnyRequirement)
  BY KeysOfSelector
<1>2. n \in Nat /\ DOMAIN sel.exprs = 1..n /\ DOMAIN s = 1..m + n
  BY <1>1 DEF IsShorthand
<1>3. \A i \in 1..m + n : i \in 1..m \/ \E j \in 1..n : i = m + j
  <2>1. ASSUME NEW i \in 1..m + n, i \notin 1..m
        PROVE  i - m \in 1..n /\ i = m + (i - m)
    BY <1>2, <2>1
  <2> QED
    BY <2>1
<1>4. ASSUME NEW k \in Keys(sel)
      PROVE  SegmentHolds(LabelSegment(sel, k), labels) <=> k \in DOMAIN labels /\ labels[k] = sel.labels[k]
  BY <1>1, SegmentOfLabel DEF SegmentHolds, LabelSegment
<1>5. ASSUME NEW j \in 1..n
      PROVE  SegmentHolds(s[m + j], labels) <=> Holds(sel.exprs[j], labels)
  <2>1. sel.exprs[j] \in AnyRequirement /\ ValidRequirement(sel.exprs[j])
    BY <1>1, <1>2 DEF ValidSelector
  <2>2. s[m + j] = ConvertOperatorLabelSelector(sel.exprs[j])
    BY DEF IsShorthand
  <2> QED
    BY <2>1, <2>2, RequirementMeaning
<1>6. Matches(sel, labels) <=>
        /\ \A k \in Keys(sel) : k \in DOMAIN labels /\ labels[k] = sel.labels[k]
        /\ \A j \in 1..n : Holds(sel.exprs[j], labels)
  BY <1>1, <1>2, Zenon DEF Matches
<1>7. ASSUME Matches(sel, labels), NEW i \in DOMAIN s
      PROVE  SegmentHolds(s[i], labels)
  <2>1. CASE i \in 1..m
    <3>1. PICK k \in Keys(sel) : s[i] = LabelSegment(sel, k)
      BY <2>1 DEF IsShorthand
    <3> QED
      BY <1>4, <1>6, <1>7, <3>1, Zenon
  <2>2. CASE \E j \in 1..n : i = m + j
    BY <1>5, <1>6, <1>7, <2>2, Zenon
  <2> QED
    BY <1>2, <1>3, <2>1, <2>2
<1>8. ASSUME \A i \in DOMAIN s : SegmentHolds(s[i], labels)
      PROVE  Matches(sel, labels)
  <2>1. ASSUME NEW k \in Keys(sel)
        PROVE  k \in DOMAIN labels /\ labels[k] = sel.labels[k]
    <3>1. PICK i \in 1..m : s[i] = LabelSegment(sel, k)
      BY DEF IsShorthand
    <3>2. i \in DOMAIN s
      BY <1>2
    <3> QED
      BY <1>4, <1>8, <3>1, <3>2, Zenon
  <2>2. ASSUME NEW j \in 1..n
        PROVE  Holds(sel.exprs[j], labels)
    <3>1. m + j \in DOMAIN s
      BY <1>2
    <3> QED
      BY <1>5, <1>8, <3>1, Zenon
  <2> QED
    BY <1>6, <2>1, <2>2, Zenon
<1> QED
  BY <1>7, <1>8

\* Writing a selector as a shorthand and parsing it keeps what it selects,
\* if there is something it selects.
LEMMA SelectorMeaning ==
  ASSUME NEW sel \in AnySelector, ValidSelector(sel), NEW labels0, Matches(sel, labels0),
         NEW s \in UnparseLabelSelector(sel), NEW labels
  PROVE  /\ Matches(ParseLabelSelector(s), labels) <=> Matches(sel, labels)
         /\ s \in Seq(AnySegment) /\ Parses(s)
         /\ \A i \in DOMAIN s : SegmentHolds(s[i], labels0)
<1>1. sel.exprs \in Seq(AnyRequirement)
  BY KeysOfSelector
<1>2. \A i \in DOMAIN sel.exprs : Writable(sel.exprs[i])
  <2> TAKE i \in DOMAIN sel.exprs
  <2>1. sel.exprs[i] \in AnyRequirement /\ ValidRequirement(sel.exprs[i])
    BY <1>1 DEF ValidSelector
  <2> QED
    BY <2>1, RequirementMeaning
<1>3. s \in Seq(AnySegment) /\ Parses(s) /\ \E m \in Nat : IsShorthand(s, sel, m)
  BY <1>2, Unparsed
<1>4. PICK m \in Nat : IsShorthand(s, sel, m)
  BY <1>3
<1>5. \A i \in DOMAIN s : SegmentHolds(s[i], labels0)
  BY <1>3, <1>4, ShorthandMeaning
<1>6. Matches(sel, labels) <=> \A i \in DOMAIN s : SegmentHolds(s[i], labels)
  BY <1>3, <1>4, ShorthandMeaning
<1>7. Matches(ParseLabelSelector(s), labels) <=> \A i \in DOMAIN s : SegmentHolds(s[i], labels)
  BY <1>3, <1>5, ParsedMeaning
<1> QED
  BY <1>3, <1>5, <1>6, <1>7

\* A shorthand of expressions is not empty.
LEMMA ShorthandNotEmpty ==
  ASSUME NEW sel \in AnySelector, sel.exprs # <<>>, \A i \in DOMAIN sel.exprs : Writable(sel.exprs[i]),
         NEW s \in UnparseLabelSelector(sel)
  PROVE  s # <<>> /\ s \in Seq(AnySegment) /\ Parses(s)
<1>1. sel.exprs \in Seq(AnyRequirement)
  BY KeysOfSelector
<1>2. Len(sel.exprs) \in Nat /\ Len(sel.exprs) # 0
  BY <1>1
<1>3. s \in Seq(AnySegment) /\ Parses(s) /\ \E m \in Nat : IsShorthand(s, sel, m)
  BY Unparsed
<1>4. PICK m \in Nat : IsShorthand(s, sel, m)
  BY <1>3
<1>5. Len(s) = m + Len(sel.exprs)
  BY <1>4 DEF IsShorthand
<1>6. Len(s) # 0
  BY <1>2, <1>5
<1> QED
  BY <1>3, <1>6
-----------------------------------------------------------------------------
(***************************************************************************)
(* Documents                                                               *)
(***************************************************************************)
Kinds == {"controller", "job", "selecting", "rc"}
KubeRecord(kind, sel, template) == [syntax |-> "kube", kind |-> kind, selector |-> sel, template |-> template]
KokiRecord(kind, rs, meta, spec) == [syntax |-> "koki", kind |-> kind, selector |-> rs, meta |-> meta, spec |-> spec]

\* What the kinds may have.
KubeParts(kind, sel, template) ==
  /\ kind \in Kinds
  /\ sel \in AnySelector \cup {Nil}
  /\ kind \in {"controller", "job"} => template \in AnyTemplate
  /\ kind = "selecting" => template = Nil
  /\ kind = "rc" => template \in AnyTemplate \cup {Nil} /\ (sel # Nil => sel.exprs = <<>>)

\* The fields of a document in Kubernetes syntax.
LEMMA KubeFields ==
  ASSUME NEW d \in AnyKube
  PROVE  /\ d = KubeRecord(d.kind, d.selector, d.template) /\ d.syntax = "kube"
         /\ KubeParts(d.kind, d.selector, d.template)
<1> DEFINE K1 == [syntax : {"kube"}, kind : {"controller", "job"}, selector : AnySelector \cup {Nil}, template : AnyTemplate]
           K2 == [syntax : {"kube"}, kind : {"selecting"}, selector : AnySelector \cup {Nil}, template : {Nil}]
           K3 == [syntax : {"kube"}, kind : {"rc"}, selector : [labels : AnyLabels, exprs : {<<>>}] \cup {Nil},
                  template : AnyTemplate \cup {Nil}]
<1>1. d \in K1 \/ d \in K2 \/ d \in K3
  BY DEF AnyKube
<1>2. CASE d \in K1
  BY <1>2 DEF KubeRecord, KubeParts, Kinds
<1>3. CASE d \in K2
  BY <1>3 DEF KubeRecord, KubeParts, Kinds
<1>4. CASE d \in K3
  <2>1. d = KubeRecord(d.kind, d.selector, d.template) /\ d.syntax = "kube" /\ d.kind = "rc"
    BY <1>4 DEF KubeRecord
  <2>2. d.template \in AnyTemplate \cup {Nil} /\ d.selector \in [labels : AnyLabels, exprs : {<<>>}] \cup {Nil}
    BY <1>4
  <2>3. ASSUME d.selector # Nil
        PROVE  d.selector \in AnySelector /\ d.selector.exprs = <<>>
    <3>1. d.selector \in [labels : AnyLabels, exprs : {<<>>}] /\ <<>> \in Seq(AnyRequirement)
      BY <2>2, <2>3
    <3> QED
      BY <3>1 DEF AnySelector
  <2> QED
    BY <2>1, <2>2, <2>3 DEF KubeParts, Kinds
<1> QED
  BY <1>1, <1>2, <1>3, <1>4

\* Such fields make a document in Kubernetes syntax.
LEMMA KubeMade ==
  ASSUME NEW kind, NEW sel, NEW template, KubeParts(kind, sel, template)
  PROVE  KubeRecord(kind, sel, template) \in AnyKube
<1> DEFINE d == KubeRecord(kind, sel, template)
           K1 == [syntax : {"kube"}, kind : {"controller", "job"}, selector : AnySelector \cup {Nil}, template : AnyTemplate]
           K2 == [syntax : {"kube"}, kind : {"selecting"}, selector : AnySelector \cup {Nil}, template : {Nil}]
           K3 == [syntax : {"kube"}, kind : {"rc"}, selector : [labels : AnyLabels, exprs : {<<>>}] \cup {Nil},
                  template : AnyTemplate \cup {Nil}]
<1>1. AnyKube = K1 \cup K2 \cup K3
  BY DEF AnyKube
<1>2. CASE kind \in {"controller", "job"}
  <2>1. d \in K1
    BY <1>2 DEF KubeRecord, KubeParts
  <2> QED
    BY <1>1, <2>1
<1>3. CASE kind = "selecting"
  <2>1. d \in K2
    BY <1>3 DEF KubeRecord, KubeParts
  <2> QED
    BY <1>1, <2>1
<1>4. CASE kind = "rc"
  <2>1. sel \in [labels : AnyLabels, exprs : {<<>>}] \cup {Nil}
    BY <1>4 DEF KubeParts, AnySelector
  <2>2. d \in K3
    BY <1>4, <2>1 DEF KubeRecord, KubeParts
  <2> QED
    BY <1>1, <2>2
<1> QED
  BY <1>2, <1>3, <1>4 DEF KubeParts, Kinds

\* The fields of a document in Short syntax.
LEMMA KokiFields ==
  ASSUME NEW d \in AnyKoki
  PROVE  /\ d = KokiRecord(d.kind, d.selector, d.meta, d.spec) /\ d.syntax = "koki"
         /\ d.kind \in Kinds /\ d.selector \in AnyRSSelector \cup {Nil} /\ d.meta \in AnyMeta \cup {Nil}
         /\ d.spec \in BOOLEAN
BY DEF AnyKoki, KokiRecord, Kinds

\* Such fields make a document in Short syntax.
LEMMA KokiMade ==
  ASSUME NEW kind \in Kinds, NEW rs \in AnyRSSelector \cup {Nil}, NEW meta \in AnyMeta \cup {Nil}, NEW spec \in BOOLEAN
  PROVE  KokiRecord(kind, rs, meta, spec) \in AnyKoki
BY DEF AnyKoki, KokiRecord, Kinds

\* The records in documents.
LEMMA Parts ==
  /\ \A t \in AnyTemplate : t # Nil /\ t.labels \in AnyLabels /\ t.annotated \in BOOLEAN /\ t.spec \in BOOLEAN
                            /\ t = [labels |-> t.labels, annotated |-> t.annotated, spec |-> t.spec]
  /\ \A t \in AnyMeta : t # Nil /\ t.labels \in AnyLabels /\ t.annotated \in BOOLEAN /\ t = Meta(t.labels, t.annotated)
  /\ \A t \in AnyRSSelector : t # Nil /\ t.labels \in AnyLabels /\ t.shorthand \in Seq(AnySegment)
                              /\ t = RSSelector(t.shorthand, t.labels)
  /\ \A t \in AnySelector : t # Nil /\ t.labels \in AnyLabels /\ t.exprs \in Seq(AnyRequirement)
                            /\ t = LabelSelector(t.labels, t.exprs)
<1>1. \A t \in AnyTemplate : t # Nil /\ t.labels \in AnyLabels /\ t.annotated \in BOOLEAN /\ t.spec \in BOOLEAN
                             /\ t = [labels |-> t.labels, annotated |-> t.annotated, spec |-> t.spec]
  BY NilAssumption DEF AnyTemplate
<1>2. \A t \in AnyMeta : t # Nil /\ t.labels \in AnyLabels /\ t.annotated \in BOOLEAN /\ t = Meta(t.labels, t.annotated)
  BY NilAssumption DEF AnyMeta, Meta
<1>3. \A t \in AnyRSSelector : t # Nil /\ t.labels \in AnyLabels /\ t.shorthand \in Seq(AnySegment)
                               /\ t = RSSelector(t.shorthand, t.labels)
  BY NilAssumption DEF AnyRSSelector, RSSelector
<1>4. \A t \in AnySelector : t # Nil /\ t.labels \in AnyLabels /\ t.exprs \in Seq(AnyRequirement)
                             /\ t = LabelSelector(t.labels, t.exprs)
  BY NilAssumption DEF AnySelector, LabelSelector
<1> QED
  BY <1>1, <1>2, <1>3, <1>4

\* Labels make templates, metadata and selectors.
LEMMA PartsMade ==
  ASSUME NEW labels \in AnyLabels
  PROVE  /\ \A a, b \in BOOLEAN : [labels |-> labels, annotated |-> a, spec |-> b] \in AnyTemplate
         /\ \A a \in BOOLEAN : Meta(labels, a) \in AnyMeta
         /\ \A s \in Seq(AnySegment) : RSSelector(s, labels) \in AnyRSSelector
         /\ \A e \in Seq(AnyRequirement) : LabelSelector(labels, e) \in AnySelector
         /\ LabelSelector(labels, <<>>) \in AnySelector /\ RSSelector(<<>>, labels) \in AnyRSSelector /\ Nil \in AnyLabels
<1>1. \A a, b \in BOOLEAN : [labels |-> labels, annotated |-> a, spec |-> b] \in AnyTemplate
  BY DEF AnyTemplate
<1>2. \A a \in BOOLEAN : Meta(labels, a) \in AnyMeta
  BY DEF AnyMeta, Meta
<1>3. \A s \in Seq(AnySegment) : RSSelector(s, labels) \in AnyRSSelector
  BY DEF AnyRSSelector, RSSelector
<1>4. \A e \in Seq(AnyRequirement) : LabelSelector(labels, e) \in AnySelector
  BY DEF AnySelector, LabelSelector
<1>5. <<>> \in Seq(AnySegment) /\ <<>> \in Seq(AnyRequirement)
  OBVIOUS
<1>6. Nil \in AnyLabels
  BY DEF AnyLabels
<1> QED
  BY <1>1, <1>2, <1>3, <1>4, <1>5, <1>6
-----------------------------------------------------------------------------
(***************************************************************************)
(* Selectors of either syntax, made of each other                          *)
(***************************************************************************)
\* Where no operator is between a key and values, both are a key.
Joins(sel) ==
  sel # Nil =>
    \A i \in DOMAIN sel.exprs :
      sel.exprs[i].op = NoOperator => Joined(sel.exprs[i].key, sel.exprs[i].values) \in Key

\* A selector that has a shorthand has only expressions that can be written.
LEMMA ShorthandIsWritable ==
  ASSUME NEW sel \in AnySelector, Joins(sel), NEW s \in UnparseLabelSelector(sel)
  PROVE  \A i \in DOMAIN sel.exprs : Writable(sel.exprs[i])
<1>1. sel # Nil
  BY Parts
<1>2. ~(\E i \in DOMAIN sel.exprs : sel.exprs[i].op \notin Operators \cup {NoOperator})
  BY DEF UnparseLabelSelector
<1> QED
  BY <1>1, <1>2, Zenon DEF Joins, Writable

\* convertRSLabelSelector returns a selector of Short that can be parsed.
LEMMA ConvertedSelector ==
  ASSUME NEW sel \in AnySelector \cup {Nil}, Joins(sel), NEW labels \in AnyLabels,
         NEW c \in convertRSLabelSelector(sel, labels)
  PROVE  c.selector \in AnyRSSelector /\ c.override \in AnyLabels /\ Parses(c.selector.shorthand)
<1>0. RSSelector(<<>>, labels).shorthand = <<>> /\ Parses(<<>>)
  BY DEF RSSelector, Parses
<1>1. CASE sel = Nil
  <2>1. c = [selector |-> RSSelector(<<>>, labels), override |-> Nil]
    BY <1>1 DEF convertRSLabelSelector
  <2> QED
    BY <1>0, <2>1, PartsMade
<1>2. CASE sel # Nil /\ sel.exprs = <<>>
  <2>1. c = [selector |-> RSSelector(<<>>, sel.labels), override |-> IF sel.labels = labels THEN Nil ELSE labels]
    BY <1>2 DEF convertRSLabelSelector
  <2>2. sel.labels \in AnyLabels
    BY <1>2, Parts
  <2>3. c.selector = RSSelector(<<>>, sel.labels) /\ c.override \in AnyLabels
    BY <2>1, PartsMade
  <2>4. c.selector.shorthand = <<>>
    BY <2>3 DEF RSSelector
  <2> QED
    BY <1>0, <2>2, <2>3, <2>4, PartsMade
<1>3. CASE sel # Nil /\ sel.exprs # <<>>
  <2>1. PICK s \in UnparseLabelSelector(sel) : c = [selector |-> RSSelector(s, Nil), override |-> labels]
    BY <1>3 DEF convertRSLabelSelector
  <2>2. sel \in AnySelector /\ \A i \in DOMAIN sel.exprs : Writable(sel.exprs[i])
    BY <1>3, ShorthandIsWritable
  <2>3. s \in Seq(AnySegment) /\ Parses(s)
    BY <1>3, <2>2, ShorthandNotEmpty
  <2>4. c.selector = RSSelector(s, Nil) /\ c.override = labels
    BY <2>1
  <2>5. c.selector.shorthand = s
    BY <2>4 DEF RSSelector
  <2>6. Nil \in AnyLabels
    BY PartsMade
  <2> QED
    BY <2>3, <2>4, <2>5, <2>6, PartsMade
<1> QED
  BY <1>1, <1>2, <1>3

\* A selector of Short is set, or it has nothing in it.
LEMMA SelectorSet ==
  ASSUME NEW rs \in AnyRSSelector
  PROVE  /\ SetSelector(rs) \in AnyRSSelector \cup {Nil}
         /\ rs.labels # Nil \/ rs.shorthand # <<>> => SetSelector(rs) = rs
         /\ SetSelector(rs) # Nil => SetSelector(rs) = rs
BY DEF SetSelector

\* Labels and normal expressions make a selector, which is normal once it is
\* written.
LEMMA SelectorMade ==
  ASSUME NEW l \in AnyLabels, NEW e \in Seq(AnyRequirement), \A i \in DOMAIN e : NormalRequirement(e[i])
  PROVE  /\ LabelSelector(l, e) \in AnySelector /\ LabelSelector(l, e) # Nil
         /\ LabelSelector(l, e).exprs = e /\ LabelSelector(l, e).labels = l
         /\ WrittenSelector(LabelSelector(l, e)) \in AnySelector
         /\ NormalSelector(WrittenSelector(LabelSelector(l, e)))
<1> DEFINE p == LabelSelector(l, e)
           w == LabelSelector(Written(l), e)
<1>1. Written(l) \in AnyLabels /\ Written(Written(l)) = Written(l)
  BY WrittenLabels
<1>2. p \in AnySelector /\ p # Nil /\ w \in AnySelector
  BY <1>1, PartsMade, Parts
<1>3. p.labels = l /\ p.exprs = e /\ w.labels = Written(l) /\ w.exprs = e
  BY DEF LabelSelector
<1> HIDE DEF p, w
<1>4. WrittenSelector(p) = w
  BY <1>2, <1>3 DEF WrittenSelector, w
<1>5. NormalSelector(w)
  BY <1>1, <1>3 DEF NormalSelector
<1> QED
  BY <1>2, <1>3, <1>4, <1>5 DEF p

\* What can be parsed is a selector with normal expressions.
LEMMA ParsedSelector ==
  ASSUME NEW s \in Seq(AnySegment), Parses(s)
  PROVE  /\ ParseLabelSelector(s) \in AnySelector /\ ParseLabelSelector(s) # Nil
         /\ WrittenSelector(ParseLabelSelector(s)) \in AnySelector
         /\ NormalSelector(WrittenSelector(ParseLabelSelector(s)))
<1>1. ParseLabelSelector(s) = LabelSelector(ParseLabels(s), ParseRequirements(s))
  BY DEF ParseLabelSelector
<1>2. ParseLabels(s) \in AnyLabels
  BY ParsedLabels
<1>3. ParseRequirements(s) \in Seq(AnyRequirement)
  BY ParsedRequirements
<1>4. ASSUME NEW i \in DOMAIN ParseRequirements(s)
      PROVE  NormalRequirement(ParseRequirements(s)[i])
  <2>0. \A q : (\E k \in DOMAIN ParseRequirements(s) : q = ParseRequirements(s)[k])
                 <=> \E k \in DOMAIN s : ~IsLabel(s[k]) /\ q = ParseRequirement(s[k])
    BY ParsedRequirements
  <2>1. PICK j \in DOMAIN s : ~IsLabel(s[j]) /\ ParseRequirements(s)[i] = ParseRequirement(s[j])
    BY <2>0, Zenon
  <2>2. s[j] \in AnySegment
    OBVIOUS
  <2>3. s[j].op \in Symbols
    BY Zenon DEF Parses, Symbols
  <2>4. NormalRequirement(ParseRequirement(s[j]))
    BY <2>1, <2>2, <2>3, ParsedRequirement
  <2> QED
    BY <2>1, <2>4, Zenon
<1> QED
  BY <1>1, <1>2, <1>3, <1>4, SelectorMade

\* A selector that was read from Short.
LEMMA RevertedSelector ==
  ASSUME NEW rs \in AnyRSSelector \cup {Nil}, NEW labels \in AnyLabels, NEW r \in revertRSSelector(rs, labels)
  PROVE  /\ r.override \in AnyLabels
         /\ r.selector = Nil => r.override = Nil
         /\ r.selector # Nil =>
              /\ r.selector \in AnySelector /\ WrittenSelector(r.selector) \in AnySelector
              /\ NormalSelector(WrittenSelector(r.selector))
              /\ r.selector.exprs = <<>> /\ Written(r.selector.labels) # Nil => Written(r.override) # Nil
<1>1. CASE rs = Nil
  <2>1. r = [selector |-> Nil, override |-> Nil]
    BY <1>1 DEF revertRSSelector
  <2> QED
    BY <2>1, PartsMade
<1>2. rs # Nil => rs.labels \in AnyLabels /\ rs.shorthand \in Seq(AnySegment)
  BY Parts
<1>4. CASE rs # Nil /\ rs.shorthand = <<>>
  <2>1. r = [selector |-> LabelSelector(rs.labels, <<>>), override |-> IF IsEmpty(labels) THEN rs.labels ELSE labels]
    BY <1>4 DEF revertRSSelector
  <2>2. <<>> \in Seq(AnyRequirement) /\ \A i \in DOMAIN <<>> : NormalRequirement(<<>>[i])
    OBVIOUS
  <2>3. r.selector = LabelSelector(rs.labels, <<>>) /\ r.override = IF IsEmpty(labels) THEN rs.labels ELSE labels
    BY <2>1
  <2>4. Written(rs.labels) # Nil => Written(r.override) # Nil
    BY <1>2, <1>4, <2>3, WrittenLabels
  <2>5. r.override \in AnyLabels
    BY <1>2, <1>4, <2>3
  <2>6. /\ r.selector \in AnySelector /\ r.selector # Nil /\ r.selector.labels = rs.labels
        /\ WrittenSelector(r.selector) \in AnySelector /\ NormalSelector(WrittenSelector(r.selector))
    <3> DEFINE e == <<>>
    <3>1. /\ e \in Seq(AnyRequirement) /\ \A i \in DOMAIN e : NormalRequirement(e[i])
          /\ r.selector = LabelSelector(rs.labels, e)
      BY <2>2, <2>3
    <3> HIDE DEF e
    <3> QED
      BY <1>2, <1>4, <3>1, SelectorMade
  <2> QED
    BY <2>4, <2>5, <2>6
<1>5. CASE rs # Nil /\ rs.shorthand # <<>>
  <2> DEFINE p == ParseLabelSelector(rs.shorthand)
  <2>1. Parses(rs.shorthand)
    BY <1>5 DEF revertRSSelector
  <2>2. r.selector = p /\ r.override = IF IsEmpty(labels) /\ p.exprs = <<>> THEN p.labels ELSE labels
    BY <1>5, <2>1 DEF revertRSSelector
  <2>3. p \in AnySelector /\ p # Nil /\ WrittenSelector(p) \in AnySelector /\ NormalSelector(WrittenSelector(p))
    BY <1>2, <1>5, <2>1, ParsedSelector
  <2> HIDE DEF p
  <2>4. p.labels \in AnyLabels
    BY <2>3, Parts
  <2>5. r.override \in AnyLabels
    BY <2>2, <2>4
  <2>6. p.exprs = <<>> /\ Written(p.labels) # Nil => Written(r.override) # Nil
    BY <2>2, <2>4, WrittenLabels
  <2> QED
    BY <2>2, <2>3, <2>5, <2>6
<1> QED
  BY <1>1, <1>4, <1>5
-----------------------------------------------------------------------------
(***************************************************************************)
(* Templates                                                               *)
(***************************************************************************)
MetaLabels(meta) == IF meta = Nil THEN Nil ELSE meta.labels
Annotated(meta) == meta # Nil /\ meta.annotated
Template(labels, annotated, spec) == [labels |-> labels, annotated |-> annotated, spec |-> spec]

\* applyTemplateLabelsOverride returns metadata with those labels, or none.
LEMMA AppliedOverride ==
  ASSUME NEW override \in AnyLabels, NEW meta \in AnyMeta \cup {Nil}
  PROVE  /\ applyTemplateLabelsOverride(override, meta) \in AnyMeta \cup {Nil}
         /\ MetaLabels(applyTemplateLabelsOverride(override, meta)) = Written(override)
         /\ Annotated(applyTemplateLabelsOverride(override, meta)) = Annotated(meta)
<1> DEFINE a == Annotated(meta)
           M == applyTemplateLabelsOverride(override, meta)
<1>1. a \in BOOLEAN
  BY DEF Annotated
<1>2. M = IF IsEmpty(override) /\ ~a THEN Nil ELSE Meta(Written(override), a)
  BY DEF applyTemplateLabelsOverride, Annotated
<1>3. Written(override) \in AnyLabels /\ (IsEmpty(override) => Written(override) = Nil)
  BY WrittenLabels
<1>4. Meta(Written(override), a) \in AnyMeta /\ Meta(Written(override), a) # Nil
  BY <1>1, <1>3, PartsMade, Parts
<1>5. Meta(Written(override), a).labels = Written(override) /\ Meta(Written(override), a).annotated = a
  BY DEF Meta
<1> HIDE DEF a, M
<1>6. CASE IsEmpty(override) /\ ~a
  <2>1. M = Nil /\ Written(override) = Nil /\ a = FALSE
    BY <1>1, <1>2, <1>3, <1>6
  <2>2. MetaLabels(M) = Nil /\ Annotated(M) = FALSE
    BY <2>1 DEF MetaLabels, Annotated
  <2> QED
    BY <2>1, <2>2 DEF a, M
<1>7. CASE ~(IsEmpty(override) /\ ~a)
  <2>1. M = Meta(Written(override), a)
    BY <1>2, <1>7
  <2>2. MetaLabels(M) = Written(override) /\ Annotated(M) = a
    BY <1>1, <1>4, <1>5, <2>1 DEF MetaLabels, Annotated
  <2> QED
    BY <1>4, <2>1, <2>2 DEF a, M
<1> QED
  BY <1>6, <1>7

\* revertTemplate keeps labels, annotations and pod, if there is one of them.
LEMMA RevertedTemplate ==
  ASSUME NEW meta \in AnyMeta \cup {Nil}, NEW spec \in BOOLEAN
  PROVE  /\ revertTemplate(meta, spec) = Nil <=> meta = Nil /\ ~spec
         /\ revertTemplate(meta, spec) # Nil =>
              revertTemplate(meta, spec) = Template(Written(MetaLabels(meta)), Annotated(meta), spec)
         /\ revertTemplate(meta, spec) \in AnyTemplate \cup {Nil}
<1> DEFINE T == Template(Written(MetaLabels(meta)), Annotated(meta), spec)
<1>1. MetaLabels(meta) \in AnyLabels /\ Annotated(meta) \in BOOLEAN
  BY Parts, PartsMade DEF MetaLabels, Annotated, AnyLabels
<1>2. T \in AnyTemplate /\ T # Nil
  BY <1>1, WrittenLabels, PartsMade, Parts DEF Template
<1>3. Written(Nil) = Nil
  BY DEF Written, IsEmpty
<1>4. (IF meta = Nil THEN Nil ELSE Written(meta.labels)) = Written(MetaLabels(meta))
  BY <1>3 DEF MetaLabels
<1>5. revertTemplate(meta, spec) = IF meta = Nil /\ ~spec THEN Nil ELSE T
  BY <1>4 DEF revertTemplate, Annotated, Template
<1> HIDE DEF T
<1>6. /\ revertTemplate(meta, spec) = Nil <=> meta = Nil /\ ~spec
      /\ revertTemplate(meta, spec) # Nil => revertTemplate(meta, spec) = T
      /\ revertTemplate(meta, spec) \in AnyTemplate \cup {Nil}
  BY <1>2, <1>5
<1> QED
  BY <1>6 DEF T

\* A document of Short that is converted to a controller.
LEMMA RevertedController ==
  ASSUME NEW k \in AnyKoki, k.kind \in {"controller", "job"}
  PROVE  /\ \A e \in RevertController(k) :
              \E r \in revertRSSelector(k.selector, MetaLabels(k.meta)) :
                e = KubeRecord(k.kind, WrittenSelector(r.selector), Template(Written(r.override), Annotated(k.meta), k.spec))
         /\ revertRSSelector(k.selector, MetaLabels(k.meta)) # {} /\ k.spec => RevertController(k) # {}
<1> DEFINE R == revertRSSelector(k.selector, MetaLabels(k.meta))
           t(r) == revertTemplate(applyTemplateLabelsOverride(r.override, k.meta), k.spec)
<1>1. k.selector \in AnyRSSelector \cup {Nil} /\ k.meta \in AnyMeta \cup {Nil} /\ k.spec \in BOOLEAN
  BY KokiFields
<1>2. MetaLabels(k.meta) \in AnyLabels
  BY <1>1, Parts, PartsMade DEF MetaLabels, AnyLabels
<1>3. RevertController(k) = {KubeDoc(k.kind, r.selector, t(r)) : r \in {s \in R : t(s) # Nil}}
  BY DEF RevertController, MetaLabels
<1>4. ASSUME NEW r \in R
      PROVE  /\ t(r) # Nil => t(r) = Template(Written(r.override), Annotated(k.meta), k.spec)
             /\ k.spec => t(r) # Nil
  <2> DEFINE M == applyTemplateLabelsOverride(r.override, k.meta)
  <2>1. r.override \in AnyLabels
    BY <1>1, <1>2, RevertedSelector
  <2>2. M \in AnyMeta \cup {Nil} /\ MetaLabels(M) = Written(r.override) /\ Annotated(M) = Annotated(k.meta)
    BY <1>1, <2>1, AppliedOverride
  <2>3. Written(Written(r.override)) = Written(r.override)
    BY <2>1, WrittenLabels
  <2> HIDE DEF M
  <2>4. /\ revertTemplate(M, k.spec) = Nil <=> M = Nil /\ ~k.spec
        /\ revertTemplate(M, k.spec) # Nil =>
             revertTemplate(M, k.spec) = Template(Written(MetaLabels(M)), Annotated(M), k.spec)
    BY <1>1, <2>2, RevertedTemplate
  <2> QED
    BY <1>1, <2>2, <2>3, <2>4 DEF M
<1> HIDE DEF R
<1>5. ASSUME NEW e \in RevertController(k)
      PROVE  \E r \in R :
               e = KubeRecord(k.kind, WrittenSelector(r.selector), Template(Written(r.override), Annotated(k.meta), k.spec))
  <2>1. PICK r \in R : t(r) # Nil /\ e = KubeDoc(k.kind, r.selector, t(r))
    BY <1>3
  <2>2. t(r) = Template(Written(r.override), Annotated(k.meta), k.spec)
    BY <1>4, <2>1
  <2> QED
    BY <2>1, <2>2 DEF KubeDoc, KubeRecord
<1>6. R # {} /\ k.spec => RevertController(k) # {}
  BY <1>3, <1>4
<1> QED
  BY <1>5, <1>6 DEF R
-----------------------------------------------------------------------------
(***************************************************************************)
(* To Kubernetes syntax: what is written is normal.                        *)
(***************************************************************************)
\* A document of Short is converted to a normal one of the same kind.
LEMMA Reverts ==
  ASSUME NEW k \in AnyKoki, NEW e \in Revert(k)
  PROVE  /\ e \in AnyKube /\ e.syntax = "kube" /\ e.kind = k.kind /\ Normal(e)
         /\ k.kind = "rc" /\ k.selector = Nil => e.selector = Nil
<1>1. /\ k.kind \in Kinds /\ k.selector \in AnyRSSelector \cup {Nil} /\ k.meta \in AnyMeta \cup {Nil}
      /\ k.spec \in BOOLEAN
  BY KokiFields
<1>2. MetaLabels(k.meta) \in AnyLabels /\ Annotated(k.meta) \in BOOLEAN /\ Nil \in AnyLabels
  BY <1>1, Parts DEF MetaLabels, Annotated, AnyLabels
<1>3. CASE k.kind \in {"controller", "job"}
  <2>1. e \in RevertController(k)
    BY <1>3 DEF Revert
  <2>2. PICK r \in revertRSSelector(k.selector, MetaLabels(k.meta)) :
          e = KubeRecord(k.kind, WrittenSelector(r.selector), Template(Written(r.override), Annotated(k.meta), k.spec))
    BY <1>3, <2>1, RevertedController
  <2> DEFINE w == WrittenSelector(r.selector)
             T == Template(Written(r.override), Annotated(k.meta), k.spec)
  <2>3. e.syntax = "kube" /\ e.kind = k.kind /\ e.selector = w /\ e.template = T
    BY <2>2 DEF KubeRecord
  <2>4. /\ r.override \in AnyLabels
        /\ r.selector = Nil => r.override = Nil
        /\ r.selector # Nil =>
             /\ r.selector \in AnySelector /\ w \in AnySelector /\ NormalSelector(w)
             /\ r.selector.exprs = <<>> /\ Written(r.selector.labels) # Nil => Written(r.override) # Nil
    BY <1>1, <1>2, RevertedSelector
  <2>5. Written(r.override) \in AnyLabels /\ Written(Written(r.override)) = Written(r.override)
    BY <2>4, WrittenLabels
  <2>6. T \in AnyTemplate /\ T.labels = Written(r.override)
    BY <1>1, <1>2, <2>5, PartsMade DEF Template
  <2>7. /\ r.selector = Nil => w = Nil
        /\ r.selector # Nil => w.labels = Written(r.selector.labels) /\ w.exprs = r.selector.exprs /\ w # Nil
    <3>1. r.selector # Nil => w = LabelSelector(Written(r.selector.labels), r.selector.exprs)
      BY DEF WrittenSelector
    <3>2. r.selector # Nil => w # Nil
      BY <2>4, Parts
    <3> QED
      BY <3>1, <3>2 DEF WrittenSelector, LabelSelector
  <2> HIDE DEF w, T
  <2>8. Written(Nil) = Nil
    BY DEF Written, IsEmpty
  <2>9. NormalLabels(w, T.labels)
    <3>1. w = Nil => T.labels = Nil
      BY <2>4, <2>6, <2>7, <2>8
    <3>2. w # Nil /\ w.exprs = <<>> /\ w.labels # Nil => T.labels # Nil
      BY <2>4, <2>6, <2>7
    <3>3. T.labels = Written(T.labels)
      BY <2>5, <2>6
    <3> QED
      BY <3>1, <3>2, <3>3 DEF NormalLabels
  <2>10. w \in AnySelector \cup {Nil} /\ (w # Nil => NormalSelector(w))
    BY <2>4, <2>7
  <2>11. KubeParts(k.kind, w, T)
    BY <1>1, <1>3, <2>6, <2>10 DEF KubeParts
  <2>12. e \in AnyKube
    BY <2>2, <2>11, KubeMade DEF w, T
  <2>13. Normal(e)
    BY <1>3, <2>3, <2>9, <2>10 DEF Normal
  <2> QED
    BY <1>3, <2>3, <2>12, <2>13
<1>4. CASE k.kind = "selecting"
  <2>1. PICK r \in revertRSSelector(k.selector, Nil) : e = KubeRecord(k.kind, WrittenSelector(r.selector), Nil)
    BY <1>4 DEF Revert, RevertSelecting, KubeDoc, KubeRecord
  <2> DEFINE w == WrittenSelector(r.selector)
  <2>2. e.syntax = "kube" /\ e.kind = k.kind /\ e.selector = w /\ e.template = Nil
    BY <2>1 DEF KubeRecord
  <2>3. r.selector # Nil => w \in AnySelector /\ NormalSelector(w)
    BY <1>1, <1>2, RevertedSelector
  <2>4. r.selector = Nil => w = Nil
    BY DEF WrittenSelector
  <2> HIDE DEF w
  <2>5. w \in AnySelector \cup {Nil} /\ (w # Nil => NormalSelector(w))
    BY <2>3, <2>4
  <2>6. KubeParts(k.kind, w, Nil)
    BY <1>1, <1>4, <2>5 DEF KubeParts
  <2>7. e \in AnyKube
    BY <2>1, <2>6, KubeMade DEF w
  <2>8. Normal(e)
    BY <1>4, <2>2, <2>5 DEF Normal
  <2> QED
    BY <1>4, <2>2, <2>7, <2>8
<1>5. CASE k.kind = "rc"
  <2> DEFINE t0 == revertTemplate(k.meta, k.spec)
             labels == IF k.selector = Nil THEN Nil ELSE Written(k.selector.labels)
             s0 == IF labels = Nil THEN Nil ELSE LabelSelector(labels, <<>>)
             t == IF t0 # Nil /\ t0.labels = Nil THEN [t0 EXCEPT !.labels = labels] ELSE t0
             w == WrittenSelector(s0)
  <2>1. e = KubeRecord(k.kind, w, t)
    BY <1>5 DEF Revert, RevertRC, KubeDoc, KubeRecord
  <2>2. labels \in AnyLabels /\ Written(labels) = labels /\ (k.selector = Nil => labels = Nil)
    <3>1. Written(Nil) = Nil
      BY DEF Written, IsEmpty
    <3>2. k.selector # Nil => k.selector.labels \in AnyLabels
      BY <1>1, Parts
    <3> QED
      BY <1>2, <3>1, <3>2, WrittenLabels
  <2> HIDE DEF labels
  <2>3. /\ w = s0 /\ s0 \in AnySelector \cup {Nil} /\ (s0 # Nil => NormalSelector(s0) /\ s0.exprs = <<>>)
        /\ (labels = Nil => s0 = Nil)
    <3>1. CASE labels = Nil
      BY <3>1 DEF WrittenSelector
    <3>2. CASE labels # Nil
      <4> DEFINE p == LabelSelector(labels, <<>>)
      <4>1. p \in AnySelector /\ p # Nil /\ p.labels = labels /\ p.exprs = <<>>
        BY <2>2, PartsMade, Parts DEF LabelSelector
      <4>2. WrittenSelector(p) = LabelSelector(Written(labels), <<>>)
        <5> HIDE DEF p
        <5> QED
          BY <4>1 DEF WrittenSelector
      <4>3. NormalSelector(p)
        <5> HIDE DEF p
        <5> QED
          BY <2>2, <4>1 DEF NormalSelector
      <4> QED
        BY <2>2, <3>2, <4>1, <4>2, <4>3
    <3> QED
      BY <3>1, <3>2
  <2>4. t \in AnyTemplate \cup {Nil} /\ (t # Nil => t.labels = Written(t.labels))
    <3>1. /\ t0 \in AnyTemplate \cup {Nil}
          /\ t0 # Nil => t0 = Template(Written(MetaLabels(k.meta)), Annotated(k.meta), k.spec)
      BY <1>1, RevertedTemplate
    <3>2. t0 # Nil => t0.labels = Written(t0.labels)
      BY <1>2, <3>1, WrittenLabels DEF Template
    <3> HIDE DEF t0
    <3>3. CASE t0 # Nil /\ t0.labels = Nil
      <4>1. t = [labels |-> labels, annotated |-> t0.annotated, spec |-> t0.spec]
        BY <3>1, <3>3, Parts
      <4>2. t0.annotated \in BOOLEAN /\ t0.spec \in BOOLEAN
        BY <3>1, <3>3, Parts
      <4>3. t \in AnyTemplate /\ t.labels = labels
        BY <2>2, <4>1, <4>2, PartsMade
      <4> QED
        BY <2>2, <4>3
    <3>4. CASE ~(t0 # Nil /\ t0.labels = Nil)
      BY <3>1, <3>2, <3>4
    <3> QED
      BY <3>3, <3>4
  <2> HIDE DEF t, w, s0
  <2>5. e.syntax = "kube" /\ e.kind = k.kind /\ e.selector = s0 /\ e.template = t
    BY <2>1, <2>3 DEF KubeRecord
  <2>6. KubeParts(k.kind, s0, t)
    BY <1>1, <1>5, <2>3, <2>4 DEF KubeParts
  <2>7. e \in AnyKube
    BY <2>1, <2>3, <2>6, KubeMade
  <2>8. Normal(e)
    BY <1>5, <2>3, <2>4, <2>5 DEF Normal
  <2> QED
    BY <2>2, <2>3, <2>5, <2>7, <2>8
<1> QED
  BY <1>1, <1>3, <1>4, <1>5 DEF Kinds
-----------------------------------------------------------------------------
(***************************************************************************)
(* To Short: what is written can be parsed.                                *)
(***************************************************************************)
Prepared(d) == IF d.kind = "controller" THEN Reread(d) ELSE d

\* A selector without its empty labels.
LEMMA SelectorWritten ==
  ASSUME NEW sel \in AnySelector
  PROVE  /\ WrittenSelector(sel) \in AnySelector /\ WrittenSelector(sel).exprs = sel.exprs
         /\ WrittenSelector(sel).labels = Written(sel.labels)
         /\ NormalSelector(sel) => WrittenSelector(sel) = sel
<1>1. /\ sel # Nil /\ sel.labels \in AnyLabels /\ sel.exprs \in Seq(AnyRequirement)
      /\ sel = LabelSelector(sel.labels, sel.exprs)
  BY Parts
<1>2. WrittenSelector(sel) = LabelSelector(Written(sel.labels), sel.exprs)
  BY <1>1 DEF WrittenSelector
<1>3. WrittenSelector(sel) \in AnySelector
  BY <1>1, <1>2, WrittenLabels, PartsMade
<1>4. NormalSelector(sel) => sel.labels = Written(sel.labels)
  BY DEF NormalSelector
<1> QED
  BY <1>1, <1>2, <1>3, <1>4 DEF LabelSelector

\* A controller is converted as if it had been written and read: its empty
\* labels are gone, and nothing else is.
LEMMA Prepares ==
  ASSUME NEW d \in AnyKube, d.kind \in {"controller", "job"}
  PROVE  /\ Prepared(d) \in AnyKube /\ Prepared(d).kind = d.kind
         /\ Convert(d) = ConvertController(Prepared(d))
         /\ Prepared(d).selector = Nil <=> d.selector = Nil
         /\ d.selector # Nil =>
              /\ Prepared(d).selector.exprs = d.selector.exprs
              /\ Written(Prepared(d).selector.labels) = Written(d.selector.labels)
         /\ Prepared(d).template = Template(Prepared(d).template.labels, d.template.annotated, d.template.spec)
         /\ Written(Prepared(d).template.labels) = Written(d.template.labels)
         /\ Normal(d) => Prepared(d) = d
<1>1. d = KubeRecord(d.kind, d.selector, d.template) /\ KubeParts(d.kind, d.selector, d.template)
  BY KubeFields
<1>2. d.selector \in AnySelector \cup {Nil} /\ d.template \in AnyTemplate
  BY <1>1 DEF KubeParts
<1>3. /\ d.template.labels \in AnyLabels /\ d.template.annotated \in BOOLEAN /\ d.template.spec \in BOOLEAN
      /\ d.template = Template(d.template.labels, d.template.annotated, d.template.spec)
  BY <1>2, Parts DEF Template
<1>4. CASE d.kind = "job"
  <2>1. Prepared(d) = d
    BY <1>4 DEF Prepared
  <2>2. Convert(d) = ConvertController(d)
    BY <1>4 DEF Convert
  <2> QED
    BY <1>3, <2>1, <2>2
<1>5. CASE d.kind = "controller"
  <2> DEFINE p == Prepared(d)
             w == WrittenSelector(d.selector)
             T == Template(Written(d.template.labels), d.template.annotated, d.template.spec)
  <2>0. /\ Written(d.template.labels) \in AnyLabels
        /\ Written(Written(d.template.labels)) = Written(d.template.labels)
    BY <1>3, WrittenLabels
  <2>1. [d.template EXCEPT !.labels = Written(d.template.labels)] = T
    BY <1>3 DEF Template
  <2>2. p = [d EXCEPT !.selector = w, !.template.labels = Written(@)]
    BY <1>5 DEF Prepared, Reread
  <2>3. w = WrittenSelector(d.selector)
    OBVIOUS
  <2> HIDE DEF w
  <2> DEFINE d1 == [d EXCEPT !.selector = w]
  <2>4. d1 = KubeRecord(d.kind, w, d.template)
    BY <1>1 DEF KubeRecord
  <2>5. p = KubeRecord(d.kind, w, T)
    <3>1. p = [d1 EXCEPT !.template = [d1.template EXCEPT !.labels = Written(d1.template.labels)]]
      BY <1>1, <2>2, <2>4 DEF KubeRecord
    <3>2. d1.template = d.template
      BY <2>4 DEF KubeRecord
    <3> HIDE DEF d1, p, T
    <3> QED
      BY <2>1, <2>4, <3>1, <3>2 DEF KubeRecord
  <2>6. T \in AnyTemplate /\ T.labels = Written(d.template.labels)
    BY <1>3, <2>0, PartsMade DEF Template
  <2>7. /\ d.selector = Nil => w = Nil
        /\ d.selector # Nil =>
             /\ w \in AnySelector /\ w # Nil /\ w.exprs = d.selector.exprs /\ w.labels = Written(d.selector.labels)
             /\ d.selector \in AnySelector /\ d.selector.labels \in AnyLabels
             /\ NormalSelector(d.selector) => w = d.selector
    <3>1. d.selector = Nil => w = Nil
      BY <2>3 DEF WrittenSelector
    <3>2. d.selector # Nil => d.selector \in AnySelector /\ d.selector.labels \in AnyLabels
      BY <1>2, Parts
    <3>3. d.selector # Nil =>
            /\ w \in AnySelector /\ w.exprs = d.selector.exprs /\ w.labels = Written(d.selector.labels)
            /\ NormalSelector(d.selector) => w = d.selector
      BY <2>3, <3>2, SelectorWritten
    <3>4. d.selector # Nil => w # Nil
      BY <3>3, Parts
    <3> QED
      BY <3>1, <3>2, <3>3, <3>4
  <2> HIDE DEF p, T
  <2>8. p.kind = d.kind /\ p.selector = w /\ p.template = T
    BY <2>5 DEF KubeRecord
  <2>9. p \in AnyKube
    <3>1. KubeParts(d.kind, w, T)
      BY <1>1, <1>5, <2>6, <2>7 DEF KubeParts
    <3> QED
      BY <2>5, <3>1, KubeMade
  <2>10. Convert(d) = ConvertController(p)
    BY <1>5 DEF Convert, p, Prepared
  <2>11. Normal(d) => p = d
    <3>1. Normal(d) => w = d.selector
      BY <2>7 DEF Normal
    <3>2. Normal(d) => T = d.template
      BY <1>3, <1>5 DEF Normal, NormalLabels, T
    <3> QED
      BY <1>1, <2>5, <3>1, <3>2
  <2>12. d.selector # Nil => Written(p.selector.labels) = Written(d.selector.labels)
    BY <2>7, <2>8, WrittenLabels
  <2>13. p.template = Template(p.template.labels, d.template.annotated, d.template.spec)
    BY <2>6, <2>8 DEF T
  <2>14. Written(p.template.labels) = Written(d.template.labels)
    BY <2>0, <2>6, <2>8
  <2> QED
    BY <2>7, <2>8, <2>9, <2>10, <2>11, <2>12, <2>13, <2>14 DEF p
<1> QED
  BY <1>4, <1>5

\* A selector that can be written is converted.
LEMMA SelectorConverts ==
  ASSUME NEW sel \in AnySelector \cup {Nil}, sel # Nil => \A i \in DOMAIN sel.exprs : Writable(sel.exprs[i]), NEW labels
  PROVE  convertRSLabelSelector(sel, labels) # {}
<1>1. CASE sel = Nil \/ sel.exprs = <<>>
  BY <1>1 DEF convertRSLabelSelector
<1>2. CASE sel # Nil /\ sel.exprs # <<>>
  <2>1. UnparseLabelSelector(sel) # {}
    BY <1>2, Unparsed
  <2> QED
    BY <1>2, <2>1 DEF convertRSLabelSelector
<1> QED
  BY <1>1, <1>2
\* A controller that is converted to a document of Short.
LEMMA ConvertedController ==
  ASSUME NEW d \in AnyKube, d.kind \in {"controller", "job"}, Joins(d.selector), NEW k \in ConvertController(d)
  PROVE  \E c \in convertRSLabelSelector(d.selector, d.template.labels) : \E meta \in AnyMeta \cup {Nil} :
           /\ k = KokiRecord(d.kind, SetSelector(c.selector), meta, d.template.spec)
           /\ MetaLabels(meta) = Written(c.override) /\ Annotated(meta) = d.template.annotated
<1>1. KubeParts(d.kind, d.selector, d.template)
  BY KubeFields
<1>2. d.selector \in AnySelector \cup {Nil} /\ d.template \in AnyTemplate
  BY <1>1 DEF KubeParts
<1>3. d.template.labels \in AnyLabels /\ d.template.annotated \in BOOLEAN
  BY <1>2, Parts
<1>4. PICK c \in convertRSLabelSelector(d.selector, d.template.labels) :
        k = [syntax |-> "koki", kind |-> d.kind, selector |-> SetSelector(c.selector),
             meta |-> applyTemplateLabelsOverride(c.override, Meta(d.template.labels, d.template.annotated)),
             spec |-> d.template.spec]
  BY DEF ConvertController
<1> DEFINE meta0 == Meta(d.template.labels, d.template.annotated)
           meta == applyTemplateLabelsOverride(c.override, meta0)
<1>5. c.override \in AnyLabels
  BY <1>2, <1>3, ConvertedSelector
<1>6. meta0 \in AnyMeta /\ Annotated(meta0) = d.template.annotated
  <2>1. meta0 \in AnyMeta /\ meta0 # Nil
    BY <1>3, PartsMade, Parts
  <2>2. meta0.annotated = d.template.annotated
    BY DEF Meta
  <2> HIDE DEF meta0
  <2> QED
    BY <1>3, <2>1, <2>2 DEF Annotated
<1> HIDE DEF meta0
<1>7. meta \in AnyMeta \cup {Nil} /\ MetaLabels(meta) = Written(c.override) /\ Annotated(meta) = d.template.annotated
  BY <1>5, <1>6, AppliedOverride
<1>8. k = KokiRecord(d.kind, SetSelector(c.selector), meta, d.template.spec)
  BY <1>4 DEF KokiRecord, meta0
<1> HIDE DEF meta
<1> QED
  BY <1>7, <1>8

\* A document is converted to one of Short that can be parsed.
LEMMA Converts ==
  ASSUME NEW d \in AnyKube, Joins(d.selector), NEW k \in Convert(d)
  PROVE  /\ k \in AnyKoki /\ k.syntax = "koki" /\ k.kind = d.kind /\ Readable(k)
         /\ d.kind = "rc" => k.selector = Nil
<1>1. KubeParts(d.kind, d.selector, d.template)
  BY KubeFields
<1>2. d.kind \in Kinds /\ d.selector \in AnySelector \cup {Nil}
  BY <1>1 DEF KubeParts
<1>3. ASSUME NEW rs \in AnyRSSelector, Parses(rs.shorthand), NEW meta \in AnyMeta \cup {Nil}, NEW spec \in BOOLEAN,
             k = KokiRecord(d.kind, SetSelector(rs), meta, spec)
      PROVE  k \in AnyKoki /\ k.syntax = "koki" /\ k.kind = d.kind /\ Readable(k)
  <2>1. SetSelector(rs) \in AnyRSSelector \cup {Nil} /\ (SetSelector(rs) # Nil => SetSelector(rs) = rs)
    BY SelectorSet
  <2>2. k \in AnyKoki
    BY <1>2, <1>3, <2>1, KokiMade
  <2>3. k.syntax = "koki" /\ k.kind = d.kind /\ k.selector = SetSelector(rs)
    BY <1>3 DEF KokiRecord
  <2>4. Readable(k)
    BY <1>3, <2>1, <2>3 DEF Readable
  <2> QED
    BY <2>2, <2>3, <2>4
<1>4. CASE d.kind \in {"controller", "job"}
  <2> DEFINE p == Prepared(d)
  <2>1. /\ p \in AnyKube /\ p.kind = d.kind /\ Convert(d) = ConvertController(p)
        /\ p.selector = Nil <=> d.selector = Nil
        /\ d.selector # Nil => p.selector.exprs = d.selector.exprs
    BY <1>4, Prepares
  <2> HIDE DEF p
  <2>2. Joins(p.selector)
    BY <2>1, Zenon DEF Joins
  <2>3. KubeParts(p.kind, p.selector, p.template)
    BY <2>1, KubeFields
  <2>4. p.selector \in AnySelector \cup {Nil} /\ p.template \in AnyTemplate
    BY <1>4, <2>1, <2>3 DEF KubeParts
  <2>5. p.template.labels \in AnyLabels /\ p.template.spec \in BOOLEAN
    BY <2>4, Parts
  <2>6. PICK c \in convertRSLabelSelector(p.selector, p.template.labels), meta \in AnyMeta \cup {Nil} :
          k = KokiRecord(p.kind, SetSelector(c.selector), meta, p.template.spec)
    BY <1>4, <2>1, <2>2, ConvertedController
  <2>7. c.selector \in AnyRSSelector /\ Parses(c.selector.shorthand)
    BY <2>2, <2>4, <2>5, ConvertedSelector
  <2> QED
    BY <1>3, <1>4, <2>1, <2>5, <2>6, <2>7
<1>5. CASE d.kind = "selecting"
  <2>1. PICK c \in convertRSLabelSelector(d.selector, Nil) : k = KokiRecord(d.kind, SetSelector(c.selector), Nil, FALSE)
    BY <1>5 DEF Convert, ConvertSelecting, KokiRecord
  <2>2. Nil \in AnyLabels
    BY DEF AnyLabels
  <2>3. c.selector \in AnyRSSelector /\ Parses(c.selector.shorthand)
    BY <1>2, <2>2, ConvertedSelector
  <2> QED
    BY <1>3, <1>5, <2>1, <2>3
<1>6. CASE d.kind = "rc"
  <2> DEFINE meta == IF d.template = Nil THEN Nil ELSE Meta(Written(d.template.labels), d.template.annotated)
             spec == d.template # Nil /\ d.template.spec
  <2>1. k = KokiRecord(d.kind, Nil, meta, spec)
    BY <1>6 DEF Convert, ConvertRC, KokiRecord
  <2>2. d.template # Nil =>
          d.template.labels \in AnyLabels /\ d.template.annotated \in BOOLEAN /\ d.template.spec \in BOOLEAN
    BY <1>1, <1>6, Parts DEF KubeParts
  <2>3. d.template # Nil => Written(d.template.labels) \in AnyLabels
    BY <2>2, WrittenLabels
  <2>4. meta \in AnyMeta \cup {Nil} /\ spec \in BOOLEAN
    BY <2>2, <2>3, PartsMade
  <2> HIDE DEF meta, spec
  <2>5. k \in AnyKoki
    BY <1>2, <2>1, <2>4, KokiMade
  <2>6. k.syntax = "koki" /\ k.kind = d.kind /\ k.selector = Nil
    BY <2>1 DEF KokiRecord
  <2>7. Readable(k)
    BY <2>6 DEF Readable
  <2> QED
    BY <2>5, <2>6, <2>7
<1> QED
  BY <1>2, <1>4, <1>5, <1>6 DEF Kinds
-----------------------------------------------------------------------------
(***************************************************************************)
(* What short has written it can read.                                     *)
(***************************************************************************)
\* A normal document can be written.
LEMMA NormalJoins ==
  ASSUME NEW d \in AnyKube, Normal(d)
  PROVE  /\ Joins(d.selector)
         /\ d.selector # Nil => \A i \in DOMAIN d.selector.exprs : Writable(d.selector.exprs[i])
<1>1. d.selector # Nil => \A i \in DOMAIN d.selector.exprs : NormalRequirement(d.selector.exprs[i])
  BY DEF Normal, NormalSelector
<1>2. d.selector # Nil => \A i \in DOMAIN d.selector.exprs : Writable(d.selector.exprs[i])
  BY <1>1, NormalIsWritable
<1> QED
  BY <1>2, Zenon DEF Joins, Writable

\* The conversion of a normal document to Short does not fail.
LEMMA NormalConverts ==
  ASSUME NEW d \in AnyKube, Normal(d)
  PROVE  Convert(d) # {}
<1>1. KubeParts(d.kind, d.selector, d.template)
  BY KubeFields
<1>2. d.kind \in Kinds /\ d.selector \in AnySelector \cup {Nil}
  BY <1>1 DEF KubeParts
<1>3. \A labels : convertRSLabelSelector(d.selector, labels) # {}
  BY <1>2, NormalJoins, SelectorConverts
<1>4. CASE d.kind \in {"controller", "job"}
  <2>1. Convert(d) = ConvertController(d)
    BY <1>4, Prepares
  <2>2. PICK c : c \in convertRSLabelSelector(d.selector, d.template.labels)
    BY <1>3
  <2> QED
    BY <2>1, <2>2 DEF ConvertController
<1>5. CASE d.kind = "selecting"
  <2>1. PICK c : c \in convertRSLabelSelector(d.selector, Nil)
    BY <1>3
  <2> QED
    BY <1>5, <2>1 DEF Convert, ConvertSelecting
<1>6. CASE d.kind = "rc"
  BY <1>6 DEF Convert, ConvertRC
<1> QED
  BY <1>2, <1>4, <1>5, <1>6 DEF Kinds

\* The conversion of a readable document of Short fails only for a
\* controller that has no pod.
LEMMA ReadableReverts ==
  ASSUME NEW k \in AnyKoki, Readable(k), Revert(k) = {}
  PROVE  k.kind \in {"controller", "job"} /\ ~k.spec
<1>1. k.kind \in Kinds
  BY KokiFields
<1>2. ASSUME NEW labels
      PROVE  revertRSSelector(k.selector, labels) # {}
  BY DEF revertRSSelector, Readable
<1>3. CASE k.kind \in {"controller", "job"}
  <2>1. RevertController(k) = {}
    BY <1>3 DEF Revert
  <2> QED
    BY <1>2, <1>3, <2>1, RevertedController
<1>4. CASE k.kind = "selecting"
  <2>1. PICK r : r \in revertRSSelector(k.selector, Nil)
    BY <1>2
  <2>2. Revert(k) = RevertSelecting(k)
    BY <1>4 DEF Revert
  <2>3. KubeDoc(k.kind, r.selector, Nil) \in RevertSelecting(k)
    BY <2>1 DEF RevertSelecting
  <2> QED
    BY <2>2, <2>3
<1>5. CASE k.kind = "rc"
  <2>1. Revert(k) = RevertRC(k)
    BY <1>5 DEF Revert
  <2>2. RevertRC(k) # {}
    BY DEF RevertRC
  <2> QED
    BY <2>1, <2>2
<1> QED
  BY <1>1, <1>3, <1>4, <1>5 DEF Kinds
-----------------------------------------------------------------------------
(***************************************************************************)
(* The invariant is inductive.                                             *)
(***************************************************************************)
\* The first document has keys where operators are missing.
LEMMA FirstJoins ==
  ASSUME NEW d \in FirstDocs, d.syntax = "kube"
  PROVE  Joins(d.selector)
<1>1. d.selector # Nil =>
        \A i \in DOMAIN d.selector.exprs : Joined(d.selector.exprs[i].key, d.selector.exprs[i].values) \in Key
  BY JoinedAssumption, Zenon
<1> QED
  BY <1>1, Zenon DEF Joins

\* The first document is in one of the two syntaxes.
LEMMA FirstKnown ==
  ASSUME NEW d \in FirstDocs
  PROVE  (d.syntax = "kube" /\ d \in AnyKube) \/ (d.syntax = "koki" /\ d \in AnyKoki)
<1>1. d \in AnyKube \/ d \in AnyKoki
  BY DocsAssumption
<1>2. d \in AnyKube => d.syntax = "kube"
  BY KubeFields
<1>3. d \in AnyKoki => d.syntax = "koki"
  BY KokiFields
<1> QED
  BY <1>1, <1>2, <1>3

\* The invariant holds at first.
LEMMA WorkloadsInit ==
  ASSUME Init
  PROVE  WorkloadsInv
<1>1. first \in FirstDocs /\ doc = first /\ kube = Nil /\ koki = Nil /\ refused = FALSE
  BY DEF Init
<1>2. (doc.syntax = "kube" /\ doc \in AnyKube) \/ (doc.syntax = "koki" /\ doc \in AnyKoki)
  BY <1>1, FirstKnown
<1>3. DocsInv
  BY <1>1, <1>2 DEF DocsInv
<1>4. History
  BY <1>1 DEF History
<1>5. NoSelectorOfRC
  BY <1>1 DEF NoSelectorOfRC
<1> QED
  BY <1>3, <1>4, <1>5 DEF WorkloadsInv

\* A run that writes Short keeps the invariant.
LEMMA ToKokiKeepsInv ==
  ASSUME WorkloadsInv, ToKoki
  PROVE  WorkloadsInv'
<1>1. ~refused /\ doc.syntax = "kube" /\ kube' = doc /\ koki' = koki /\ first' = first
  BY DEF ToKoki, Becomes
<1>2. doc \in AnyKube /\ (doc = first \/ Normal(doc)) /\ first \in FirstDocs
  BY <1>1 DEF WorkloadsInv, DocsInv
<1>3. Joins(doc.selector)
  BY <1>1, <1>2, FirstJoins, NormalJoins
<1>4. \/ doc' \in Convert(doc) /\ refused' = refused
      \/ Convert(doc) = {} /\ refused' = TRUE /\ doc' = doc
  BY DEF ToKoki, Becomes
<1>5. "kube" # "koki"
  OBVIOUS
<1>6. CASE doc' \in Convert(doc) /\ refused' = refused
  <2>1. /\ doc' \in AnyKoki /\ doc'.syntax = "koki" /\ doc'.kind = doc.kind /\ Readable(doc')
        /\ doc.kind = "rc" => doc'.selector = Nil
    BY <1>2, <1>3, <1>6, Converts
  <2>2. DocsInv'
    BY <1>1, <1>2, <2>1 DEF DocsInv, Normal, NormalSelector, NormalRequirement, NormalLabels, Readable
  <2>3. History'
    BY <1>1, <1>6, <2>1 DEF History
  <2>4. NoSelectorOfRC'
    BY <1>1, <2>1 DEF WorkloadsInv, NoSelectorOfRC
  <2> QED
    BY <2>2, <2>3, <2>4 DEF WorkloadsInv
<1>7. CASE Convert(doc) = {} /\ refused' = TRUE /\ doc' = doc
  <2>1. DocsInv'
    BY <1>1, <1>2, <1>7 DEF WorkloadsInv, DocsInv
  <2>2. History'
    BY <1>1, <1>7 DEF History
  <2>3. NoSelectorOfRC'
    BY <1>1, <1>7 DEF WorkloadsInv, NoSelectorOfRC
  <2> QED
    BY <2>1, <2>2, <2>3 DEF WorkloadsInv
<1> QED
  BY <1>4, <1>6, <1>7
\* A run that writes Kubernetes syntax keeps the invariant.
LEMMA ToKubeKeepsInv ==
  ASSUME WorkloadsInv, ToKube
  PROVE  WorkloadsInv'
<1>1. ~refused /\ doc.syntax = "koki" /\ koki' = doc /\ kube' = kube /\ first' = first
  BY DEF ToKube, Becomes
<1>2. doc \in AnyKoki /\ first \in FirstDocs /\ (kube # Nil => kube \in AnyKube /\ (kube = first \/ Normal(kube)))
  BY <1>1 DEF WorkloadsInv, DocsInv
<1>3. \/ doc' \in Revert(doc) /\ refused' = refused
      \/ Revert(doc) = {} /\ refused' = TRUE /\ doc' = doc
  BY DEF ToKube, Becomes
<1>4. CASE doc' \in Revert(doc) /\ refused' = refused
  <2>1. /\ doc' \in AnyKube /\ doc'.syntax = "kube" /\ doc'.kind = doc.kind /\ Normal(doc')
        /\ doc.kind = "rc" /\ doc.selector = Nil => doc'.selector = Nil
    BY <1>2, <1>4, Reverts
  <2>2. DocsInv'
    BY <1>1, <1>2, <2>1 DEF DocsInv, Normal, NormalSelector, NormalRequirement, NormalLabels, Readable
  <2>3. kube # Nil => doc \in Convert(kube)
    BY <1>1 DEF WorkloadsInv, History
  <2>4. History'
    BY <1>1, <1>4, <2>1, <2>3 DEF History
  <2>5. NoSelectorOfRC'
    <3>1. ASSUME first.syntax = "kube", doc.kind = "rc"
          PROVE  doc.selector = Nil
      BY <1>1, <3>1 DEF WorkloadsInv, NoSelectorOfRC
    <3> QED
      BY <1>1, <2>1, <3>1 DEF WorkloadsInv, NoSelectorOfRC
  <2> QED
    BY <2>2, <2>4, <2>5 DEF WorkloadsInv
<1>5. CASE Revert(doc) = {} /\ refused' = TRUE /\ doc' = doc
  <2>1. DocsInv'
    BY <1>1, <1>2, <1>5 DEF WorkloadsInv, DocsInv
  <2>2. History'
    BY <1>1, <1>5 DEF WorkloadsInv, History
  <2>3. NoSelectorOfRC'
    BY <1>1, <1>5 DEF WorkloadsInv, NoSelectorOfRC
  <2> QED
    BY <2>1, <2>2, <2>3 DEF WorkloadsInv
<1> QED
  BY <1>3, <1>4, <1>5

\* What short writes, in either syntax, is normal or readable, and made of the
\* document before it.
THEOREM WorkloadsInvariant == Spec => []WorkloadsInv
<1>1. Init => WorkloadsInv
  BY WorkloadsInit
<1>2. WorkloadsInv /\ [Next]_vars => WorkloadsInv'
  <2> SUFFICES ASSUME WorkloadsInv, [Next]_vars PROVE WorkloadsInv'
    OBVIOUS
  <2>1. CASE ToKoki
    BY <2>1, ToKokiKeepsInv
  <2>2. CASE ToKube
    BY <2>2, ToKubeKeepsInv
  <2>3. CASE UNCHANGED vars
    BY <2>3 DEF vars, WorkloadsInv, DocsInv, History, NoSelectorOfRC
  <2> QED
    BY <2>1, <2>2, <2>3 DEF Next
<1> QED
  BY <1>1, <1>2, PTL DEF Spec

\* What short has written it can read: a run of short on it fails only on a
\* controller in Short syntax that has no pod.
THEOREM WorkloadsFailAtOnce == Spec => []FailsAtOnce
<1>1. WorkloadsInv => FailsAtOnce
  <2> SUFFICES ASSUME WorkloadsInv, refused, doc # first
               PROVE  doc.syntax = "koki" /\ doc.kind \in {"controller", "job"} /\ ~doc.spec
    BY DEF FailsAtOnce
  <2>1. IF doc.syntax = "kube" THEN Convert(doc) = {} ELSE Revert(doc) = {}
    BY DEF WorkloadsInv, History
  <2>2. doc.syntax = "kube" => doc \in AnyKube /\ Normal(doc)
    BY DEF WorkloadsInv, DocsInv
  <2>3. doc.syntax \in {"kube", "koki"} /\ (doc.syntax = "koki" => doc \in AnyKoki /\ Readable(doc))
    BY DEF WorkloadsInv, DocsInv
  <2>4. doc.syntax = "koki"
    BY <2>1, <2>2, <2>3, NormalConverts
  <2> QED
    BY <2>1, <2>3, <2>4, ReadableReverts
<1> QED
  BY <1>1, WorkloadsInvariant, PTL
-----------------------------------------------------------------------------
(***************************************************************************)
(* A trip to Short and back is a normal form.                              *)
(***************************************************************************)
\* Without labels nothing is written.
LEMMA NoLabels == Written(Nil) = Nil /\ IsEmpty(Nil) /\ Nil \in AnyLabels
BY DEF Written, IsEmpty, AnyLabels

\* A normal selector comes back from Short, and with it the labels of a
\* template that is normal.
LEMMA NormalSelectorAgain ==
  ASSUME NEW sel \in AnySelector \cup {Nil}, sel # Nil => NormalSelector(sel), ~IsBlank(sel),
         NEW labels \in AnyLabels, labels = Written(labels), sel = Nil => labels = Nil,
         NEW c \in convertRSLabelSelector(sel, labels),
         NEW r \in revertRSSelector(SetSelector(c.selector), Written(c.override))
  PROVE  /\ WrittenSelector(r.selector) = sel
         /\ NormalLabels(sel, labels) => Written(r.override) = labels
<1>1. CASE sel = Nil
  <2>1. c.selector = RSSelector(<<>>, Nil) /\ c.override = Nil
    BY <1>1 DEF convertRSLabelSelector
  <2>2. SetSelector(c.selector) = Nil
    BY <2>1 DEF SetSelector, RSSelector
  <2>3. r.selector = Nil /\ r.override = Nil
    BY <2>2 DEF revertRSSelector
  <2> QED
    BY <1>1, <2>3, NoLabels DEF WrittenSelector
<1>2. CASE sel # Nil /\ sel.exprs = <<>>
  <2>1. sel \in AnySelector /\ sel.labels \in AnyLabels /\ sel.labels = Written(sel.labels) /\ sel.labels # Nil
    <3>1. sel \in AnySelector /\ sel.labels \in AnyLabels /\ sel.labels = Written(sel.labels)
      BY <1>2, Parts DEF NormalSelector
    <3> QED
      BY <1>2, <3>1, NoLabels DEF IsBlank
  <2> DEFINE rs == RSSelector(<<>>, sel.labels)
  <2>2. c.selector = rs /\ c.override = IF sel.labels = labels THEN Nil ELSE labels
    BY <1>2 DEF convertRSLabelSelector
  <2>3. rs \in AnyRSSelector /\ rs # Nil /\ rs.shorthand = <<>> /\ rs.labels = sel.labels
    BY <2>1, PartsMade, Parts DEF RSSelector
  <2> HIDE DEF rs
  <2>4. SetSelector(c.selector) = rs
    BY <2>1, <2>2, <2>3, SelectorSet
  <2>5. /\ r.selector = LabelSelector(sel.labels, <<>>)
        /\ r.override = IF IsEmpty(Written(c.override)) THEN sel.labels ELSE Written(c.override)
    BY <2>3, <2>4 DEF revertRSSelector
  <2>6. r.selector = sel
    BY <1>2, <2>1, <2>5, Parts
  <2>7. WrittenSelector(r.selector) = sel
    BY <1>2, <2>1, <2>6, SelectorWritten
  <2>8. ASSUME NormalLabels(sel, labels)
        PROVE  Written(r.override) = labels
    <3>1. labels # Nil
      BY <1>2, <2>1, <2>8 DEF NormalLabels
    <3>2. CASE sel.labels = labels
      <4>1. Written(c.override) = Nil
        BY <2>2, <3>2, NoLabels
      <4> QED
        BY <2>1, <2>5, <3>2, <4>1, NoLabels
    <3>3. CASE sel.labels # labels
      <4>1. Written(c.override) = labels /\ ~IsEmpty(labels)
        BY <2>2, <3>1, <3>3, WrittenLabels
      <4> QED
        BY <2>5, <4>1
    <3> QED
      BY <3>2, <3>3
  <2> QED
    BY <2>7, <2>8
<1>3. CASE sel # Nil /\ sel.exprs # <<>>
  <2>1. PICK s \in UnparseLabelSelector(sel) : c = [selector |-> RSSelector(s, Nil), override |-> labels]
    BY <1>3 DEF convertRSLabelSelector
  <2>2. \A i \in DOMAIN sel.exprs : Writable(sel.exprs[i])
    BY <1>3, NormalIsWritable DEF NormalSelector
  <2>3. s # <<>> /\ s \in Seq(AnySegment) /\ Parses(s)
    BY <1>3, <2>2, ShorthandNotEmpty
  <2>4. PICK m \in Nat : IsShorthand(s, sel, m)
    BY <1>3, <2>2, Unparsed
  <2>5. ParseLabelSelector(s) = sel
    BY <1>3, <2>3, <2>4, NormalAgain
  <2> DEFINE rs == RSSelector(s, Nil)
  <2>6. c.selector = rs /\ c.override = labels
    BY <2>1
  <2>7. rs \in AnyRSSelector /\ rs # Nil /\ rs.shorthand = s
    BY <2>3, NoLabels, PartsMade, Parts DEF RSSelector
  <2> HIDE DEF rs
  <2>8. SetSelector(c.selector) = rs
    BY <2>3, <2>6, <2>7, SelectorSet
  <2>9. r.selector = sel /\ r.override = labels
    BY <1>3, <2>3, <2>5, <2>6, <2>7, <2>8 DEF revertRSSelector
  <2>10. WrittenSelector(r.selector) = sel
    BY <1>3, <2>9, SelectorWritten
  <2> QED
    BY <2>9, <2>10
<1> QED
  BY <1>1, <1>2, <1>3

\* A normal document comes back from Short as it was.
LEMMA NormalTrip ==
  ASSUME NEW d \in AnyKube, Normal(d), ~IsBlank(d.selector), d.kind = "rc" => d.selector = Nil,
         NEW k \in Convert(d), NEW e \in Revert(k)
  PROVE  e = d
<1>1. d = KubeRecord(d.kind, d.selector, d.template) /\ KubeParts(d.kind, d.selector, d.template)
  BY KubeFields
<1>2. d.kind \in Kinds /\ d.selector \in AnySelector \cup {Nil} /\ (d.selector # Nil => NormalSelector(d.selector))
  BY <1>1 DEF KubeParts, Normal
<1>3. k \in AnyKoki /\ k.kind = d.kind
  BY NormalJoins, Converts
<1>4. CASE d.kind \in {"controller", "job"}
  <2>1. d.template \in AnyTemplate /\ NormalLabels(d.selector, d.template.labels)
    BY <1>1, <1>4 DEF KubeParts, Normal
  <2>2. /\ d.template.labels \in AnyLabels /\ d.template.labels = Written(d.template.labels)
        /\ d.selector = Nil => d.template.labels = Nil
        /\ d.template = Template(d.template.labels, d.template.annotated, d.template.spec)
    BY <2>1, Parts DEF NormalLabels, Template
  <2>3. k \in ConvertController(d)
    BY <1>4, Prepares
  <2>4. PICK c \in convertRSLabelSelector(d.selector, d.template.labels), meta \in AnyMeta \cup {Nil} :
          /\ k = KokiRecord(d.kind, SetSelector(c.selector), meta, d.template.spec)
          /\ MetaLabels(meta) = Written(c.override) /\ Annotated(meta) = d.template.annotated
    BY <1>4, <2>3, NormalJoins, ConvertedController
  <2>5. k.selector = SetSelector(c.selector) /\ k.meta = meta /\ k.spec = d.template.spec
    BY <2>4 DEF KokiRecord
  <2>6. e \in RevertController(k)
    BY <1>3, <1>4 DEF Revert
  <2>7. PICK r \in revertRSSelector(k.selector, MetaLabels(k.meta)) :
          e = KubeRecord(k.kind, WrittenSelector(r.selector), Template(Written(r.override), Annotated(k.meta), k.spec))
    BY <1>3, <1>4, <2>6, RevertedController
  <2>8. r \in revertRSSelector(SetSelector(c.selector), Written(c.override))
    BY <2>4, <2>5, <2>7
  <2>9. WrittenSelector(r.selector) = d.selector /\ Written(r.override) = d.template.labels
    BY <1>2, <2>1, <2>2, <2>8, NormalSelectorAgain
  <2> QED
    BY <1>1, <1>3, <2>2, <2>4, <2>5, <2>7, <2>9
<1>5. CASE d.kind = "selecting"
  <2>1. d.template = Nil
    BY <1>1, <1>5 DEF KubeParts
  <2>2. PICK c \in convertRSLabelSelector(d.selector, Nil) : k = KokiRecord(d.kind, SetSelector(c.selector), Nil, FALSE)
    BY <1>5 DEF Convert, ConvertSelecting, KokiRecord
  <2>3. c.override = Nil
    <3>1. d.selector = Nil \/ d.selector.exprs = <<>> => c.override = Nil
      BY DEF convertRSLabelSelector
    <3>2. d.selector # Nil /\ d.selector.exprs # <<>> => c.override = Nil
      BY DEF convertRSLabelSelector
    <3> QED
      BY <3>1, <3>2
  <2>4. PICK r \in revertRSSelector(k.selector, Nil) : e = KubeRecord(k.kind, WrittenSelector(r.selector), Nil)
    BY <1>3, <1>5 DEF Revert, RevertSelecting, KubeDoc, KubeRecord
  <2>5. k.selector = SetSelector(c.selector)
    BY <2>2 DEF KokiRecord
  <2>6. r \in revertRSSelector(SetSelector(c.selector), Written(c.override))
    BY <2>3, <2>4, <2>5, NoLabels
  <2>7. WrittenSelector(r.selector) = d.selector
    BY <1>2, <2>6, NoLabels, NormalSelectorAgain
  <2> QED
    BY <1>1, <1>3, <2>1, <2>4, <2>7
<1>6. CASE d.kind = "rc"
  <2> DEFINE meta == IF d.template = Nil THEN Nil ELSE Meta(Written(d.template.labels), d.template.annotated)
             spec == d.template # Nil /\ d.template.spec
             t == revertTemplate(meta, spec)
  <2>1. k = KokiRecord(d.kind, Nil, meta, spec)
    BY <1>6 DEF Convert, ConvertRC, KokiRecord
  <2>2. k.selector = Nil /\ k.meta = meta /\ k.spec = spec
    BY <2>1 DEF KokiRecord
  <2>3. /\ d.template # Nil =>
             /\ d.template = Template(d.template.labels, d.template.annotated, d.template.spec)
             /\ d.template.labels \in AnyLabels /\ d.template.labels = Written(d.template.labels)
             /\ d.template.annotated \in BOOLEAN /\ d.template.spec \in BOOLEAN
    BY <1>1, <1>6, Parts DEF KubeParts, Normal, Template
  <2>4. t = d.template
    <3>1. CASE d.template = Nil
      BY <3>1 DEF revertTemplate
    <3>2. CASE d.template # Nil
      <4> DEFINE M == Meta(d.template.labels, d.template.annotated)
      <4>1. meta = M /\ spec = d.template.spec
        BY <2>3, <3>2
      <4>2. M \in AnyMeta /\ M # Nil
        BY <2>3, <3>2, PartsMade, Parts
      <4>3. M.labels = d.template.labels /\ M.annotated = d.template.annotated
        BY DEF Meta
      <4> HIDE DEF M, meta, spec
      <4>4. MetaLabels(M) = d.template.labels /\ Annotated(M) = d.template.annotated
        BY <2>3, <3>2, <4>2, <4>3 DEF MetaLabels, Annotated
      <4>5. t = Template(Written(MetaLabels(M)), Annotated(M), d.template.spec)
        BY <2>3, <3>2, <4>1, <4>2, RevertedTemplate
      <4> QED
        BY <2>3, <3>2, <4>4, <4>5
    <3> QED
      BY <3>1, <3>2
  <2> HIDE DEF meta, spec
  <2>5. t # Nil /\ t.labels = Nil => [t EXCEPT !.labels = Nil] = t
    BY <2>3, <2>4 DEF Template
  <2>6. e = KubeRecord(k.kind, Nil, IF t # Nil /\ t.labels = Nil THEN [t EXCEPT !.labels = Nil] ELSE t)
    BY <1>3, <1>6, <2>2 DEF Revert, RevertRC, KubeDoc, KubeRecord, WrittenSelector
  <2> HIDE DEF t
  <2>7. e = KubeRecord(k.kind, Nil, d.template)
    BY <2>4, <2>5, <2>6
  <2> QED
    BY <1>1, <1>3, <1>6, <2>7
<1> QED
  BY <1>2, <1>4, <1>5, <1>6 DEF Kinds
\* A trip to Short and back is a normal form: the second trip, and any after
\* it, changes nothing of what the first has written.
THEOREM WorkloadsSettle == Spec => []Settles
<1>1. WorkloadsInv => Settles
  <2> SUFFICES ASSUME WorkloadsInv, doc.syntax = "kube", kube \notin {Nil, first}, ~IsBlank(kube.selector),
                      first.syntax = "kube" \/ doc.kind # "rc"
               PROVE  doc = kube
    BY DEF Settles
  <2>1. kube \in AnyKube /\ Normal(kube)
    BY DEF WorkloadsInv, DocsInv
  <2>2. doc = kube \/ \E k \in Convert(kube) : doc \in Revert(k)
    BY DEF WorkloadsInv, History
  <2>3. ASSUME NEW k \in Convert(kube), doc \in Revert(k)
        PROVE  doc = kube
    <3>1. k \in AnyKoki /\ k.kind = kube.kind
      BY <2>1, NormalJoins, Converts
    <3>2. doc.kind = kube.kind
      BY <2>3, <3>1, Reverts
    <3>3. kube.kind = "rc" => kube.selector = Nil
      BY <3>2 DEF WorkloadsInv, NoSelectorOfRC
    <3> QED
      BY <2>1, <2>3, <3>3, NormalTrip
  <2> QED
    BY <2>2, <2>3
<1> QED
  BY <1>1, WorkloadsInvariant, PTL
-----------------------------------------------------------------------------
(***************************************************************************)
(* A trip to Short and back keeps what is selected, and the template.      *)
(***************************************************************************)
\* A selector without its empty labels matches what it matched.
LEMMA WrittenMeaning ==
  ASSUME NEW sel \in AnySelector, NEW labels
  PROVE  Matches(WrittenSelector(sel), labels) <=> Matches(sel, labels)
<1>1. WrittenSelector(sel).exprs = sel.exprs /\ WrittenSelector(sel).labels = Written(sel.labels)
  BY SelectorWritten
<1>2. CASE IsEmpty(sel.labels)
  <2>1. Written(sel.labels) = Nil /\ (sel.labels = Nil \/ DOMAIN sel.labels = {})
    BY <1>2 DEF Written, IsEmpty
  <2> QED
    BY <1>1, <2>1, Zenon DEF Matches
<1>3. CASE ~IsEmpty(sel.labels)
  <2>1. Written(sel.labels) = sel.labels
    BY <1>3 DEF Written
  <2> QED
    BY <1>1, <2>1, Zenon DEF Matches
<1> QED
  BY <1>2, <1>3

\* A selector that has a shorthand can be read back from it; if it is valid
\* and matches anything, it is read as one that matches the same.
LEMMA ShorthandTrip ==
  ASSUME NEW sel \in AnySelector, Joins(sel), NEW s \in UnparseLabelSelector(sel)
  PROVE  /\ s \in Seq(AnySegment) /\ Parses(s)
         /\ WrittenSelector(ParseLabelSelector(s)) \in AnySelector
         /\ NormalSelector(WrittenSelector(ParseLabelSelector(s)))
         /\ ValidSelector(sel) /\ (\E l : Matches(sel, l)) =>
              \A l : Matches(WrittenSelector(ParseLabelSelector(s)), l) <=> Matches(sel, l)
<1>1. \A i \in DOMAIN sel.exprs : Writable(sel.exprs[i])
  BY ShorthandIsWritable
<1>2. s \in Seq(AnySegment) /\ Parses(s)
  BY <1>1, Unparsed
<1>3. /\ ParseLabelSelector(s) \in AnySelector /\ WrittenSelector(ParseLabelSelector(s)) \in AnySelector
      /\ NormalSelector(WrittenSelector(ParseLabelSelector(s)))
  BY <1>2, ParsedSelector
<1>4. ASSUME ValidSelector(sel), NEW l0, Matches(sel, l0), NEW l
      PROVE  Matches(WrittenSelector(ParseLabelSelector(s)), l) <=> Matches(sel, l)
  <2>1. Matches(ParseLabelSelector(s), l) <=> Matches(sel, l)
    BY <1>4, SelectorMeaning
  <2>2. Matches(WrittenSelector(ParseLabelSelector(s)), l) <=> Matches(ParseLabelSelector(s), l)
    BY <1>3, WrittenMeaning
  <2> QED
    BY <2>1, <2>2
<1> QED
  BY <1>2, <1>3, <1>4

\* What is normal is valid.
LEMMA NormalIsValid ==
  ASSUME NEW sel, NormalSelector(sel)
  PROVE  ValidSelector(sel) /\ Joins(sel)
<1>1. \A i \in DOMAIN sel.exprs : NormalRequirement(sel.exprs[i])
  BY DEF NormalSelector
<1>2. ASSUME NEW i \in DOMAIN sel.exprs
      PROVE  ValidRequirement(sel.exprs[i]) /\ sel.exprs[i].op # NoOperator
  <2> DEFINE r == sel.exprs[i]
  <2>1. NormalRequirement(r)
    BY <1>1
  <2> HIDE DEF r
  <2>2. r.op \in Operators /\ (r.op \in {"In", "NotIn"} => r.values # <<>>)
    BY <2>1 DEF NormalRequirement
  <2>3. r.op # NoOperator
    BY <2>2 DEF Operators, NoOperator
  <2> QED
    BY <2>2, <2>3 DEF ValidRequirement, r
<1> QED
  BY <1>2 DEF ValidSelector, Joins

\* The labels a template gives an object.
Given(labels) == IF Written(labels) = Nil THEN <<>> ELSE Written(labels)

\* A valid selector comes back from Short as one that matches the same; a
\* template it matches keeps its labels.
LEMMA ValidSelectorTrip ==
  ASSUME NEW sel \in AnySelector \cup {Nil}, sel # Nil => ValidSelector(sel), ~IsBlank(sel), NEW labels \in AnyLabels,
         NEW labels0, sel # Nil => Matches(sel, labels0),
         NEW c \in convertRSLabelSelector(sel, labels),
         NEW r \in revertRSSelector(SetSelector(c.selector), Written(c.override))
  PROVE  /\ sel # Nil => r.selector \in AnySelector /\ \A l : Matches(r.selector, l) <=> Matches(sel, l)
         /\ sel = Nil => r.selector = IF labels = Nil THEN Nil ELSE LabelSelector(labels, <<>>)
         /\ r.override \in AnyLabels
         /\ (sel # Nil => Matches(sel, Given(labels))) => Written(r.override) = Written(labels)
<1>1. CASE sel = Nil
  <2> DEFINE rs == RSSelector(<<>>, labels)
  <2>1. c.selector = rs /\ c.override = Nil
    BY <1>1 DEF convertRSLabelSelector
  <2>2. rs \in AnyRSSelector /\ rs # Nil /\ rs.shorthand = <<>> /\ rs.labels = labels
    BY PartsMade, Parts DEF RSSelector
  <2> HIDE DEF rs
  <2>3. SetSelector(c.selector) = IF labels = Nil THEN Nil ELSE rs
    BY <2>1, <2>2 DEF SetSelector
  <2>4. CASE labels = Nil
    <3>1. r.selector = Nil /\ r.override = Nil
      BY <2>3, <2>4 DEF revertRSSelector
    <3> QED
      BY <1>1, <2>4, <3>1
  <2>5. CASE labels # Nil
    <3>1. r.selector = LabelSelector(labels, <<>>) /\ r.override = labels
      BY <2>1, <2>2, <2>3, <2>5, NoLabels DEF revertRSSelector
    <3> QED
      BY <1>1, <2>5, <3>1
  <2> QED
    BY <2>4, <2>5
<1>2. CASE sel # Nil /\ sel.exprs = <<>>
  <2>1. sel \in AnySelector /\ sel.labels \in AnyLabels /\ ~IsEmpty(sel.labels)
    BY <1>2, Parts DEF IsBlank
  <2>2. Written(sel.labels) = sel.labels /\ sel.labels # Nil /\ DOMAIN sel.labels # {}
    BY <2>1, WrittenLabels DEF IsEmpty
  <2> DEFINE rs == RSSelector(<<>>, sel.labels)
  <2>3. c.selector = rs /\ c.override = IF sel.labels = labels THEN Nil ELSE labels
    BY <1>2 DEF convertRSLabelSelector
  <2>4. rs \in AnyRSSelector /\ rs # Nil /\ rs.shorthand = <<>> /\ rs.labels = sel.labels
    BY <2>1, PartsMade, Parts DEF RSSelector
  <2> HIDE DEF rs
  <2>5. SetSelector(c.selector) = rs
    BY <2>2, <2>3, <2>4, SelectorSet
  <2>6. /\ r.selector = LabelSelector(sel.labels, <<>>)
        /\ r.override = IF IsEmpty(Written(c.override)) THEN sel.labels ELSE Written(c.override)
    BY <2>4, <2>5 DEF revertRSSelector
  <2>7. r.selector = sel
    BY <1>2, <2>1, <2>6, Parts
  <2>8. Written(c.override) \in AnyLabels /\ r.override \in AnyLabels
    BY <2>1, <2>3, <2>6, NoLabels, WrittenLabels
  <2>9. ASSUME Matches(sel, Given(labels))
        PROVE  Written(r.override) = Written(labels)
    <3>1. Written(labels) # Nil
      <4>1. DOMAIN <<>> = {}
        OBVIOUS
      <4>2. \A k \in DOMAIN sel.labels : k \in DOMAIN Given(labels)
        BY <2>2, <2>9 DEF Matches
      <4> QED
        BY <2>2, <4>1, <4>2 DEF Given
    <3>2. Written(labels) = labels /\ ~IsEmpty(labels)
      BY <3>1, WrittenLabels
    <3>3. CASE sel.labels = labels
      <4>1. Written(c.override) = Nil
        BY <2>3, <3>3, NoLabels
      <4> QED
        BY <2>6, <3>3, <4>1, NoLabels
    <3>4. CASE sel.labels # labels
      <4>1. Written(c.override) = labels
        BY <2>3, <3>2, <3>4
      <4> QED
        BY <2>6, <3>2, <4>1
    <3> QED
      BY <3>3, <3>4
  <2> QED
    BY <1>2, <2>1, <2>7, <2>8, <2>9
<1>3. CASE sel # Nil /\ sel.exprs # <<>>
  <2>0. sel \in AnySelector /\ ValidSelector(sel) /\ Matches(sel, labels0)
    BY <1>3
  <2>1. PICK s \in UnparseLabelSelector(sel) : c = [selector |-> RSSelector(s, Nil), override |-> labels]
    BY <1>3 DEF convertRSLabelSelector
  <2>2. \A i \in DOMAIN sel.exprs : Writable(sel.exprs[i])
    <3> TAKE i \in DOMAIN sel.exprs
    <3>1. sel.exprs[i] \in AnyRequirement /\ ValidRequirement(sel.exprs[i])
      BY <2>0, Parts DEF ValidSelector
    <3> QED
      BY <3>1, RequirementMeaning
  <2>3. s # <<>> /\ s \in Seq(AnySegment) /\ Parses(s)
    BY <1>3, <2>0, <2>2, ShorthandNotEmpty
  <2> DEFINE p == ParseLabelSelector(s)
             rs == RSSelector(s, Nil)
  <2>4. \A l : Matches(p, l) <=> Matches(sel, l)
    BY <2>0, SelectorMeaning
  <2>5. c.selector = rs /\ c.override = labels
    BY <2>1
  <2>6. rs \in AnyRSSelector /\ rs # Nil /\ rs.shorthand = s
    BY <2>3, NoLabels, PartsMade, Parts DEF RSSelector
  <2>7. p \in AnySelector /\ p.exprs = ParseRequirements(s) /\ p.labels \in AnyLabels
    <3>1. ParseLabels(s) \in AnyLabels /\ ParseRequirements(s) \in Seq(AnyRequirement)
      BY <2>3, ParsedLabels, ParsedRequirements
    <3>2. p \in AnySelector
      BY <3>1, PartsMade DEF ParseLabelSelector
    <3>3. p.exprs = ParseRequirements(s)
      BY DEF ParseLabelSelector, LabelSelector
    <3> HIDE DEF p
    <3> QED
      BY <3>2, <3>3, Parts
  <2> HIDE DEF rs
  <2>8. SetSelector(c.selector) = rs
    BY <2>3, <2>5, <2>6, SelectorSet
  <2>9. r.selector = p /\ r.override = IF IsEmpty(Written(labels)) /\ p.exprs = <<>> THEN p.labels ELSE Written(labels)
    BY <2>3, <2>5, <2>6, <2>8 DEF revertRSSelector
  <2> HIDE DEF p
  <2>10. Written(labels) \in AnyLabels /\ Written(Written(labels)) = Written(labels) /\ r.override \in AnyLabels
    BY <2>7, <2>9, WrittenLabels
  <2>11. ASSUME Matches(sel, Given(labels)), IsEmpty(Written(labels)), p.exprs = <<>>
         PROVE  FALSE
    <3>1. Given(labels) = <<>> /\ DOMAIN <<>> = {}
      BY <2>10, <2>11, WrittenLabels DEF Given
    <3>2. \A i \in DOMAIN s : SegmentHolds(s[i], <<>>)
      BY <2>0, <2>11, <3>1, SelectorMeaning
    <3>3. 1 \in DOMAIN s
      BY <2>3
    <3>4. IsLabel(s[1])
      <4>1. \A q : (\E i \in DOMAIN ParseRequirements(s) : q = ParseRequirements(s)[i])
                     <=> \E i \in DOMAIN s : ~IsLabel(s[i]) /\ q = ParseRequirement(s[i])
        BY <2>3, ParsedRequirements
      <4>2. DOMAIN ParseRequirements(s) = {}
        BY <2>7, <2>11, <3>1
      <4>3. ~\E i \in DOMAIN ParseRequirements(s) : ParseRequirement(s[1]) = ParseRequirements(s)[i]
        BY <4>2
      <4>4. ~\E i \in DOMAIN s : ~IsLabel(s[i]) /\ ParseRequirement(s[1]) = ParseRequirement(s[i])
        BY <4>1, <4>3, Zenon
      <4> QED
        BY <3>3, <4>4
    <3>5. s[1].key \in DOMAIN <<>>
      BY <3>2, <3>3, <3>4 DEF SegmentHolds
    <3> QED
      BY <3>1, <3>5
  <2> QED
    BY <1>3, <2>4, <2>7, <2>9, <2>10, <2>11
<1> QED
  BY <1>1, <1>2, <1>3
\* What a document selects by.
Selector(d) == IF d.selector # Nil THEN d.selector ELSE LabelSelector(TemplateLabels(d), <<>>)

\* Documents select the same if their selectors match the same.
LEMMA SelectedBySelector ==
  ASSUME NEW d, NEW e, \A l : Matches(Selector(e), l) <=> Matches(Selector(d), l)
  PROVE  Selected(e) = Selected(d)
<1>1. Selected(d) = {l \in Labelings : Matches(Selector(d), l)} /\ Selected(e) = {l \in Labelings : Matches(Selector(e), l)}
  BY DEF Selected, Selector
<1> HIDE DEF Selector
<1> QED
  BY <1>1

\* A manifest that is valid.
LEMMA ValidParts ==
  ASSUME NEW d \in AnyKube, Valid(d)
  PROVE  /\ ~IsBlank(d.selector)
         /\ d.selector # Nil => ValidSelector(d.selector) /\ \E l : Matches(d.selector, l)
         /\ d.selector # Nil /\ d.kind \in {"controller", "job"} => Matches(d.selector, Given(d.template.labels))
         /\ Joins(d.selector)
<1>1. ~IsBlank(d.selector) /\ Selected(d) # {}
  BY DEF Valid
<1>2. d.selector # Nil => ValidSelector(d.selector)
  BY DEF Valid, ValidSelector, ValidRequirement
<1>3. \A l \in Selected(d) : d.selector # Nil => Matches(d.selector, l)
  BY DEF Selected
<1>4. ASSUME d.selector # Nil, d.kind \in {"controller", "job"}
      PROVE  Matches(d.selector, Given(d.template.labels))
  <2>1. KubeParts(d.kind, d.selector, d.template)
    BY KubeFields
  <2>2. d.template # Nil
    BY <1>4, <2>1, Parts DEF KubeParts
  <2>3. Given(d.template.labels) \in Selected(d)
    BY <1>4, <2>2 DEF Valid, TemplateLabels, Given
  <2> QED
    BY <1>3, <1>4, <2>3
<1>5. Joins(d.selector)
  <2>1. d.selector # Nil => \A i \in DOMAIN d.selector.exprs : d.selector.exprs[i].op \in Operators
    BY DEF Valid
  <2>2. NoOperator \notin Operators
    BY DEF NoOperator, Operators
  <2> QED
    BY <2>1, <2>2, Zenon DEF Joins
<1> QED
  BY <1>1, <1>2, <1>3, <1>4, <1>5

\* A valid document comes back from Short with what it selected, and with the
\* labels of its template.
LEMMA ValidTrip ==
  ASSUME NEW d \in AnyKube, Valid(d), NEW k \in Convert(d), NEW e \in Revert(k)
  PROVE  Selected(e) = Selected(d) /\ TemplateLabels(e) = TemplateLabels(d)
<1>1. d = KubeRecord(d.kind, d.selector, d.template) /\ KubeParts(d.kind, d.selector, d.template)
  BY KubeFields
<1>2. d.kind \in Kinds /\ d.selector \in AnySelector \cup {Nil}
  BY <1>1 DEF KubeParts
<1>3. k \in AnyKoki /\ k.kind = d.kind
  BY ValidParts, Converts
<1>4. CASE d.kind \in {"controller", "job"}
  <2> DEFINE p == Prepared(d)
  <2>1. /\ p \in AnyKube /\ p.kind = d.kind /\ Convert(d) = ConvertController(p)
        /\ p.selector = Nil <=> d.selector = Nil
        /\ d.selector # Nil => p.selector.exprs = d.selector.exprs /\ Written(p.selector.labels) = Written(d.selector.labels)
        /\ Written(p.template.labels) = Written(d.template.labels)
    BY <1>4, Prepares
  <2> HIDE DEF p
  <2>2. KubeParts(p.kind, p.selector, p.template) /\ d.template \in AnyTemplate
    BY <1>1, <1>4, <2>1, KubeFields DEF KubeParts
  <2>3. p.selector \in AnySelector \cup {Nil} /\ p.template \in AnyTemplate
    BY <1>4, <2>1, <2>2 DEF KubeParts
  <2>4. p.template.labels \in AnyLabels /\ p.template.spec \in BOOLEAN /\ d.template # Nil
    BY <2>2, <2>3, Parts
  <2>5. TemplateLabels(d) = Written(p.template.labels)
    BY <2>1, <2>4 DEF TemplateLabels
  <2>6. ASSUME d.selector # Nil
        PROVE  \A l : Matches(p.selector, l) <=> Matches(d.selector, l)
    <3>1. WrittenSelector(p.selector) = WrittenSelector(d.selector)
      BY <2>1, <2>6 DEF WrittenSelector
    <3>2. p.selector \in AnySelector /\ d.selector \in AnySelector
      BY <1>2, <2>1, <2>3, <2>6
    <3> QED
      BY <3>1, <3>2, WrittenMeaning
  <2>7. /\ p.selector # Nil => ValidSelector(p.selector) /\ \E l : Matches(p.selector, l)
        /\ p.selector # Nil => Matches(p.selector, Given(p.template.labels))
    <3>1. p.selector # Nil => ValidSelector(p.selector)
      BY <2>1, ValidParts DEF ValidSelector
    <3>2. Given(p.template.labels) = Given(d.template.labels)
      BY <2>1 DEF Given
    <3> QED
      BY <1>4, <2>1, <2>6, <3>1, <3>2, ValidParts
  <2>8. ~IsBlank(p.selector)
    <3>1. p.selector # Nil => p.selector.labels \in AnyLabels /\ d.selector.labels \in AnyLabels
      BY <1>2, <2>1, <2>3, Parts
    <3>2. p.selector # Nil => (IsEmpty(p.selector.labels) <=> IsEmpty(d.selector.labels))
      BY <2>1, <3>1, WrittenLabels
    <3> QED
      BY <2>1, <3>2, ValidParts DEF IsBlank
  <2>9. Joins(p.selector)
    BY <2>1, ValidParts, Zenon DEF Joins
  <2>10. PICK c \in convertRSLabelSelector(p.selector, p.template.labels), meta \in AnyMeta \cup {Nil} :
           /\ k = KokiRecord(p.kind, SetSelector(c.selector), meta, p.template.spec)
           /\ MetaLabels(meta) = Written(c.override) /\ Annotated(meta) = p.template.annotated
    BY <1>4, <2>1, <2>9, ConvertedController
  <2>11. k.selector = SetSelector(c.selector) /\ k.meta = meta
    BY <2>10 DEF KokiRecord
  <2>12. PICK r \in revertRSSelector(k.selector, MetaLabels(k.meta)) :
           e = KubeRecord(k.kind, WrittenSelector(r.selector), Template(Written(r.override), Annotated(k.meta), k.spec))
    BY <1>3, <1>4, RevertedController DEF Revert
  <2>13. r \in revertRSSelector(SetSelector(c.selector), Written(c.override))
    BY <2>10, <2>11, <2>12
  <2>14. PICK labels0 : p.selector # Nil => Matches(p.selector, labels0)
    BY <2>7
  <2>15. /\ p.selector # Nil => r.selector \in AnySelector /\ \A l : Matches(r.selector, l) <=> Matches(p.selector, l)
         /\ p.selector = Nil => r.selector = IF p.template.labels = Nil THEN Nil ELSE LabelSelector(p.template.labels, <<>>)
         /\ r.override \in AnyLabels
         /\ Written(r.override) = Written(p.template.labels)
    <3> DEFINE sel == p.selector
               labels == p.template.labels
    <3>1. /\ sel \in AnySelector \cup {Nil} /\ (sel # Nil => ValidSelector(sel)) /\ ~IsBlank(sel) /\ labels \in AnyLabels
          /\ sel # Nil => Matches(sel, labels0)
          /\ sel # Nil => Matches(sel, Given(labels))
          /\ c \in convertRSLabelSelector(sel, labels)
      BY <2>3, <2>4, <2>7, <2>8, <2>14
    <3> HIDE DEF sel, labels
    <3>2. /\ sel # Nil => r.selector \in AnySelector /\ \A l : Matches(r.selector, l) <=> Matches(sel, l)
          /\ sel = Nil => r.selector = IF labels = Nil THEN Nil ELSE LabelSelector(labels, <<>>)
          /\ r.override \in AnyLabels
          /\ Written(r.override) = Written(labels)
      BY <2>13, <3>1, ValidSelectorTrip
    <3> QED
      BY <3>2 DEF sel, labels
  <2>16. e.selector = WrittenSelector(r.selector) /\ e.template.labels = Written(r.override) /\ e.template # Nil
    <3>1. e.selector = WrittenSelector(r.selector) /\ e.template = Template(Written(r.override), Annotated(k.meta), k.spec)
      BY <2>12 DEF KubeRecord
    <3>2. e.template.labels = Written(r.override)
      BY <3>1 DEF Template
    <3>3. e.template # Nil
      <4>1. e \in AnyKube /\ e.kind = k.kind
        BY <1>3, Reverts
      <4>2. KubeParts(e.kind, e.selector, e.template)
        BY <4>1, KubeFields
      <4> QED
        BY <1>3, <1>4, <4>1, <4>2, Parts DEF KubeParts
    <3> QED
      BY <3>1, <3>2, <3>3
  <2>17. TemplateLabels(e) = TemplateLabels(d)
    <3>1. TemplateLabels(e) = Written(Written(r.override))
      BY <2>16 DEF TemplateLabels
    <3>2. Written(Written(r.override)) = Written(r.override)
      BY <2>15, WrittenLabels
    <3> QED
      BY <2>5, <2>15, <3>1, <3>2
  <2>18. \A l : Matches(Selector(e), l) <=> Matches(Selector(d), l)
    <3>1. CASE d.selector # Nil
      <4>1. r.selector \in AnySelector /\ \A l : Matches(r.selector, l) <=> Matches(d.selector, l)
        BY <2>1, <2>6, <2>15, <3>1
      <4>2. WrittenSelector(r.selector) # Nil
        BY <4>1, SelectorWritten, Parts
      <4>3. \A l : Matches(WrittenSelector(r.selector), l) <=> Matches(r.selector, l)
        BY <4>1, WrittenMeaning
      <4>4. Selector(e) = WrittenSelector(r.selector) /\ Selector(d) = d.selector
        BY <2>16, <3>1, <4>2 DEF Selector
      <4> QED
        BY <4>1, <4>3, <4>4
    <3>2. CASE d.selector = Nil
      <4>1. Selector(d) = LabelSelector(TemplateLabels(d), <<>>)
        BY <3>2 DEF Selector
      <4>2. CASE p.template.labels = Nil
        <5>1. e.selector = Nil
          BY <2>1, <2>15, <2>16, <3>2, <4>2 DEF WrittenSelector
        <5>2. Selector(e) = LabelSelector(TemplateLabels(e), <<>>)
          BY <5>1 DEF Selector
        <5> QED
          BY <2>17, <4>1, <5>2
      <4>3. CASE p.template.labels # Nil
        <5>1. r.selector = LabelSelector(p.template.labels, <<>>)
          BY <2>1, <2>15, <3>2, <4>3
        <5>2. r.selector \in AnySelector /\ r.selector.labels = p.template.labels /\ r.selector.exprs = <<>>
          BY <2>4, <5>1, PartsMade DEF LabelSelector
        <5>3. e.selector # Nil
          BY <2>16, <5>2, SelectorWritten, Parts
        <5>4. e.selector = LabelSelector(Written(p.template.labels), <<>>)
          BY <2>16, <5>2, Parts DEF WrittenSelector
        <5>5. Selector(e) = Selector(d)
          BY <2>5, <4>1, <5>3, <5>4 DEF Selector
        <5> QED
          BY <5>5
      <4> QED
        BY <4>2, <4>3
    <3> QED
      BY <3>1, <3>2
  <2> QED
    BY <2>17, <2>18, SelectedBySelector
<1>5. CASE d.kind = "selecting"
  <2>1. d.template = Nil
    BY <1>1, <1>5 DEF KubeParts
  <2>2. PICK c \in convertRSLabelSelector(d.selector, Nil) : k = KokiRecord(d.kind, SetSelector(c.selector), Nil, FALSE)
    BY <1>5 DEF Convert, ConvertSelecting, KokiRecord
  <2>3. c.override = Nil
    <3>1. d.selector = Nil \/ d.selector.exprs = <<>> => c.override = Nil
      BY DEF convertRSLabelSelector
    <3>2. d.selector # Nil /\ d.selector.exprs # <<>> => c.override = Nil
      BY DEF convertRSLabelSelector
    <3> QED
      BY <3>1, <3>2
  <2>4. PICK r \in revertRSSelector(k.selector, Nil) : e = KubeRecord(k.kind, WrittenSelector(r.selector), Nil)
    BY <1>3, <1>5 DEF Revert, RevertSelecting, KubeDoc, KubeRecord
  <2>5. k.selector = SetSelector(c.selector)
    BY <2>2 DEF KokiRecord
  <2>6. r \in revertRSSelector(SetSelector(c.selector), Written(c.override))
    BY <2>3, <2>4, <2>5, NoLabels
  <2>7. PICK labels0 : d.selector # Nil => Matches(d.selector, labels0)
    BY ValidParts
  <2>8. /\ d.selector # Nil => r.selector \in AnySelector /\ \A l : Matches(r.selector, l) <=> Matches(d.selector, l)
        /\ d.selector = Nil => r.selector = Nil
    BY <1>2, <2>6, <2>7, NoLabels, ValidParts, ValidSelectorTrip
  <2>9. e.selector = WrittenSelector(r.selector) /\ e.template = Nil
    BY <2>4 DEF KubeRecord
  <2>10. TemplateLabels(e) = TemplateLabels(d)
    BY <2>1, <2>9 DEF TemplateLabels
  <2>11. \A l : Matches(Selector(e), l) <=> Matches(Selector(d), l)
    <3>1. CASE d.selector # Nil
      <4>1. e.selector # Nil
        BY <2>8, <2>9, <3>1, SelectorWritten, Parts
      <4>2. \A l : Matches(WrittenSelector(r.selector), l) <=> Matches(r.selector, l)
        BY <2>8, <3>1, WrittenMeaning
      <4>3. Selector(e) = WrittenSelector(r.selector) /\ Selector(d) = d.selector
        BY <2>9, <3>1, <4>1 DEF Selector
      <4> QED
        BY <2>8, <3>1, <4>2, <4>3
    <3>2. CASE d.selector = Nil
      <4>1. e.selector = Nil
        BY <2>8, <2>9, <3>2 DEF WrittenSelector
      <4>2. Selector(e) = Selector(d)
        BY <2>10, <3>2, <4>1 DEF Selector
      <4> QED
        BY <4>2
    <3> QED
      BY <3>1, <3>2
  <2> QED
    BY <2>10, <2>11, SelectedBySelector
<1>6. CASE d.kind = "rc"
  <2> DEFINE meta == IF d.template = Nil THEN Nil ELSE Meta(Written(d.template.labels), d.template.annotated)
             spec == d.template # Nil /\ d.template.spec
             t == revertTemplate(meta, spec)
  <2>1. k = KokiRecord(d.kind, Nil, meta, spec)
    BY <1>6 DEF Convert, ConvertRC, KokiRecord
  <2>2. k.selector = Nil /\ k.meta = meta /\ k.spec = spec /\ meta \in AnyMeta \cup {Nil} /\ spec \in BOOLEAN
    <3>1. k.selector = Nil /\ k.meta = meta /\ k.spec = spec
      BY <2>1 DEF KokiRecord
    <3>2. k.meta \in AnyMeta \cup {Nil} /\ k.spec \in BOOLEAN
      BY <1>3, KokiFields
    <3> QED
      BY <3>1, <3>2
  <2>3. e = KubeRecord(k.kind, Nil, IF t # Nil /\ t.labels = Nil THEN [t EXCEPT !.labels = Nil] ELSE t)
    BY <1>3, <1>6, <2>2 DEF Revert, RevertRC, KubeDoc, KubeRecord, WrittenSelector
  <2>4. t \in AnyTemplate \cup {Nil} /\ (t # Nil => t = Template(Written(MetaLabels(meta)), Annotated(meta), spec))
    BY <2>2, RevertedTemplate
  <2>5. d.template # Nil => d.template.labels \in AnyLabels /\ d.template.annotated \in BOOLEAN
    BY <1>1, <1>6, Parts DEF KubeParts
  <2>6. MetaLabels(meta) = TemplateLabels(d) /\ (meta = Nil => d.template = Nil)
    <3>1. CASE d.template = Nil
      BY <3>1 DEF MetaLabels, TemplateLabels
    <3>2. CASE d.template # Nil
      <4> DEFINE M == Meta(Written(d.template.labels), d.template.annotated)
      <4>1. meta = M /\ M # Nil /\ M.labels = Written(d.template.labels)
        <5>1. M \in AnyMeta
          BY <2>5, <3>2, WrittenLabels, PartsMade
        <5> QED
          BY <3>2, <5>1, Parts DEF Meta
      <4> HIDE DEF M, meta
      <4> QED
        BY <3>2, <4>1 DEF MetaLabels, TemplateLabels
    <3> QED
      BY <3>1, <3>2
  <2>7. t = Nil => d.template = Nil
    BY <2>2, <2>6, RevertedTemplate
  <2>8. Written(TemplateLabels(d)) = TemplateLabels(d)
    BY <2>5, NoLabels, WrittenLabels DEF TemplateLabels
  <2> HIDE DEF meta, spec
  <2>9. t # Nil => t.labels = TemplateLabels(d)
    BY <2>4, <2>6, <2>8 DEF Template
  <2>10. t # Nil /\ t.labels = Nil => [t EXCEPT !.labels = Nil] = t
    BY <2>4 DEF Template
  <2> HIDE DEF t
  <2>11. e = KubeRecord(k.kind, Nil, t)
    BY <2>3, <2>10
  <2>12. e.selector = Nil /\ e.template = t
    BY <2>11 DEF KubeRecord
  <2>13. TemplateLabels(e) = TemplateLabels(d)
    <3>1. CASE t = Nil
      BY <2>7, <2>12, <3>1 DEF TemplateLabels
    <3>2. CASE t # Nil
      <4>1. TemplateLabels(e) = Written(t.labels)
        BY <2>12, <3>2 DEF TemplateLabels
      <4> QED
        BY <2>8, <2>9, <3>2, <4>1
    <3> QED
      BY <3>1, <3>2
  <2>14. Selector(e) = Selector(d)
    <3>1. Selector(e) = LabelSelector(TemplateLabels(d), <<>>)
      BY <2>12, <2>13 DEF Selector
    <3>2. CASE d.selector = Nil
      BY <3>1, <3>2 DEF Selector
    <3>3. CASE d.selector # Nil
      <4>1. d.selector.exprs = <<>>
        BY <1>1, <1>6, <3>3 DEF KubeParts
      <4>2. d.selector.labels = TemplateLabels(d)
        BY <1>6, <3>3 DEF Valid
      <4>3. d.selector = LabelSelector(d.selector.labels, d.selector.exprs)
        BY <1>2, <3>3, Parts
      <4> QED
        BY <3>1, <3>3, <4>1, <4>2, <4>3 DEF Selector
    <3> QED
      BY <3>2, <3>3
  <2> QED
    BY <2>13, <2>14, SelectedBySelector
<1> QED
  BY <1>2, <1>4, <1>5, <1>6 DEF Kinds

\* A manifest that is converted to Short and back selects what it selected,
\* and its template has the labels it had, though labels were moved, and
\* expressions written as text and parsed.
THEOREM WorkloadsKeepTheirMeaning == Spec => []KeepsMeaning
<1>1. WorkloadsInv => KeepsMeaning
  <2> SUFFICES ASSUME WorkloadsInv, doc.syntax = "kube", kube # Nil, Valid(kube)
               PROVE  Selected(doc) = Selected(kube) /\ TemplateLabels(doc) = TemplateLabels(kube)
    BY DEF KeepsMeaning
  <2>1. kube \in AnyKube
    BY DEF WorkloadsInv, DocsInv
  <2>2. doc = kube \/ \E k \in Convert(kube) : doc \in Revert(k)
    BY DEF WorkloadsInv, History
  <2>3. ASSUME NEW k \in Convert(kube), doc \in Revert(k)
        PROVE  Selected(doc) = Selected(kube) /\ TemplateLabels(doc) = TemplateLabels(kube)
    BY <2>1, <2>3, ValidTrip
  <2> QED
    BY <2>2, <2>3
<1> QED
  BY <1>1, WorkloadsInvariant, PTL
=============================================================================
