--------------------------- MODULE SequenceFacts ---------------------------
(***************************************************************************)
(* Facts about sequences that the proofs of several modules need: what     *)
(* FlattenSeq makes of a sequence that has one more element.               *)
(***************************************************************************)
EXTENDS Integers, Sequences, SequencesExt, SequenceTheorems, WellFoundedInduction, TLAPS

\* Induction over the natural numbers, for a set of numbers: the naturals
\* are well founded, so there is no least number outside it.
LEMMA InductionOnSet ==
  ASSUME NEW S, 0 \in S, \A n \in Nat : n \in S => n + 1 \in S
  PROVE  Nat \subseteq S
<1> DEFINE T == Nat \ S
<1> SUFFICES ASSUME T # {} PROVE FALSE
  OBVIOUS
<1>1. PICK x \in T : \A y \in T : ~(<<y, x>> \in OpToRel(<, Nat))
  BY NatLessThanWellFounded, WFMin, Zenon
<1>2. x \in Nat /\ x # 0
  BY <1>1, Zenon
<1>3. x - 1 \in Nat /\ x - 1 \in S
  <2>1. x - 1 \in Nat /\ x - 1 < x
    BY <1>2
  <2>2. <<x - 1, x>> \in OpToRel(<, Nat)
    BY <1>2, <2>1, Zenon DEF OpToRel
  <2> QED
    BY <2>1, <2>2, <1>1, Zenon
<1>4. (x - 1) + 1 = x
  BY <1>2
<1>5. x \in S
  BY <1>3, <1>4
<1> QED
  BY <1>1, <1>5, Zenon

-----------------------------------------------------------------------------
\* The function inside FlattenSeq: is f the flattening of every prefix of s
\* up to n?
IsFlattening(f, s, n) == f = [i \in 1..n |-> IF i = 1 THEN s[i] ELSE f[i-1] \o s[i]]

\* There is one, built along the prefixes.
LEMMA FlatteningExists ==
  ASSUME NEW s, NEW n \in Nat
  PROVE  \E f : IsFlattening(f, s, n)
<1> DEFINE S == {k \in Nat : \E f : IsFlattening(f, s, k)}
<1>1. 0 \in S
  <2> DEFINE f == [i \in 1..0 |-> s[i]]
  <2>1. f = [i \in 1..0 |-> IF i = 1 THEN s[i] ELSE f[i-1] \o s[i]]
    OBVIOUS
  <2> QED
    BY <2>1 DEF IsFlattening
<1>2. ASSUME NEW k \in Nat, k \in S
      PROVE  k + 1 \in S
  <2>1. PICK f : f = [i \in 1..k |-> IF i = 1 THEN s[i] ELSE f[i-1] \o s[i]]
    BY <1>2 DEF IsFlattening
  <2> DEFINE g == [i \in 1..k+1 |-> IF i \in 1..k THEN f[i] ELSE IF i = 1 THEN s[i] ELSE f[i-1] \o s[i]]
  <2>2. ASSUME NEW i \in 1..k+1
        PROVE  g[i] = IF i = 1 THEN s[i] ELSE g[i-1] \o s[i]
    <3>1. CASE i = 1
      BY <3>1, <2>1
    <3>2. CASE i # 1 /\ i \in 1..k
      <4>1. i - 1 \in 1..k /\ i - 1 \in 1..k+1
        BY <3>2
      <4>2. f[i] = f[i-1] \o s[i]
        BY <3>2, <2>1
      <4>3. g[i] = f[i] /\ g[i-1] = f[i-1]
        BY <3>2, <4>1
      <4> QED
        BY <3>2, <4>2, <4>3
    <3>3. CASE i # 1 /\ i \notin 1..k
      <4>1. i - 1 \in 1..k /\ i - 1 \in 1..k+1
        BY <3>3
      <4> QED
        BY <3>3, <4>1
    <3> QED
      BY <3>1, <3>2, <3>3
  <2>3. IsFlattening(g, s, k + 1)
    BY <2>2 DEF IsFlattening
  <2> QED
    BY <2>3
<1> QED
  BY <1>1, <1>2, InductionOnSet

\* And two of them agree.
LEMMA FlatteningUnique ==
  ASSUME NEW s, NEW n \in Nat, NEW f, NEW g, IsFlattening(f, s, n), IsFlattening(g, s, n + 1)
  PROVE  \A i \in 1..n : f[i] = g[i]
<1> DEFINE S == {k \in Nat : k \in 1..n => f[k] = g[k]}
<1>1. 0 \in S
  OBVIOUS
<1>2. ASSUME NEW k \in Nat, k \in S
      PROVE  k + 1 \in S
  <2> SUFFICES ASSUME k + 1 \in 1..n
               PROVE  f[k + 1] = g[k + 1]
    OBVIOUS
  <2>1. /\ f[k + 1] = IF k + 1 = 1 THEN s[k + 1] ELSE f[(k + 1) - 1] \o s[k + 1]
        /\ g[k + 1] = IF k + 1 = 1 THEN s[k + 1] ELSE g[(k + 1) - 1] \o s[k + 1]
    <3>1. k + 1 \in 1..n + 1
      OBVIOUS
    <3> QED
      BY <3>1 DEF IsFlattening
  <2>2. k + 1 # 1 => k \in 1..n /\ (k + 1) - 1 = k
    OBVIOUS
  <2> QED
    BY <2>1, <2>2, <1>2
<1>3. Nat \subseteq S
  <2> HIDE DEF S
  <2> QED
    BY <1>1, <1>2, InductionOnSet
<1> QED
  BY <1>3

\* What FlattenSeq computes.
LEMMA FlattenSeqDefined ==
  ASSUME NEW s, Len(s) \in Nat, Len(s) # 0
  PROVE  \E f : IsFlattening(f, s, Len(s)) /\ FlattenSeq(s) = f[Len(s)]
<1> DEFINE f == CHOOSE g : g = [i \in 1..Len(s) |-> IF i = 1 THEN s[i] ELSE g[i-1] \o s[i]]
<1>1. \E g : g = [i \in 1..Len(s) |-> IF i = 1 THEN s[i] ELSE g[i-1] \o s[i]]
  BY FlatteningExists DEF IsFlattening
<1>2. f = [i \in 1..Len(s) |-> IF i = 1 THEN s[i] ELSE f[i-1] \o s[i]]
  BY <1>1
<1>3. FlattenSeq(s) = f[Len(s)]
  BY DEF FlattenSeq
<1> QED
  BY <1>2, <1>3 DEF IsFlattening

\* Nothing becomes nothing.
LEMMA FlattenSeqEmpty == FlattenSeq(<<>>) = <<>>
  BY DEF FlattenSeq

\* One more sequence is appended to what there is.
LEMMA FlattenSeqAppend ==
  ASSUME NEW T, NEW s \in Seq(Seq(T)), NEW x \in Seq(T)
  PROVE  FlattenSeq(Append(s, x)) = FlattenSeq(s) \o x
<1> DEFINE t == Append(s, x)
           n == Len(s)
<1>1. /\ n \in Nat /\ Len(t) = n + 1 /\ t[n + 1] = x
      /\ \A i \in 1..n : t[i] = s[i]
  OBVIOUS
<1>0. n = Len(s)
  OBVIOUS
<1> HIDE DEF t, n
<1>2. PICK g : IsFlattening(g, t, n + 1) /\ FlattenSeq(t) = g[n + 1]
  BY <1>1, FlattenSeqDefined
<1>3. CASE n = 0
  <2>1. g[1] = t[1]
    BY <1>1, <1>2, <1>3 DEF IsFlattening
  <2>2. s = <<>>
    BY <1>0, <1>3, EmptySeq, Zenon
  <2>3. <<>> \o x = x
    OBVIOUS
  <2> QED
    BY <2>1, <2>2, <2>3, <1>1, <1>2, <1>3, FlattenSeqEmpty DEF t
<1>4. CASE n # 0
  <2>1. PICK f : IsFlattening(f, s, n) /\ FlattenSeq(s) = f[n]
    BY <1>0, <1>1, <1>4, FlattenSeqDefined
  <2>2. IsFlattening(f, t, n)
    <3>1. f = [i \in 1..n |-> IF i = 1 THEN s[i] ELSE f[i-1] \o s[i]]
      BY <2>1 DEF IsFlattening
    <3>2. [i \in 1..n |-> IF i = 1 THEN s[i] ELSE f[i-1] \o s[i]] = [i \in 1..n |-> IF i = 1 THEN t[i] ELSE f[i-1] \o t[i]]
      BY <1>1
    <3> QED
      BY <3>1, <3>2 DEF IsFlattening
  <2>3. f[n] = g[n]
    <3>1. n \in Nat /\ n \in 1..n
      BY <1>1, <1>4
    <3>2. IsFlattening(f, t, n) /\ IsFlattening(g, t, n + 1)
      BY <1>2, <2>2, Zenon
    <3>3. \A i \in 1..n : f[i] = g[i]
      BY <3>1, <3>2, FlatteningUnique
    <3> QED
      BY <3>1, <3>3
  <2>4. g[n + 1] = g[n] \o x
    <3>1. n + 1 \in 1..n + 1 /\ n + 1 # 1 /\ (n + 1) - 1 = n
      BY <1>1, <1>4
    <3>2. g[n + 1] = g[(n + 1) - 1] \o t[n + 1]
      BY <3>1, <1>2 DEF IsFlattening
    <3> QED
      BY <3>1, <3>2, <1>1
  <2> QED
    BY <1>2, <2>1, <2>3, <2>4 DEF t
<1> QED
  BY <1>3, <1>4

\* The flattening of a prefix that is one longer.
LEMMA FlattenSeqPrefix ==
  ASSUME NEW T, NEW s \in Seq(Seq(T)), NEW n \in 0..Len(s) - 1
  PROVE  FlattenSeq(SubSeq(s, 1, n + 1)) = FlattenSeq(SubSeq(s, 1, n)) \o s[n + 1]
<1>1. /\ SubSeq(s, 1, n) \in Seq(Seq(T)) /\ s[n + 1] \in Seq(T)
      /\ SubSeq(s, 1, n + 1) = Append(SubSeq(s, 1, n), s[n + 1])
  OBVIOUS
<1> QED
  BY <1>1, FlattenSeqAppend

\* Two sequences of elements of T make one.
LEMMA ConcatType ==
  ASSUME NEW T, NEW s \in Seq(T), NEW t \in Seq(T)
  PROVE  s \o t \in Seq(T)
OBVIOUS

\* Sequences of elements of T become one.
LEMMA FlattenSeqType ==
  ASSUME NEW T, NEW s \in Seq(Seq(T))
  PROVE  FlattenSeq(s) \in Seq(T)
<1> DEFINE S == {n \in Nat : n <= Len(s) => FlattenSeq(SubSeq(s, 1, n)) \in Seq(T)}
<1>1. 0 \in S
  <2>1. SubSeq(s, 1, 0) = <<>>
    OBVIOUS
  <2>2. <<>> \in Seq(T)
    OBVIOUS
  <2>3. FlattenSeq(SubSeq(s, 1, 0)) \in Seq(T)
    BY <2>1, <2>2, FlattenSeqEmpty, Zenon
  <2> QED
    BY <2>3, Zenon
<1>2. ASSUME NEW n \in Nat, n \in S
      PROVE  n + 1 \in S
  <2> SUFFICES ASSUME n + 1 <= Len(s)
               PROVE  FlattenSeq(SubSeq(s, 1, n + 1)) \in Seq(T)
    OBVIOUS
  <2>1. n \in 0..Len(s) - 1 /\ s[n + 1] \in Seq(T)
    OBVIOUS
  <2>2. FlattenSeq(SubSeq(s, 1, n)) \in Seq(T)
    <3>1. n <= Len(s)
      BY <2>1
    <3> QED
      BY <3>1, <1>2, Zenon
  <2>3. FlattenSeq(SubSeq(s, 1, n + 1)) = FlattenSeq(SubSeq(s, 1, n)) \o s[n + 1]
    BY <2>1, FlattenSeqPrefix
  <2> QED
    BY <2>1, <2>2, <2>3, ConcatType, Zenon
<1>3. Nat \subseteq S
  <2> HIDE DEF S
  <2> QED
    BY <1>1, <1>2, InductionOnSet
<1>4. SubSeq(s, 1, Len(s)) = s /\ Len(s) \in Nat /\ Len(s) <= Len(s)
  OBVIOUS
<1> QED
  BY <1>3, <1>4, Zenon

\* Nothing is lost and nothing added: what is in the sequences is in their
\* flattening.
LEMMA FlattenSeqRange ==
  ASSUME NEW T, NEW s \in Seq(Seq(T))
  PROVE  \A x : x \in Range(FlattenSeq(s)) <=> \E i \in 1..Len(s) : x \in Range(s[i])
<1> DEFINE part(n) == FlattenSeq(SubSeq(s, 1, n))
           P(n) == \A x : x \in Range(part(n)) <=> \E i \in 1..n : x \in Range(s[i])
           S == {n \in Nat : n <= Len(s) => P(n)}
<1>1. 0 \in S
  <2>1. SubSeq(s, 1, 0) = <<>>
    OBVIOUS
  <2>2. part(0) = <<>>
    BY <2>1, FlattenSeqEmpty, Zenon
  <2> HIDE DEF part
  <2> QED
    BY <2>2 DEF Range
<1>2. ASSUME NEW n \in Nat, n \in S
      PROVE  n + 1 \in S
  <2> SUFFICES ASSUME n + 1 <= Len(s)
               PROVE  P(n + 1)
    OBVIOUS
  <2>1. n \in 0..Len(s) - 1 /\ n <= Len(s) /\ n + 1 \in 1..Len(s) /\ SubSeq(s, 1, n) \in Seq(Seq(T))
    OBVIOUS
  <2>2. part(n) \in Seq(T) /\ s[n + 1] \in Seq(T)
    BY <2>1, FlattenSeqType, ElementOfSeq, Zenon
  <2>3. part(n + 1) = part(n) \o s[n + 1]
    BY <2>1, FlattenSeqPrefix
  <2>4. P(n)
    BY <1>2, <2>1, Zenon
  <2> HIDE DEF part
  <2>5. Range(part(n + 1)) = Range(part(n)) \cup Range(s[n + 1])
    BY <2>2, <2>3, RangeConcatenation, Zenon
  <2>6. \A i : i \in 1..n + 1 <=> (i \in 1..n \/ i = n + 1)
    BY SMT
  <2> QED
    BY <2>4, <2>5, <2>6, Zenon
<1>3. Nat \subseteq S
  <2> HIDE DEF S
  <2> QED
    BY <1>1, <1>2, InductionOnSet
<1>4. SubSeq(s, 1, Len(s)) = s /\ Len(s) \in Nat /\ Len(s) <= Len(s)
  OBVIOUS
<1>5. P(Len(s))
  <2> HIDE DEF P
  <2> QED BY <1>3, <1>4
<1> QED
  BY <1>4, <1>5, Zenon

\* What the first n sequences make is how the whole begins.
LEMMA FlattenSeqBegins ==
  ASSUME NEW T, NEW s \in Seq(Seq(T)), NEW n \in 0..Len(s)
  PROVE  /\ Len(FlattenSeq(SubSeq(s, 1, n))) <= Len(FlattenSeq(s))
         /\ \A i \in 1..Len(FlattenSeq(SubSeq(s, 1, n))) : FlattenSeq(s)[i] = FlattenSeq(SubSeq(s, 1, n))[i]
<1> DEFINE part(k) == FlattenSeq(SubSeq(s, 1, k))
           Begins(a, b) == Len(a) <= Len(b) /\ \A i \in 1..Len(a) : b[i] = a[i]
           S == {k \in Nat : n + k <= Len(s) => Begins(part(n), part(n + k))}
<1>t. ASSUME NEW k \in 0..Len(s)
      PROVE  part(k) \in Seq(T)
  <2>1. SubSeq(s, 1, k) \in Seq(Seq(T))
    OBVIOUS
  <2> QED
    BY <2>1, FlattenSeqType
<1>s. ASSUME NEW k \in 0..Len(s) - 1
      PROVE  part(k + 1) = part(k) \o s[k + 1] /\ s[k + 1] \in Seq(T)
  <2>1. s[k + 1] \in Seq(T)
    OBVIOUS
  <2>2. part(k + 1) = part(k) \o s[k + 1]
    BY FlattenSeqPrefix
  <2> QED
    BY <2>1, <2>2
<1>e. SubSeq(s, 1, Len(s)) = s /\ Len(s) \in Nat /\ n \in Nat
  OBVIOUS
<1>w. part(Len(s)) = FlattenSeq(s)
  BY <1>e
<1>p. part(n) = FlattenSeq(SubSeq(s, 1, n))
  OBVIOUS
<1> HIDE DEF part
<1>1. 0 \in S
  <2>1. n + 0 = n /\ part(n) \in Seq(T)
    BY <1>t, <1>e
  <2> QED
    BY <2>1
<1>2. ASSUME NEW k \in Nat, k \in S
      PROVE  k + 1 \in S
  <2> SUFFICES ASSUME n + (k + 1) <= Len(s)
               PROVE  Begins(part(n), part(n + (k + 1)))
    OBVIOUS
  <2>1. n + k \in 0..Len(s) - 1 /\ n + k \in 0..Len(s) /\ n + (k + 1) = (n + k) + 1
    BY <1>e
  <2>2. part((n + k) + 1) = part(n + k) \o s[(n + k) + 1] /\ s[(n + k) + 1] \in Seq(T)
    BY <2>1, <1>s
  <2>3. part(n + k) \in Seq(T) /\ part(n) \in Seq(T)
    BY <2>1, <1>t
  <2>4. Begins(part(n), part(n + k))
    BY <1>2, <2>1, <1>e
  <2>5. ASSUME NEW a \in Seq(T), NEW b \in Seq(T), NEW x \in Seq(T), Begins(a, b)
        PROVE  Begins(a, b \o x)
    BY <2>5
  <2> HIDE DEF Begins
  <2> QED
    BY <2>1, <2>2, <2>3, <2>4, <2>5
<1>3. Len(s) - n \in Nat /\ n + (Len(s) - n) = Len(s)
  BY <1>e
<1>4. Nat \subseteq S
  <2> HIDE DEF S
  <2> QED
    BY <1>1, <1>2, InductionOnSet
<1>5. Begins(part(n), part(n + (Len(s) - n)))
  <2>1. n + (Len(s) - n) <= Len(s)
    BY <1>3, <1>e
  <2>2. Len(s) - n \in S
    BY <1>3, <1>4, Zenon
  <2> QED
    BY <2>1, <2>2, Zenon
<1> QED
  BY <1>3, <1>5, <1>w, <1>p
=============================================================================
