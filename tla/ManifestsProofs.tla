-------------------------- MODULE ManifestsProofs --------------------------
(***************************************************************************)
(* Proofs about module Manifests: roles, bindings, autoscalers and         *)
(* PodSecurityPolicies that are converted to Short syntax and back grant   *)
(* and limit what they did, webhooks are called for the same requests, and *)
(* a pod has its own fields, for every name, any number of rules,          *)
(* subjects, selectors, plugins, aliases and conditions, and any keys and  *)
(* values of labels.                                                       *)
(***************************************************************************)
EXTENDS Manifests, SequenceFacts, FiniteSetTheorems

-----------------------------------------------------------------------------
(***************************************************************************)
(* Texts that are split                                                    *)
(***************************************************************************)
\* The function inside SplitAt: f has the segments of the first tokens of s,
\* up to n of them.
IsSplitting(f, s, cuts, n) ==
  f = [k \in 0..n |-> IF k = 0 THEN <<Empty>>
                      ELSE IF k \in cuts THEN Append(f[k - 1], Empty) ELSE AppendToLast(f[k - 1], s[k])]

\* There is one, built token by token.
LEMMA SplittingExists ==
  ASSUME NEW s, NEW cuts, NEW n \in Nat
  PROVE  \E f : IsSplitting(f, s, cuts, n)
<1> DEFINE step(seg, k) == IF k \in cuts THEN Append(seg, Empty) ELSE AppendToLast(seg, s[k])
           Is(f, m) == f = [k \in 0..m |-> IF k = 0 THEN <<Empty>> ELSE step(f[k - 1], k)]
           S == {m \in Nat : \E f : Is(f, m)}
<1>0. ASSUME NEW f, NEW m \in Nat
      PROVE  Is(f, m) <=> IsSplitting(f, s, cuts, m)
  BY DEF IsSplitting
<1> HIDE DEF step
<1>1. 0 \in S
  <2> DEFINE f == [k \in 0..0 |-> <<Empty>>]
  <2>1. f = [k \in 0..0 |-> IF k = 0 THEN <<Empty>> ELSE step(f[k - 1], k)]
    OBVIOUS
  <2> QED
    BY <2>1
<1>2. ASSUME NEW m \in Nat, m \in S
      PROVE  m + 1 \in S
  <2>1. PICK f : f = [k \in 0..m |-> IF k = 0 THEN <<Empty>> ELSE step(f[k - 1], k)]
    BY <1>2
  <2> DEFINE g == [k \in 0..m + 1 |-> IF k \in 0..m THEN f[k] ELSE step(f[k - 1], k)]
  <2>2. ASSUME NEW k \in 0..m + 1
        PROVE  g[k] = IF k = 0 THEN <<Empty>> ELSE step(g[k - 1], k)
    <3>1. CASE k = 0
      BY <3>1, <2>1
    <3>2. CASE k # 0 /\ k \in 0..m
      <4>1. k - 1 \in 0..m /\ k - 1 \in 0..m + 1
        BY <3>2
      <4>2. f[k] = step(f[k - 1], k)
        BY <3>2, <2>1
      <4>3. g[k] = f[k] /\ g[k - 1] = f[k - 1]
        BY <3>2, <4>1
      <4> QED
        BY <3>2, <4>2, <4>3
    <3>3. CASE k # 0 /\ k \notin 0..m
      <4>1. k - 1 \in 0..m /\ k - 1 \in 0..m + 1
        BY <3>3
      <4>2. g[k - 1] = f[k - 1] /\ g[k] = step(f[k - 1], k)
        BY <3>3, <4>1
      <4> QED
        BY <3>3, <4>2
    <3> QED
      BY <3>1, <3>2, <3>3
  <2>3. g = [k \in 0..m + 1 |-> g[k]]
    OBVIOUS
  <2> HIDE DEF g
  <2>4. g = [k \in 0..m + 1 |-> IF k = 0 THEN <<Empty>> ELSE step(g[k - 1], k)]
    BY <2>2, <2>3
  <2> QED
    BY <2>4
<1>3. Nat \subseteq S
  <2> HIDE DEF S
  <2> QED
    BY <1>1, <1>2, InductionOnSet
<1> HIDE DEF Is
<1> QED
  BY <1>0, <1>3, Zenon

\* What SplitAt computes.
LEMMA SplitAtDefined ==
  ASSUME NEW s, Len(s) \in Nat, NEW cuts
  PROVE  \E f : IsSplitting(f, s, cuts, Len(s)) /\ SplitAt(s, cuts) = f[Len(s)]
<1> DEFINE f == CHOOSE g : g = [k \in 0..Len(s) |-> IF k = 0 THEN <<Empty>>
                      ELSE IF k \in cuts THEN Append(g[k - 1], Empty) ELSE AppendToLast(g[k - 1], s[k])]
<1>1. \E g : g = [k \in 0..Len(s) |-> IF k = 0 THEN <<Empty>>
                      ELSE IF k \in cuts THEN Append(g[k - 1], Empty) ELSE AppendToLast(g[k - 1], s[k])]
  <2>1. PICK g : IsSplitting(g, s, cuts, Len(s))
    BY SplittingExists
  <2> WITNESS g
  <2> QED
    BY <2>1, Zenon DEF IsSplitting
<1>2. f = [k \in 0..Len(s) |-> IF k = 0 THEN <<Empty>>
                      ELSE IF k \in cuts THEN Append(f[k - 1], Empty) ELSE AppendToLast(f[k - 1], s[k])]
  BY <1>1, Zenon
<1>3. SplitAt(s, cuts) = f[Len(s)]
  BY Zenon DEF SplitAt
<1> QED
  BY <1>2, <1>3, Zenon DEF IsSplitting

\* What AppendToLast returns.
LEMMA LastSegment ==
  ASSUME NEW T, NEW before \in Seq(Seq(T)), NEW y \in Seq(T), NEW x \in T
  PROVE  AppendToLast(Append(before, y), x) = Append(before, Append(y, x))
<1> DEFINE g == Append(before, y)
           h == Append(before, Append(y, x))
           z == Append(y, x)
<1>0. Len(before) \in Nat /\ z \in Seq(T)
  OBVIOUS
<1> HIDE DEF z
<1>1. /\ g \in Seq(Seq(T)) /\ Len(g) = Len(before) + 1 /\ g[Len(before) + 1] = y
      /\ \A i \in 1..Len(before) : g[i] = before[i]
  OBVIOUS
<1>2. /\ h \in Seq(Seq(T)) /\ Len(h) = Len(before) + 1 /\ h[Len(before) + 1] = z
      /\ \A i \in 1..Len(before) : h[i] = before[i]
  BY <1>0 DEF z
<1> HIDE DEF g, h
<1> DEFINE e == [g EXCEPT ![Len(g)] = z]
<1>3. e \in Seq(Seq(T)) /\ Len(e) = Len(g) /\ \A i \in 1..Len(g) : e[i] = IF i = Len(g) THEN z ELSE g[i]
  BY <1>0, <1>1
<1>4. AppendToLast(g, x) = e
  BY <1>1 DEF AppendToLast, z
<1> HIDE DEF e
<1>5. ASSUME NEW i \in 1..Len(e)
      PROVE  e[i] = h[i]
  <2>1. CASE i = Len(g)
    BY <2>1, <1>1, <1>2, <1>3
  <2>2. CASE i # Len(g)
    <3>1. i \in 1..Len(before)
      BY <2>2, <1>0, <1>1, <1>3
    <3> QED
      BY <2>2, <3>1, <1>1, <1>2, <1>3
  <2> QED
    BY <2>1, <2>2
<1>6. e = h
  BY <1>1, <1>2, <1>3, <1>5, SeqEqual
<1> QED
  BY <1>4, <1>6 DEF g, h

\* One token more: a cut starts a segment, any other token is appended to the
\* last one.
LEMMA SplittingStep ==
  ASSUME NEW s, Len(s) \in Nat, NEW cuts, NEW f, IsSplitting(f, s, cuts, Len(s))
  PROVE  /\ f[0] = <<Empty>>
         /\ \A k \in 1..Len(s) : f[k] = IF k \in cuts THEN Append(f[k - 1], Empty) ELSE AppendToLast(f[k - 1], s[k])
<1>1. Len(s) \in Nat /\ 0 \in 0..Len(s) /\ \A k \in 1..Len(s) : k \in 0..Len(s) /\ k # 0
  OBVIOUS
<1> QED
  BY <1>1 DEF IsSplitting

\* There is always a segment, and segments do not get fewer.
LEMMA SplittingGrows ==
  ASSUME NEW T, NEW s \in Seq(T), NEW cuts, NEW f, IsSplitting(f, s, cuts, Len(s))
  PROVE  /\ \A k \in 0..Len(s) : f[k] \in Seq(Seq(T)) /\ Len(f[k]) >= 1
         /\ \A k \in 1..Len(s) : Len(f[k]) = IF k \in cuts THEN Len(f[k - 1]) + 1 ELSE Len(f[k - 1])
<1> DEFINE Is(k) == f[k] \in Seq(Seq(T)) /\ Len(f[k]) >= 1
           S == {k \in Nat : k <= Len(s) => Is(k)}
<1>1. f[0] = <<Empty>> /\ \A k \in 1..Len(s) : f[k] = IF k \in cuts THEN Append(f[k - 1], Empty) ELSE AppendToLast(f[k - 1], s[k])
  BY SplittingStep
<1>2. Empty \in Seq(T)
  BY DEF Empty
<1>3. ASSUME NEW g \in Seq(Seq(T)), Len(g) >= 1, NEW x \in T
      PROVE  /\ Append(g, Empty) \in Seq(Seq(T)) /\ Len(Append(g, Empty)) = Len(g) + 1
             /\ AppendToLast(g, x) \in Seq(Seq(T)) /\ Len(AppendToLast(g, x)) = Len(g)
  <2>1. g[Len(g)] \in Seq(T)
    BY <1>3
  <2> DEFINE y == Append(g[Len(g)], x)
  <2>2. y \in Seq(T)
    BY <2>1
  <2> HIDE DEF y
  <2>3. [g EXCEPT ![Len(g)] = y] \in Seq(Seq(T)) /\ Len([g EXCEPT ![Len(g)] = y]) = Len(g)
    BY <2>2, <1>3
  <2>4. AppendToLast(g, x) = [g EXCEPT ![Len(g)] = y]
    BY DEF AppendToLast, y
  <2> QED
    BY <1>2, <1>3, <2>3, <2>4
<1>4. ASSUME NEW k \in 1..Len(s), Is(k - 1)
      PROVE  Is(k) /\ Len(f[k]) = IF k \in cuts THEN Len(f[k - 1]) + 1 ELSE Len(f[k - 1])
  <2>1. s[k] \in T
    OBVIOUS
  <2> DEFINE g == f[k - 1]
             x == s[k]
  <2>2. g \in Seq(Seq(T)) /\ Len(g) >= 1 /\ Len(g) \in Nat /\ x \in T
    BY <1>4, <2>1
  <2>3. f[k] = IF k \in cuts THEN Append(g, Empty) ELSE AppendToLast(g, x)
    BY <1>1
  <2> HIDE DEF g, x
  <2>4. f[k] \in Seq(Seq(T)) /\ Len(f[k]) = IF k \in cuts THEN Len(g) + 1 ELSE Len(g)
    BY <2>2, <2>3, <1>3
  <2> QED
    BY <2>2, <2>4 DEF g
<1>5. 0 \in S
  <2>1. <<Empty>> \in Seq(Seq(T)) /\ Len(<<Empty>>) = 1
    BY <1>2
  <2>2. Is(0)
    BY <1>1, <2>1
  <2> QED
    BY <2>2, Zenon
<1>6. ASSUME NEW k \in Nat, k \in S
      PROVE  k + 1 \in S
  <2> SUFFICES ASSUME k + 1 <= Len(s)
               PROVE  Is(k + 1)
    OBVIOUS
  <2>1. k + 1 \in 1..Len(s) /\ (k + 1) - 1 = k /\ k <= Len(s)
    OBVIOUS
  <2>2. Is(k)
    BY <1>6, <2>1
  <2> HIDE DEF Is
  <2> QED
    BY <2>1, <2>2, <1>4
<1>7. Nat \subseteq S
  <2> HIDE DEF S
  <2> QED
    BY <1>5, <1>6, InductionOnSet
<1>8. \A k \in 0..Len(s) : Is(k)
  BY <1>7
<1>9. \A k \in 1..Len(s) : k - 1 \in 0..Len(s)
  OBVIOUS
<1> QED
  BY <1>4, <1>8, <1>9

\* A segment is what is between two cuts.
LEMMA SplittingSegment ==
  ASSUME NEW T, NEW s \in Seq(T), NEW cuts, NEW f, IsSplitting(f, s, cuts, Len(s)),
         NEW a \in 0..Len(s), NEW before \in Seq(Seq(T)), f[a] = Append(before, Empty),
         NEW n \in a..Len(s), \A k \in a + 1..n : k \notin cuts
  PROVE  f[n] = Append(before, SubSeq(s, a + 1, n))
<1> DEFINE S == {k \in Nat : a + k <= n => f[a + k] = Append(before, SubSeq(s, a + 1, a + k))}
<1>1. \A k \in 1..Len(s) : f[k] = IF k \in cuts THEN Append(f[k - 1], Empty) ELSE AppendToLast(f[k - 1], s[k])
  BY SplittingStep
<1>2. 0 \in S
  <2>1. SubSeq(s, a + 1, a + 0) = Empty /\ a + 0 = a
    BY DEF Empty
  <2> QED
    BY <2>1
<1>3. ASSUME NEW k \in Nat, k \in S
      PROVE  k + 1 \in S
  <2> SUFFICES ASSUME a + (k + 1) <= n
               PROVE  f[a + (k + 1)] = Append(before, SubSeq(s, a + 1, a + (k + 1)))
    OBVIOUS
  <2> DEFINE m == a + k
             seg == SubSeq(s, a + 1, m)
  <2>1. m \in Nat /\ m + 1 \in 1..Len(s) /\ (m + 1) - 1 = m /\ m + 1 \in a + 1..n /\ a + (k + 1) = m + 1 /\ m <= n
    OBVIOUS
  <2>2. f[m] = Append(before, seg)
    BY <1>3, <2>1
  <2>3. f[m + 1] = AppendToLast(f[m], s[m + 1])
    BY <1>1, <2>1
  <2>4. seg \in Seq(T) /\ s[m + 1] \in T /\ SubSeq(s, a + 1, m + 1) = Append(seg, s[m + 1])
    OBVIOUS
  <2> HIDE DEF seg, m
  <2>5. AppendToLast(Append(before, seg), s[m + 1]) = Append(before, Append(seg, s[m + 1]))
    BY <2>4, LastSegment
  <2>6. f[m + 1] = Append(before, Append(seg, s[m + 1]))
    BY <2>2, <2>3, <2>5
  <2> QED
    BY <2>1, <2>4, <2>6
<1>4. Nat \subseteq S
  <2> HIDE DEF S
  <2> QED
    BY <1>2, <1>3, InductionOnSet
<1>5. n - a \in Nat /\ a + (n - a) = n /\ a + (n - a) <= n
  OBVIOUS
<1>6. n - a \in S
  BY <1>4, <1>5, Zenon
<1>7. f[a + (n - a)] = Append(before, SubSeq(s, a + 1, a + (n - a)))
  BY <1>5, <1>6, Zenon
<1> QED
  BY <1>5, <1>7, Zenon

\* The segments of a text up to its last cut, and the one after it.
LEMMA SplittingCut ==
  ASSUME NEW T, NEW s \in Seq(T), NEW cuts, NEW f, IsSplitting(f, s, cuts, Len(s)),
         NEW c \in 1..Len(s), c \in cuts, NEW n \in c..Len(s), \A k \in c + 1..n : k \notin cuts
  PROVE  f[n] = Append(f[c - 1], SubSeq(s, c + 1, n))
<1>0. Len(s) \in Nat /\ c \in 0..Len(s) /\ c - 1 \in 0..Len(s)
  OBVIOUS
<1>1. \A k \in 1..Len(s) : f[k] = IF k \in cuts THEN Append(f[k - 1], Empty) ELSE AppendToLast(f[k - 1], s[k])
  BY <1>0, SplittingStep, ZenonT(40)
<1>2. f[c] = Append(f[c - 1], Empty)
  BY <1>1
<1>3. f[c - 1] \in Seq(Seq(T))
  <2>1. \A k \in 0..Len(s) : f[k] \in Seq(Seq(T)) /\ Len(f[k]) >= 1
    BY SplittingGrows
  <2> QED
    BY <1>0, <2>1, Zenon
<1> DEFINE before == f[c - 1]
<1>4. before \in Seq(Seq(T)) /\ f[c] = Append(before, Empty)
  BY <1>2, <1>3
<1> HIDE DEF before
<1>5. f[n] = Append(before, SubSeq(s, c + 1, n))
  BY <1>0, <1>4, SplittingSegment
<1> QED
  BY <1>5 DEF before

\* A text has one segment up to its first cut.
LEMMA SplittingFirst ==
  ASSUME NEW T, NEW s \in Seq(T), NEW cuts, NEW f, IsSplitting(f, s, cuts, Len(s)),
         NEW n \in 0..Len(s), \A k \in 1..n : k \notin cuts
  PROVE  f[n] = <<SubSeq(s, 1, n)>>
<1>0. Len(s) \in Nat /\ 0 \in 0..Len(s)
  OBVIOUS
<1>1. f[0] = <<Empty>>
  BY <1>0, SplittingStep, Zenon
<1> DEFINE none == <<>>
           a == 0
<1>2. none \in Seq(Seq(T)) /\ f[a] = Append(none, Empty) /\ a \in 0..Len(s) /\ n \in a..Len(s) /\ a + 1 = 1 /\ \A k \in a + 1..n : k \notin cuts
  BY <1>0, <1>1
<1>3. ASSUME NEW x PROVE Append(none, x) = <<x>>
  OBVIOUS
<1> HIDE DEF none, a
<1>4. f[n] = Append(none, SubSeq(s, a + 1, n))
  BY <1>2, SplittingSegment
<1> QED
  BY <1>2, <1>3, <1>4, Zenon

\* Segments one by one.
LEMMA AppendSecond ==
  ASSUME NEW T, NEW a \in T, NEW b \in T
  PROVE  Append(<<a>>, b) = <<a, b>>
<1> DEFINE u == Append(<<a>>, b)
           v == <<a, b>>
<1>1. <<a>> \in Seq(T) /\ Len(<<a>>) = 1 /\ <<a>>[1] = a
  OBVIOUS
<1>2. u \in Seq(T) /\ Len(u) = 2 /\ u[1] = a /\ u[2] = b
  BY <1>1
<1>3. v \in Seq(T) /\ Len(v) = 2 /\ v[1] = a /\ v[2] = b
  OBVIOUS
<1>4. u = v
  <2> HIDE DEF u, v
  <2>1. \A i \in 1..Len(u) : u[i] = v[i]
    BY <1>2, <1>3
  <2> QED
    BY <1>2, <1>3, <2>1, SeqEqual
<1> QED
  BY <1>4

\* A third segment after two.
LEMMA AppendThird ==
  ASSUME NEW T, NEW a \in T, NEW b \in T, NEW c \in T
  PROVE  Append(<<a, b>>, c) = <<a, b, c>>
<1> DEFINE u == Append(<<a, b>>, c)
           v == <<a, b, c>>
<1>1. <<a, b>> \in Seq(T) /\ Len(<<a, b>>) = 2 /\ <<a, b>>[1] = a /\ <<a, b>>[2] = b
  OBVIOUS
<1>2. u \in Seq(T) /\ Len(u) = 3 /\ u[1] = a /\ u[2] = b /\ u[3] = c
  BY <1>1
<1>3. v \in Seq(T) /\ Len(v) = 3 /\ v[1] = a /\ v[2] = b /\ v[3] = c
  OBVIOUS
<1>4. u = v
  <2> HIDE DEF u, v
  <2>1. \A i \in 1..Len(u) : u[i] = v[i]
    BY <1>2, <1>3
  <2> QED
    BY <1>2, <1>3, <2>1, SeqEqual
<1> QED
  BY <1>4

\* One cut makes two segments.
LEMMA SplitInTwoAt ==
  ASSUME NEW T, NEW a \in Seq(T), NEW x \in T, NEW b \in Seq(T), NEW cuts,
         \A k \in 1..Len((a \o <<x>>) \o b) : k \in cuts <=> k = Len(a) + 1
  PROVE  SplitAt((a \o <<x>>) \o b, cuts) = <<a, b>>
<1> DEFINE s == (a \o <<x>>) \o b
           c == Len(a) + 1
<1>1. /\ s \in Seq(T) /\ Len(s) = Len(a) + 1 + Len(b) /\ Len(s) \in Nat /\ Len(a) \in Nat /\ c \in 1..Len(s) /\ Len(s) \in c..Len(s)
      /\ SubSeq(s, 1, Len(a)) = a /\ SubSeq(s, c + 1, Len(s)) = b /\ c - 1 = Len(a) /\ Len(a) \in 0..Len(s)
  OBVIOUS
<1>2. c \in cuts /\ (\A k \in c + 1..Len(s) : k \notin cuts) /\ (\A k \in 1..Len(a) : k \notin cuts)
  <2>1. \A k \in c + 1..Len(s) : k \in 1..Len(s) /\ k # Len(a) + 1
    BY <1>1
  <2>2. \A k \in 1..Len(a) : k \in 1..Len(s) /\ k # Len(a) + 1
    BY <1>1
  <2> QED
    BY <1>1, <2>1, <2>2
<1>d. s = (a \o <<x>>) \o b
  OBVIOUS
<1> HIDE DEF s, c
<1>3. PICK f : IsSplitting(f, s, cuts, Len(s)) /\ SplitAt(s, cuts) = f[Len(s)]
  BY <1>1, SplitAtDefined, Zenon
<1> DEFINE n == Len(s)
<1>n. n \in c..Len(s) /\ (\A k \in c + 1..n : k \notin cuts) /\ n = Len(s)
  BY <1>1, <1>2
<1> HIDE DEF n
<1>4. f[n] = Append(f[c - 1], SubSeq(s, c + 1, n))
  <2>1. s \in Seq(T)
    BY <1>1
  <2>2. c \in 1..Len(s)
    BY <1>1
  <2>3. c \in cuts
    BY <1>2
  <2>4. n \in c..Len(s)
    BY <1>n
  <2>5. \A k \in c + 1..n : k \notin cuts
    BY <1>n
  <2>6. IsSplitting(f, s, cuts, Len(s))
    BY <1>3
  <2> QED
    BY <2>1, <2>2, <2>3, <2>4, <2>5, <2>6, SplittingCut
<1>5. f[Len(a)] = <<SubSeq(s, 1, Len(a))>>
  <2>1. s \in Seq(T)
    BY <1>1
  <2>2. Len(a) \in 0..Len(s)
    BY <1>1
  <2>3. \A k \in 1..Len(a) : k \notin cuts
    BY <1>2
  <2>4. IsSplitting(f, s, cuts, Len(s))
    BY <1>3
  <2> QED
    BY <2>1, <2>2, <2>3, <2>4, SplittingFirst
<1>6. SplitAt(s, cuts) = Append(<<a>>, b)
  BY <1>1, <1>3, <1>4, <1>5, <1>n, Zenon
<1> QED
  BY <1>d, <1>6, AppendSecond

\* Two cuts make three segments.
LEMMA SplitInThreeAt ==
  ASSUME NEW T, NEW a \in Seq(T), NEW x \in T, NEW b \in Seq(T), NEW y \in T, NEW d \in Seq(T), NEW cuts,
         \A k \in 1..Len((((a \o <<x>>) \o b) \o <<y>>) \o d) : k \in cuts <=> (k = Len(a) + 1 \/ k = Len(a) + 1 + Len(b) + 1)
  PROVE  SplitAt((((a \o <<x>>) \o b) \o <<y>>) \o d, cuts) = <<a, b, d>>
<1> DEFINE h == (a \o <<x>>) \o b
           s == (h \o <<y>>) \o d
           c == Len(a) + 1
           e == Len(a) + 1 + Len(b) + 1
<1>0. h \in Seq(T) /\ Len(h) = Len(a) + 1 + Len(b) /\ Len(a) \in Nat /\ Len(b) \in Nat /\ Len(d) \in Nat
      /\ SubSeq(h, 1, Len(a)) = a /\ SubSeq(h, c + 1, Len(h)) = b
  OBVIOUS
<1>1. /\ s \in Seq(T) /\ Len(s) = Len(h) + 1 + Len(d) /\ SubSeq(s, 1, Len(a)) = a
      /\ SubSeq(s, c + 1, Len(h)) = b /\ SubSeq(s, e + 1, Len(s)) = d
  <2> HIDE DEF h
  <2>1. s \in Seq(T) /\ Len(s) = Len(h) + 1 + Len(d) /\ e = Len(h) + 1 /\ SubSeq(s, e + 1, Len(s)) = d
    <3> DEFINE u == h \o <<y>>
    <3>1. u \in Seq(T) /\ Len(u) = Len(h) + 1 /\ s = u \o d /\ e = Len(h) + 1
      BY <1>0
    <3> HIDE DEF u
    <3>2. u \o d \in Seq(T) /\ Len(u \o d) = Len(u) + Len(d) /\ SubSeq(u \o d, Len(u) + 1, Len(u \o d)) = d
      BY <3>1
    <3> HIDE DEF s, e
    <3> QED
      BY <3>1, <3>2
  <2>2. ASSUME NEW i \in Nat, NEW j \in Nat, j <= Len(h)
        PROVE  SubSeq(s, i + 1, j) = SubSeq(h, i + 1, j)
    <3>1. \A k \in 1..Len(h) : s[k] = h[k]
      BY <1>0
    <3>2. \A k \in i + 1..j : k \in 1..Len(h)
      BY <2>2, <1>0
    <3>3. \A k \in i + 1..j : s[k] = h[k]
      BY <3>1, <3>2
    <3> HIDE DEF s
    <3>4. /\ SubSeq(s, i + 1, j) = [k \in 1..(1 + j - (i + 1)) |-> s[k + (i + 1) - 1]]
          /\ SubSeq(h, i + 1, j) = [k \in 1..(1 + j - (i + 1)) |-> h[k + (i + 1) - 1]]
      OBVIOUS
    <3>5. \A k \in 1..(1 + j - (i + 1)) : k + (i + 1) - 1 \in i + 1..j
      OBVIOUS
    <3> QED
      BY <3>3, <3>4, <3>5
  <2>3. SubSeq(s, 0 + 1, Len(a)) = SubSeq(h, 0 + 1, Len(a)) /\ SubSeq(s, c + 1, Len(h)) = SubSeq(h, c + 1, Len(h))
    <3>1. Len(a) <= Len(h) /\ Len(h) <= Len(h) /\ Len(h) \in Nat /\ c \in Nat /\ 0 \in Nat
      BY <1>0
    <3> HIDE DEF s, c
    <3> QED
      BY <1>0, <2>2, <3>1, Zenon
  <2>4. 0 + 1 = 1
    OBVIOUS
  <2> QED
    BY <1>0, <2>1, <2>3, <2>4, Zenon
<1>2. c \in 1..Len(s) /\ e \in 1..Len(s) /\ Len(s) \in e..Len(s) /\ e - 1 = Len(h) /\ c - 1 = Len(a) /\ Len(h) \in c..Len(s) /\ Len(a) \in 0..Len(s)
      /\ Len(s) \in Nat
  BY <1>0, <1>1
<1>3. /\ c \in cuts /\ e \in cuts /\ (\A k \in e + 1..Len(s) : k \notin cuts)
      /\ (\A k \in c + 1..Len(h) : k \notin cuts) /\ (\A k \in 1..Len(a) : k \notin cuts)
  <2>0. \A k \in 1..Len(s) : k \in cuts <=> (k = c \/ k = e)
    OBVIOUS
  <2>1. \A k \in e + 1..Len(s) : k \in 1..Len(s) /\ k # c /\ k # e
    BY <1>0, <1>1, <1>2
  <2>2. \A k \in c + 1..Len(h) : k \in 1..Len(s) /\ k # c /\ k # e
    BY <1>0, <1>1, <1>2
  <2>3. \A k \in 1..Len(a) : k \in 1..Len(s) /\ k # c /\ k # e
    BY <1>0, <1>1, <1>2
  <2> HIDE DEF s, c, e
  <2> QED
    BY <1>2, <2>0, <2>1, <2>2, <2>3, Zenon
<1>4. s = (((a \o <<x>>) \o b) \o <<y>>) \o d
  OBVIOUS
<1> HIDE DEF s, c, e, h
<1>5. PICK f : IsSplitting(f, s, cuts, Len(s)) /\ SplitAt(s, cuts) = f[Len(s)]
  BY <1>2, SplitAtDefined, Zenon
<1> DEFINE n == Len(s)
           m == Len(h)
           l == Len(a)
<1>n. /\ n \in e..Len(s) /\ (\A k \in e + 1..n : k \notin cuts) /\ n = Len(s)
      /\ m \in c..Len(s) /\ (\A k \in c + 1..m : k \notin cuts) /\ m = Len(h)
      /\ l \in 0..Len(s) /\ (\A k \in 1..l : k \notin cuts) /\ l = Len(a)
  BY <1>2, <1>3
<1> HIDE DEF n, m, l
<1>6. f[n] = Append(f[e - 1], SubSeq(s, e + 1, n))
  <2>1. s \in Seq(T)
    BY <1>1
  <2>2. e \in 1..Len(s)
    BY <1>2
  <2>3. e \in cuts
    BY <1>3
  <2>4. n \in e..Len(s)
    BY <1>n
  <2>5. \A k \in e + 1..n : k \notin cuts
    BY <1>n
  <2>6. IsSplitting(f, s, cuts, Len(s))
    BY <1>5
  <2> QED
    BY <2>1, <2>2, <2>3, <2>4, <2>5, <2>6, SplittingCut
<1>7. f[m] = Append(f[c - 1], SubSeq(s, c + 1, m))
  <2>1. s \in Seq(T)
    BY <1>1
  <2>2. c \in 1..Len(s)
    BY <1>2
  <2>3. c \in cuts
    BY <1>3
  <2>4. m \in c..Len(s)
    BY <1>n
  <2>5. \A k \in c + 1..m : k \notin cuts
    BY <1>n
  <2>6. IsSplitting(f, s, cuts, Len(s))
    BY <1>5
  <2> QED
    BY <2>1, <2>2, <2>3, <2>4, <2>5, <2>6, SplittingCut
<1>8. f[l] = <<SubSeq(s, 1, l)>>
  <2>1. s \in Seq(T)
    BY <1>1
  <2>2. l \in 0..Len(s)
    BY <1>n
  <2>3. \A k \in 1..l : k \notin cuts
    BY <1>n
  <2>4. IsSplitting(f, s, cuts, Len(s))
    BY <1>5
  <2> QED
    BY <2>1, <2>2, <2>3, <2>4, SplittingFirst
<1>9. SplitAt(s, cuts) = Append(Append(<<a>>, b), d)
  BY <1>1, <1>2, <1>5, <1>6, <1>7, <1>8, <1>n, Zenon
<1> QED
  <2>1. Append(<<a>>, b) = <<a, b>>
    BY AppendSecond
  <2>2. Append(<<a, b>>, d) = <<a, b, d>>
    BY AppendThird
  <2> QED
    BY <1>4, <1>9, <2>1, <2>2, Zenon

\* More than one cut makes more than two.
LEMMA SplitInMany ==
  ASSUME NEW T, NEW s \in Seq(T), NEW cuts, NEW c \in 1..Len(s), NEW d \in 1..Len(s), c < d, c \in cuts, d \in cuts
  PROVE  Len(SplitAt(s, cuts)) > 2
<1>1. PICK f : IsSplitting(f, s, cuts, Len(s)) /\ SplitAt(s, cuts) = f[Len(s)]
  <2>1. Len(s) \in Nat
    OBVIOUS
  <2> QED
    BY <2>1, SplitAtDefined, Zenon
<1>2. /\ \A k \in 0..Len(s) : Len(f[k]) \in Nat /\ Len(f[k]) >= 1
      /\ \A k \in 1..Len(s) : Len(f[k]) = IF k \in cuts THEN Len(f[k - 1]) + 1 ELSE Len(f[k - 1])
  <2>0. IsSplitting(f, s, cuts, Len(s))
    BY <1>1
  <2>1. \A k \in 0..Len(s) : f[k] \in Seq(Seq(T)) /\ Len(f[k]) >= 1
    BY <2>0, SplittingGrows
  <2>2. \A k \in 1..Len(s) : Len(f[k]) = IF k \in cuts THEN Len(f[k - 1]) + 1 ELSE Len(f[k - 1])
    BY <2>0, SplittingGrows
  <2> QED
    BY <2>1, <2>2
<1> DEFINE n(k) == Len(f[k])
           S == {j \in Nat : \A k \in 0..Len(s) : k + j <= Len(s) => n(k) <= n(k + j)}
<1>3. 0 \in S
  BY <1>2
<1>4. ASSUME NEW j \in Nat, j \in S
      PROVE  j + 1 \in S
  <2> SUFFICES ASSUME NEW k \in 0..Len(s), k + (j + 1) <= Len(s)
               PROVE  n(k) <= n(k + (j + 1))
    OBVIOUS
  <2>1. k + j \in 0..Len(s) /\ k + j <= Len(s) /\ (k + (j + 1)) - 1 = k + j /\ k + (j + 1) \in 1..Len(s) /\ k + (j + 1) \in 0..Len(s)
    OBVIOUS
  <2>2. n(k) <= n(k + j)
    BY <1>4, <2>1
  <2>3. n(k) \in Nat /\ n(k + j) \in Nat /\ n(k + (j + 1)) \in Nat
    BY <1>2, <2>1, Zenon
  <2>4. n(k + (j + 1)) = IF k + (j + 1) \in cuts THEN n(k + j) + 1 ELSE n(k + j)
    BY <1>2, <2>1
  <2> HIDE DEF n
  <2> QED
    BY <2>2, <2>3, <2>4
<1>5. Nat \subseteq S
  <2> HIDE DEF S
  <2> QED
    BY <1>3, <1>4, InductionOnSet
<1>6. ASSUME NEW k \in 0..Len(s), NEW m \in 0..Len(s), k <= m
      PROVE  n(k) <= n(m)
  <2>1. m - k \in Nat /\ k + (m - k) = m /\ m <= Len(s)
    BY <1>6
  <2>2. m - k \in S
    BY <1>5, <2>1, Zenon
  <2> QED
    BY <2>1, <2>2
<1>7. /\ c - 1 \in 0..Len(s) /\ c \in 0..Len(s) /\ d - 1 \in 0..Len(s) /\ d \in 0..Len(s) /\ Len(s) \in 0..Len(s)
      /\ c <= d - 1 /\ d <= Len(s)
  OBVIOUS
<1>8. n(c) = n(c - 1) + 1 /\ n(d) = n(d - 1) + 1
  BY <1>2
<1>9. n(c - 1) >= 1 /\ n(c) <= n(d - 1) /\ n(d) <= n(Len(s))
  BY <1>2, <1>6, <1>7
<1>10. n(c - 1) \in Nat /\ n(c) \in Nat /\ n(d - 1) \in Nat /\ n(d) \in Nat /\ n(Len(s)) \in Nat
  BY <1>2, <1>7
<1>11. SplitAt(s, cuts) = f[Len(s)]
  BY <1>1
<1>12. n(Len(s)) > 2
  <2> HIDE DEF n
  <2> QED
    BY <1>8, <1>9, <1>10
<1> QED
  BY <1>11, <1>12

-----------------------------------------------------------------------------
(***************************************************************************)
(* Objects whose fields have other names in Short                          *)
(***************************************************************************)
\* No two fields get the same name.
OneToOne(table) == \A k, l \in DOMAIN table : table[k] = table[l] => k = l

\* Each name leads back to where it came from.
LEMMA AntiFunctionOf ==
  ASSUME NEW table, OneToOne(table)
  PROVE  /\ DOMAIN AntiFunction(table) = Range(table)
         /\ \A k \in DOMAIN table : AntiFunction(table)[table[k]] = k /\ table[k] \in Range(table)
<1> DEFINE back == AntiFunction(table)
<1>1. back = [t \in Range(table) |-> CHOOSE x \in DOMAIN table : t \in Range(table) => table[x] = t]
  BY DEF AntiFunction, Inverse
<1>2. ASSUME NEW k \in DOMAIN table
      PROVE  back[table[k]] = k
  <2>1. table[k] \in Range(table)
    BY DEF Range
  <2>2. back[table[k]] = CHOOSE x \in DOMAIN table : table[k] \in Range(table) => table[x] = table[k]
    BY <1>1, <2>1
  <2> DEFINE y == CHOOSE x \in DOMAIN table : table[k] \in Range(table) => table[x] = table[k]
  <2>3. y \in DOMAIN table /\ (table[k] \in Range(table) => table[y] = table[k])
    BY Zenon
  <2> HIDE DEF y
  <2>4. y = k
    BY <2>1, <2>3 DEF OneToOne
  <2> QED
    BY <2>2, <2>4 DEF y
<1> HIDE DEF back
<1>3. DOMAIN back = Range(table) /\ \A k \in DOMAIN table : back[table[k]] = k /\ table[k] \in Range(table)
  BY <1>1, <1>2 DEF Range
<1> QED
  BY <1>3 DEF back

\* What is renamed by a table, and back, is what it was.
LEMMA RenamedBack ==
  ASSUME NEW table, OneToOne(table), NEW s, IsObject(s, DOMAIN table)
  PROVE  Renamed(Renamed(s, table), AntiFunction(table)) = s
<1> DEFINE back == AntiFunction(table)
           names == {table[k] : k \in DOMAIN s \cap DOMAIN table}
           r == Renamed(s, table)
           again == {back[n] : n \in DOMAIN r \cap DOMAIN back}
<1>0. s = [n \in DOMAIN s |-> s[n]] /\ DOMAIN s \subseteq DOMAIN table
  BY DEF IsObject
<1>1. DOMAIN back = Range(table) /\ \A k \in DOMAIN table : back[table[k]] = k /\ table[k] \in Range(table)
  BY AntiFunctionOf
<1>2. DOMAIN r = names /\ \A k \in DOMAIN s : table[k] \in names /\ r[table[k]] = s[k]
  <2>1. r = [n \in names |-> s[CHOOSE k \in DOMAIN table : table[k] = n]]
    BY DEF Renamed
  <2>2. ASSUME NEW k \in DOMAIN s
        PROVE  table[k] \in names /\ r[table[k]] = s[k]
    <3>0. k \in DOMAIN table /\ table[k] \in names
      BY <1>0
    <3> DEFINE y == CHOOSE x \in DOMAIN table : table[x] = table[k]
    <3>1. y \in DOMAIN table /\ table[y] = table[k]
      BY <3>0, Zenon
    <3>2. r[table[k]] = s[y]
      BY <2>1, <3>0
    <3> HIDE DEF y
    <3>3. y = k
      BY <3>0, <3>1 DEF OneToOne
    <3> QED
      BY <3>0, <3>2, <3>3
  <2> HIDE DEF r
  <2> QED
    BY <2>1, <2>2
<1>3. Renamed(r, back) = [n \in again |-> r[CHOOSE k \in DOMAIN back : back[k] = n]]
  BY DEF Renamed
<1>4. again = DOMAIN s
  <2> HIDE DEF r, back
  <2>1. ASSUME NEW n \in DOMAIN r \cap DOMAIN back
        PROVE  back[n] \in DOMAIN s
    <3>1. PICK k \in DOMAIN s \cap DOMAIN table : n = table[k]
      BY <1>2
    <3> QED
      BY <1>1, <3>1
  <2>2. ASSUME NEW k \in DOMAIN s
        PROVE  \E n \in DOMAIN r \cap DOMAIN back : k = back[n]
    <3>1. k \in DOMAIN table
      BY <1>0
    <3>2. table[k] \in DOMAIN r \cap DOMAIN back /\ k = back[table[k]]
      BY <1>1, <1>2, <3>1
    <3> QED
      BY <3>2
  <2> QED
    BY <2>1, <2>2
<1>5. ASSUME NEW n \in DOMAIN s
      PROVE  r[CHOOSE k \in DOMAIN back : back[k] = n] = s[n]
  <2> HIDE DEF r, back
  <2>0. n \in DOMAIN table
    BY <1>0
  <2> DEFINE y == CHOOSE k \in DOMAIN back : back[k] = n
  <2>1. table[n] \in DOMAIN back /\ back[table[n]] = n
    BY <1>1, <2>0
  <2>2. y \in DOMAIN back /\ back[y] = n
    BY <2>1, Zenon
  <2> HIDE DEF y
  <2>3. PICK k \in DOMAIN table : y = table[k]
    BY <1>1, <2>2 DEF Range
  <2>4. k = n
    BY <1>1, <2>2, <2>3
  <2>5. r[y] = s[n]
    BY <1>2, <2>3, <2>4
  <2> QED
    BY <2>5 DEF y
<1> HIDE DEF r, back, again
<1>6. Renamed(r, back) = [n \in DOMAIN s |-> s[n]]
  BY <1>3, <1>4, <1>5
<1> QED
  BY <1>0, <1>6 DEF r, back

\* No two fields of an autoscaler get the same name.
LEMMA AutoscalerNames == OneToOne(HorizontalPodAutoscaler)
  BY DEF OneToOne, HorizontalPodAutoscaler

\* No two fields of a rule get the same name.
LEMMA RuleNames == OneToOne(PolicyRule)
  BY DEF OneToOne, PolicyRule

-----------------------------------------------------------------------------
(***************************************************************************)
(* References as texts                                                     *)
(***************************************************************************)
\* The tokens of a reference, and those that separate its parts.
Tokens(r) == {".", ":", "\\"} \cup UNION {Range(r[part]) : part \in DOMAIN r}

\* A text is a sequence of its tokens.
LEMMA TextType ==
  ASSUME NEW s, IsSequence(s), NEW T, Range(s) \subseteq T
  PROVE  s \in Seq(T)
<1>1. \A i \in 1..Len(s) : s[i] \in T
  BY DEF IsSequence, Range
<1> QED
  BY <1>1 DEF IsSequence

\* The parts of a reference are texts.
LEMMA ReferenceType ==
  ASSUME NEW r, IsReference(r)
  PROVE  /\ r = Reference(r.group, r.kind, r.ns, r.name)
         /\ r.group \in Seq(Tokens(r)) /\ r.kind \in Seq(Tokens(r)) /\ r.ns \in Seq(Tokens(r)) /\ r.name \in Seq(Tokens(r))
         /\ ":" \notin Range(r.group) /\ "\\" \notin Range(r.group) /\ ":" \notin Range(r.kind) /\ "\\" \notin Range(r.kind)
         /\ ":" \notin Range(r.ns) /\ "\\" \notin Range(r.ns) /\ "." \notin Range(r.kind)
         /\ ":" \in Tokens(r) /\ "\\" \in Tokens(r) /\ "." \in Tokens(r)
<1>1. r = [group |-> r.group, kind |-> r.kind, ns |-> r.ns, name |-> r.name]
  BY DEF IsReference, Reference
<1>2. DOMAIN r = {"group", "kind", "ns", "name"}
  BY <1>1
<1>3. ASSUME NEW part \in DOMAIN r
      PROVE  r[part] \in Seq(Tokens(r))
  <2>1. Range(r[part]) \subseteq Tokens(r)
    BY DEF Tokens
  <2>2. IsSequence(r[part])
    BY DEF IsReference
  <2> QED
    BY <2>1, <2>2, TextType
<1>4. r["group"] = r.group /\ r["kind"] = r.kind /\ r["ns"] = r.ns /\ r["name"] = r.name
  OBVIOUS
<1>5. r.group \in Seq(Tokens(r)) /\ r.kind \in Seq(Tokens(r)) /\ r.ns \in Seq(Tokens(r)) /\ r.name \in Seq(Tokens(r))
  BY <1>2, <1>3, <1>4
<1>6. ASSUME NEW part \in {"group", "kind", "ns"}
      PROVE  ":" \notin Range(r[part]) /\ "\\" \notin Range(r[part])
  BY DEF IsReference
<1>7. r = Reference(r.group, r.kind, r.ns, r.name) /\ "." \notin Range(r.kind)
  BY DEF IsReference
<1>8. ":" \in Tokens(r) /\ "\\" \in Tokens(r) /\ "." \in Tokens(r)
  BY DEF Tokens
<1> QED
  BY <1>4, <1>5, <1>6, <1>7, <1>8

\* The tokens of two texts and a separator are theirs.
LEMMA RangeOfThree ==
  ASSUME NEW T, NEW s \in Seq(T), NEW x \in T, NEW t \in Seq(T)
  PROVE  /\ (s \o <<x>>) \o t \in Seq(T)
         /\ Len((s \o <<x>>) \o t) = Len(s) + 1 + Len(t) /\ Len(s) \in Nat /\ Len(t) \in Nat
         /\ DOMAIN ((s \o <<x>>) \o t) = 1..Len(s) + 1 + Len(t)
         /\ ((s \o <<x>>) \o t)[Len(s) + 1] = x
         /\ \A i \in 1..Len(s) : ((s \o <<x>>) \o t)[i] = s[i]
         /\ \A i \in Len(s) + 2..Len(s) + 1 + Len(t) : ((s \o <<x>>) \o t)[i] = t[i - (Len(s) + 1)] /\ i - (Len(s) + 1) \in 1..Len(t)
         /\ Range((s \o <<x>>) \o t) = (Range(s) \cup {x}) \cup Range(t)
<1>1. s \o <<x>> \in Seq(T) /\ <<x>> \in Seq(T)
  OBVIOUS
<1>2. Range(s \o <<x>>) = Range(s) \cup Range(<<x>>)
  BY <1>1, RangeConcatenation, ZenonT(40)
<1>3. Range((s \o <<x>>) \o t) = Range(s \o <<x>>) \cup Range(t)
  BY <1>1, RangeConcatenation, ZenonT(40)
<1>4. Range(<<x>>) = {x}
  BY DEF Range
<1>5. Range((s \o <<x>>) \o t) = (Range(s) \cup {x}) \cup Range(t)
  BY <1>2, <1>3, <1>4, Zenon
<1>6. Len((s \o <<x>>) \o t) = Len(s) + 1 + Len(t) /\ Len(s) \in Nat /\ Len(t) \in Nat
  OBVIOUS
<1>7. DOMAIN ((s \o <<x>>) \o t) = 1..Len(s) + 1 + Len(t) /\ (s \o <<x>>) \o t \in Seq(T)
  BY <1>6
<1>8. ((s \o <<x>>) \o t)[Len(s) + 1] = x
  OBVIOUS
<1>9. \A i \in 1..Len(s) : ((s \o <<x>>) \o t)[i] = s[i]
  OBVIOUS
<1>10. \A i \in Len(s) + 2..Len(s) + 1 + Len(t) : ((s \o <<x>>) \o t)[i] = t[i - (Len(s) + 1)] /\ i - (Len(s) + 1) \in 1..Len(t)
  BY <1>6
<1> QED
  BY <1>5, <1>6, <1>7, <1>8, <1>9, <1>10, Zenon

\* A group and a kind are told apart by the last dot.
LEMMA GroupKindBack ==
  ASSUME NEW r, IsReference(r)
  PROVE  /\ GroupKind(r) \in Seq(Tokens(r))
         /\ ":" \notin Range(GroupKind(r)) /\ "\\" \notin Range(GroupKind(r))
         /\ SplitGroupKind(GroupKind(r)) = [group |-> r.group, kind |-> r.kind]
<1> DEFINE g == r.group
           k == r.kind
           T == Tokens(r)
<1>0. /\ g \in Seq(T) /\ k \in Seq(T) /\ "." \notin Range(k) /\ "." \in T
      /\ ":" \notin Range(g) /\ ":" \notin Range(k) /\ "\\" \notin Range(g) /\ "\\" \notin Range(k)
  BY ReferenceType
<1> HIDE DEF T
<1>1. CASE g = Empty
  <2>1. GroupKind(r) = k
    BY <1>0, <1>1 DEF GroupKind, Empty
  <2>2. {i \in DOMAIN k : k[i] = "."} = {}
    BY <1>0 DEF Range
  <2>3. SplitGroupKind(k) = [group |-> Empty, kind |-> k]
    BY <2>2 DEF SplitGroupKind
  <2> QED
    BY <1>0, <1>1, <2>1, <2>3 DEF T
<1>2. CASE g # Empty
  <2> DEFINE s == (g \o <<".">>) \o k
             n == Len(g) + 1
             dots == {i \in DOMAIN s : s[i] = "."}
  <2>1. GroupKind(r) = s
    BY <1>2 DEF GroupKind
  <2>2. /\ s \in Seq(T) /\ Len(s) = n + Len(k) /\ Len(g) \in Nat /\ Len(k) \in Nat /\ DOMAIN s = 1..n + Len(k) /\ s[n] = "."
        /\ \A i \in Len(g) + 2..n + Len(k) : s[i] = k[i - n] /\ i - n \in 1..Len(k)
        /\ Range(s) = (Range(g) \cup {"."}) \cup Range(k)
    <3> HIDE DEF g, k
    <3> QED
      BY <1>0, RangeOfThree
  <2>3. SubSeq(s, 1, n - 1) = g /\ SubSeq(s, n + 1, Len(s)) = k
    <3> HIDE DEF g, k
    <3> QED
      BY <1>0
  <2>4. ASSUME NEW i \in dots
        PROVE  i <= n /\ i \in Nat
    <3>1. i \in 1..n + Len(k) /\ s[i] = "."
      BY <2>2
    <3>n. n = Len(g) + 1
      OBVIOUS
    <3> HIDE DEF s, g, k, n, dots
    <3>2. CASE i > n
      <4>1. i \in Len(g) + 2..n + Len(k)
        BY <2>2, <3>1, <3>2, <3>n
      <4>2. k[i - n] = "." /\ i - n \in DOMAIN k
        BY <1>0, <2>2, <3>1, <4>1
      <4> QED
        BY <1>0, <4>2 DEF Range
    <3> QED
      BY <3>1, <3>2, <3>n, <2>2
  <2>5. n \in dots /\ n \in Nat
    <3> HIDE DEF s, g, k
    <3>1. n \in 1..n + Len(k) /\ n \in Nat
      BY <2>2
    <3> HIDE DEF n
    <3> QED
      BY <2>2, <3>1
  <2>6. Max(dots) = n
    <3> HIDE DEF dots, n
    <3> DEFINE P(x) == \A y \in dots : x >= y
               m == CHOOSE x \in dots : P(x)
    <3>1. P(n)
      BY <2>4, <2>5
    <3>2. m = Max(dots)
      BY DEF Max
    <3>3. m \in dots /\ P(m)
      <4> HIDE DEF P
      <4> QED BY <3>1, <2>5
    <3> HIDE DEF m
    <3> QED
      BY <3>2, <3>3, <2>4, <2>5
  <2>9. SplitGroupKind(s) = [group |-> g, kind |-> k]
    <3>1. dots # {}
      BY <2>5
    <3>2. SplitGroupKind(s) = [group |-> SubSeq(s, 1, Max(dots) - 1), kind |-> SubSeq(s, Max(dots) + 1, Len(s))]
      BY <3>1 DEF SplitGroupKind
    <3> HIDE DEF dots, s, n
    <3> QED
      BY <3>2, <2>3, <2>6
  <2>10. ":" \notin Range(s) /\ "\\" \notin Range(s)
    <3> HIDE DEF s, g, k
    <3> QED
      BY <1>0, <2>2
  <2> HIDE DEF s
  <2> QED
    BY <2>1, <2>2, <2>9, <2>10 DEF T
<1> QED
  BY <1>1, <1>2

\* An autoscaler's target is read as it was or refused: a name that has a
\* colon makes three segments.
LEMMA TargetBack ==
  ASSUME NEW r, IsLocalReference(r)
  PROVE  UnmarshalTarget(MarshalTarget(r)) \subseteq {r}
<1> DEFINE g == GroupKind(r)
           m == r.name
           s == (g \o <<":">>) \o m
           cuts == {i \in DOMAIN s : s[i] = ":"}
           T == Tokens(r)
<1>0. IsReference(r) /\ r = Reference(r.group, r.kind, Empty, r.name) /\ m \in Seq(T) /\ ":" \in T
  BY ReferenceType DEF IsLocalReference
<1>1. g \in Seq(T) /\ ":" \notin Range(g) /\ SplitGroupKind(g) = [group |-> r.group, kind |-> r.kind]
  BY <1>0, GroupKindBack
<1>2. MarshalTarget(r) = s
  BY DEF MarshalTarget
<1>3. UnmarshalTarget(s) = LET segments == SplitAt(s, cuts)
                               gk       == SplitGroupKind(segments[1])
                           IN  IF Len(segments) = 2 THEN {Reference(gk.group, gk.kind, Empty, segments[2])} ELSE {}
  BY Zenon DEF UnmarshalTarget, Split
<1> HIDE DEF g, m, T
<1>4. /\ s \in Seq(T) /\ Len(s) = Len(g) + 1 + Len(m) /\ Len(g) \in Nat /\ Len(m) \in Nat /\ DOMAIN s = 1..Len(g) + 1 + Len(m) /\ s[Len(g) + 1] = ":"
      /\ \A i \in 1..Len(g) : s[i] = g[i]
  BY <1>0, <1>1, RangeOfThree
<1>5. \A i \in 1..Len(g) : s[i] # ":"
  <2>1. \A i \in 1..Len(g) : g[i] \in Range(g)
    BY <1>1 DEF Range
  <2> HIDE DEF s
  <2> QED
    BY <1>1, <1>4, <2>1
<1>6. CASE \E i \in Len(g) + 2..Len(s) : s[i] = ":"
  <2> HIDE DEF s
  <2>1. PICK d \in Len(g) + 2..Len(s) : s[d] = ":"
    BY <1>6
  <2> DEFINE c == Len(g) + 1
  <2>2. c \in 1..Len(s) /\ d \in 1..Len(s) /\ c < d /\ c \in cuts /\ d \in cuts
    BY <1>4, <2>1
  <2> HIDE DEF c, cuts
  <2>3. Len(SplitAt(s, cuts)) > 2
    BY <1>4, <2>2, SplitInMany
  <2> DEFINE segments == SplitAt(s, cuts)
  <2>4. Len(segments) # 2
    <3>1. ~(2 > 2)
      OBVIOUS
    <3> QED
      BY <2>3, <3>1, Zenon
  <2> HIDE DEF segments
  <2> QED
    BY <1>2, <1>3, <2>4, Zenon DEF segments
<1>7. CASE ~\E i \in Len(g) + 2..Len(s) : s[i] = ":"
  <2>1. \A k \in 1..Len(s) : k \in cuts <=> k = Len(g) + 1
    <3> HIDE DEF s
    <3> TAKE k \in 1..Len(s)
    <3>1. k \in 1..Len(g) \/ k = Len(g) + 1 \/ k \in Len(g) + 2..Len(s)
      BY <1>4
    <3>2. k \in cuts <=> s[k] = ":"
      BY <1>4
    <3>3. CASE k \in 1..Len(g)
      BY <3>2, <3>3, <1>4, <1>5
    <3>4. CASE k = Len(g) + 1
      BY <3>2, <3>4, <1>4
    <3>5. CASE k \in Len(g) + 2..Len(s)
      BY <3>2, <3>5, <1>4, <1>7
    <3> QED
      BY <3>1, <3>3, <3>4, <3>5
  <2>2. SplitAt(s, cuts) = <<g, m>>
    <3> HIDE DEF cuts
    <3> QED
      BY <1>0, <1>1, <2>1, SplitInTwoAt
  <2> DEFINE segments == SplitAt(s, cuts)
  <2>3. Len(segments) = 2 /\ segments[1] = g /\ segments[2] = m
    <3> HIDE DEF s, cuts
    <3> QED
      BY <2>2
  <2>4. UnmarshalTarget(s) = {Reference(SplitGroupKind(segments[1]).group, SplitGroupKind(segments[1]).kind, Empty, segments[2])}
    <3>1. Len(segments) = 2
      BY <2>3
    <3> HIDE DEF s, cuts
    <3> QED
      BY <1>3, <3>1, Zenon
  <2>5. SplitGroupKind(g).group = r.group /\ SplitGroupKind(g).kind = r.kind
    BY <1>1
  <2> HIDE DEF s, cuts, segments
  <2>6. UnmarshalTarget(s) = {Reference(r.group, r.kind, Empty, r.name)}
    BY <2>3, <2>4, <2>5, Zenon DEF m
  <2> QED
    BY <1>0, <1>2, <2>6, Zenon
<1> QED
  BY <1>6, <1>7

\* An autoscaler that is read again is what it was.
LEMMA AutoscalerBack ==
  ASSUME NEW h, IsAutoscaler(h), NEW k \in ConvertHPA(h)
  PROVE  RevertHPA(k) \subseteq {h}
<1>0. h = [f |-> h.f, target |-> h.target] /\ IsObject(h.f, DOMAIN HorizontalPodAutoscaler) /\ IsLocalReference(h.target)
  BY DEF IsAutoscaler
<1>1. k.f = Renamed(h.f, HorizontalPodAutoscaler) /\ k.ref = MarshalTarget(h.target)
  BY DEF ConvertHPA
<1>2. Renamed(k.f, AntiFunction(HorizontalPodAutoscaler)) = h.f
  BY <1>0, <1>1, RenamedBack, AutoscalerNames, Zenon
<1>3. UnmarshalTarget(k.ref) \subseteq {h.target}
  BY <1>0, <1>1, TargetBack, Zenon
<1>4. ASSUME NEW b \in RevertHPA(k)
      PROVE  b = h
  <2>1. PICK target \in UnmarshalTarget(k.ref) : b = [f |-> Renamed(k.f, AntiFunction(HorizontalPodAutoscaler)), target |-> target]
    BY DEF RevertHPA
  <2>2. target = h.target
    BY <1>3
  <2> QED
    BY <1>0, <1>2, <2>1, <2>2, Zenon
<1> QED
  BY <1>4

-----------------------------------------------------------------------------
(***************************************************************************)
(* Names whose colons are escaped                                          *)
(***************************************************************************)
\* The function inside IsEscaped: after which of the first n tokens of s is
\* the next one escaped?
IsEscaping(f, s, n) == f = [k \in 0..n |-> k # 0 /\ s[k] = "\\" /\ ~f[k - 1]]

\* There is one, built token by token.
LEMMA EscapingExists ==
  ASSUME NEW s, NEW n \in Nat
  PROVE  \E f : IsEscaping(f, s, n)
<1> DEFINE step(b, k) == s[k] = "\\" /\ ~b
           S == {m \in Nat : \E f : IsEscaping(f, s, m)}
<1>1. 0 \in S
  <2> DEFINE f == [k \in 0..0 |-> FALSE]
  <2>1. \A k \in 0..0 : ~(k # 0)
    OBVIOUS
  <2>2. f = [k \in 0..0 |-> k # 0 /\ s[k] = "\\" /\ ~f[k - 1]]
    BY <2>1
  <2> HIDE DEF f
  <2>3. IsEscaping(f, s, 0)
    BY <2>2, Zenon DEF IsEscaping
  <2> QED
    BY <2>3
<1>2. ASSUME NEW m \in Nat, m \in S
      PROVE  m + 1 \in S
  <2>1. PICK f : f = [k \in 0..m |-> k # 0 /\ s[k] = "\\" /\ ~f[k - 1]]
    BY <1>2 DEF IsEscaping
  <2> DEFINE g == [k \in 0..m + 1 |-> k # 0 /\ s[k] = "\\" /\ ~f[k - 1]]
  <2>2. \A k \in 0..m : g[k] = f[k]
    <3>1. \A k \in 0..m : k \in 0..m + 1
      OBVIOUS
    <3> QED
      BY <2>1, <3>1, Zenon
  <2>3. \A k \in 0..m + 1 : k # 0 => k - 1 \in 0..m
    OBVIOUS
  <2>4. \A k \in 0..m + 1 : (k # 0 /\ s[k] = "\\" /\ ~f[k - 1]) = (k # 0 /\ s[k] = "\\" /\ ~g[k - 1])
    <3> HIDE DEF g
    <3> QED
      BY <2>2, <2>3, Zenon
  <2>5. g = [k \in 0..m + 1 |-> k # 0 /\ s[k] = "\\" /\ ~g[k - 1]]
    <3> DEFINE h == g
    <3>1. h = [k \in 0..m + 1 |-> k # 0 /\ s[k] = "\\" /\ ~f[k - 1]]
      OBVIOUS
    <3>2. \A k \in 0..m + 1 : (k # 0 /\ s[k] = "\\" /\ ~f[k - 1]) = (k # 0 /\ s[k] = "\\" /\ ~h[k - 1])
      BY <2>4
    <3> HIDE DEF h
    <3>3. h = [k \in 0..m + 1 |-> k # 0 /\ s[k] = "\\" /\ ~h[k - 1]]
      BY <3>1, <3>2, Zenon
    <3> QED
      BY <3>3 DEF h
  <2> HIDE DEF g
  <2>6. IsEscaping(g, s, m + 1)
    BY <2>5, Zenon DEF IsEscaping
  <2> QED
    BY <2>6
<1>3. Nat \subseteq S
  <2> HIDE DEF S
  <2> QED
    BY <1>1, <1>2, InductionOnSet
<1> QED
  BY <1>3, Zenon

\* The first token is not escaped, and any other is if the one before it is
\* a backslash that is not.
LEMMA EscapedStep ==
  ASSUME NEW s, Len(s) \in Nat
  PROVE  /\ ~IsEscaped(s, 1)
         /\ \A i \in 1..Len(s) : IsEscaped(s, i + 1) <=> (s[i] = "\\" /\ ~IsEscaped(s, i))
<1> DEFINE f == CHOOSE g : g = [k \in 0..Len(s) |-> k # 0 /\ s[k] = "\\" /\ ~g[k - 1]]
<1>1. \E g : g = [k \in 0..Len(s) |-> k # 0 /\ s[k] = "\\" /\ ~g[k - 1]]
  <2>1. PICK g : IsEscaping(g, s, Len(s))
    BY EscapingExists
  <2> WITNESS g
  <2> QED
    BY <2>1, Zenon DEF IsEscaping
<1>2. f = [k \in 0..Len(s) |-> k # 0 /\ s[k] = "\\" /\ ~f[k - 1]]
  BY <1>1, Zenon
<1>3. \A i : IsEscaped(s, i) = f[i - 1]
  BY Zenon DEF IsEscaped
<1> HIDE DEF f
<1>4. 1 - 1 = 0 /\ 0 \in 0..Len(s)
  OBVIOUS
<1>5. f[0] = FALSE
  BY <1>2, <1>4, Zenon
<1>6. ~IsEscaped(s, 1)
  BY <1>3, <1>4, <1>5, Zenon
<1>7. ASSUME NEW i \in 1..Len(s)
      PROVE  IsEscaped(s, i + 1) <=> (s[i] = "\\" /\ ~IsEscaped(s, i))
  <2>1. (i + 1) - 1 = i /\ i \in 0..Len(s) /\ i # 0
    OBVIOUS
  <2>2. f[i] = (i # 0 /\ s[i] = "\\" /\ ~f[i - 1])
    BY <1>2, <2>1, Zenon
  <2>3. IsEscaped(s, i) = f[i - 1] /\ IsEscaped(s, i + 1) = f[(i + 1) - 1]
    BY <1>3
  <2> QED
    BY <2>1, <2>2, <2>3, Zenon
<1> QED
  BY <1>6, <1>7, Zenon

\* How a token of a name is written.
Escaping(token) == IF token \in {"\\", ":"} THEN <<"\\", token>> ELSE <<token>>

\* Where each token of a name is in the escaped name: p[n] tokens of it are
\* the first n of the name, and it is made of nothing else.
IsPlacement(p, name, e) ==
  /\ p \in [0..Len(name) -> Nat]
  /\ p[0] = 0 /\ p[Len(name)] = Len(e)
  /\ \A n \in 1..Len(name) :
       /\ p[n] <= Len(e)
       /\ IF name[n] \in {"\\", ":"} THEN p[n] = p[n - 1] + 2 /\ e[p[n - 1] + 1] = "\\" /\ e[p[n - 1] + 2] = name[n]
                                     ELSE p[n] = p[n - 1] + 1 /\ e[p[n - 1] + 1] = name[n]

\* Escaping puts each token of a name somewhere, in order.
LEMMA EscapeNamePlaces ==
  ASSUME NEW T, "\\" \in T, NEW name \in Seq(T)
  PROVE  EscapeName(name) \in Seq(T) /\ \E p : IsPlacement(p, name, EscapeName(name))
<1> DEFINE parts == [i \in 1..Len(name) |-> Escaping(name[i])]
           e == EscapeName(name)
           part(n) == FlattenSeq(SubSeq(parts, 1, n))
           p == [n \in 0..Len(name) |-> Len(part(n))]
<1>0. Len(name) \in Nat /\ DOMAIN name = 1..Len(name) /\ \A i \in 1..Len(name) : name[i] \in T
  OBVIOUS
<1>1. ASSUME NEW i \in 1..Len(name)
      PROVE  Escaping(name[i]) \in Seq(T)
  BY <1>0 DEF Escaping
<1>2. parts \in Seq(Seq(T)) /\ Len(parts) = Len(name) /\ \A i \in 1..Len(name) : parts[i] = Escaping(name[i])
  <2>1. \A i \in 1..Len(name) : Escaping(name[i]) \in Seq(T)
    BY <1>1
  <2> QED
    BY <1>0, <2>1
<1>3. e = FlattenSeq(parts)
  BY <1>0, Zenon DEF EscapeName, Escaping
<1> HIDE DEF parts, e
<1>4. e \in Seq(T)
  BY <1>2, <1>3, FlattenSeqType
<1>5. ASSUME NEW n \in 0..Len(name)
      PROVE  part(n) \in Seq(T) /\ Len(part(n)) \in Nat /\ Len(part(n)) <= Len(e) /\ \A i \in 1..Len(part(n)) : e[i] = part(n)[i]
  <2>1. SubSeq(parts, 1, n) \in Seq(Seq(T)) /\ n \in 0..Len(parts)
    BY <1>0, <1>2
  <2>2. part(n) \in Seq(T)
    BY <2>1, FlattenSeqType
  <2>3. Len(part(n)) \in Nat
    <3> HIDE DEF part
    <3> QED BY <2>2
  <2> QED
    BY <1>2, <1>3, <2>1, <2>2, <2>3, FlattenSeqBegins
<1>6. part(0) = <<>> /\ part(Len(name)) = e
  <2>1. SubSeq(parts, 1, 0) = <<>> /\ SubSeq(parts, 1, Len(name)) = parts
    BY <1>2
  <2> QED
    BY <1>3, <2>1, FlattenSeqEmpty
<1>7. ASSUME NEW n \in 1..Len(name)
      PROVE  part(n) = part(n - 1) \o Escaping(name[n])
  <2> DEFINE m == n - 1
  <2>1. m \in 0..Len(parts) - 1 /\ m + 1 = n
    BY <1>0, <1>2
  <2> HIDE DEF m
  <2>2. FlattenSeq(SubSeq(parts, 1, m + 1)) = FlattenSeq(SubSeq(parts, 1, m)) \o parts[m + 1]
    BY <1>2, <2>1, FlattenSeqPrefix
  <2> QED
    BY <1>2, <2>1, <2>2 DEF m
<1>p. p \in [0..Len(name) -> Nat] /\ \A n \in 0..Len(name) : p[n] = Len(part(n))
  BY <1>5
<1> HIDE DEF part, p
<1>8. p[0] = 0 /\ p[Len(name)] = Len(e)
  <2>1. 0 \in 0..Len(name) /\ Len(name) \in 0..Len(name) /\ Len(<<>>) = 0
    BY <1>0
  <2> QED
    BY <1>6, <1>p, <2>1
<1>9. ASSUME NEW n \in 1..Len(name)
      PROVE  /\ p[n] <= Len(e)
             /\ IF name[n] \in {"\\", ":"} THEN p[n] = p[n - 1] + 2 /\ e[p[n - 1] + 1] = "\\" /\ e[p[n - 1] + 2] = name[n]
                                           ELSE p[n] = p[n - 1] + 1 /\ e[p[n - 1] + 1] = name[n]
  <2> DEFINE a == part(n - 1)
             b == part(n)
             x == Escaping(name[n])
  <2>1. n \in 0..Len(name) /\ n - 1 \in 0..Len(name)
    BY <1>0
  <2>2. a \in Seq(T) /\ b \in Seq(T) /\ b = a \o x /\ x \in Seq(T) /\ p[n] = Len(b) /\ p[n - 1] = Len(a)
        /\ Len(b) <= Len(e) /\ \A i \in 1..Len(b) : e[i] = b[i]
    BY <1>1, <1>5, <1>7, <1>p, <2>1
  <2>3. IF name[n] \in {"\\", ":"} THEN x = <<"\\", name[n]>> ELSE x = <<name[n]>>
    BY DEF Escaping
  <2> HIDE DEF a, b, x
  <2>4. CASE name[n] \in {"\\", ":"}
    <3>1. x[1] = "\\" /\ x[2] = name[n] /\ Len(x) = 2
      BY <2>3, <2>4
    <3>2. Len(b) = Len(a) + 2 /\ b[Len(a) + 1] = "\\" /\ b[Len(a) + 2] = name[n] /\ Len(a) \in Nat
      <4>1. Len(a \o x) = Len(a) + Len(x) /\ Len(a) \in Nat /\ \A i \in 1..Len(x) : (a \o x)[Len(a) + i] = x[i]
        BY <2>2
      <4>2. 1 \in 1..2 /\ 2 \in 1..2
        OBVIOUS
      <4> QED
        BY <2>2, <3>1, <4>1, <4>2, Zenon
    <3>3. Len(a) + 1 \in 1..Len(b) /\ Len(a) + 2 \in 1..Len(b)
      BY <3>2
    <3> QED
      BY <2>2, <2>4, <3>2, <3>3
  <2>5. CASE name[n] \notin {"\\", ":"}
    <3>1. x[1] = name[n] /\ Len(x) = 1
      BY <2>3, <2>5
    <3>2. Len(b) = Len(a) + 1 /\ b[Len(a) + 1] = name[n] /\ Len(a) \in Nat
      <4>1. Len(a \o x) = Len(a) + Len(x) /\ Len(a) \in Nat /\ \A i \in 1..Len(x) : (a \o x)[Len(a) + i] = x[i]
        BY <2>2
      <4>2. 1 \in 1..1
        OBVIOUS
      <4> QED
        BY <2>2, <3>1, <4>1, <4>2, Zenon
    <3>3. Len(a) + 1 \in 1..Len(b)
      BY <3>2
    <3> QED
      BY <2>2, <2>5, <3>2, <3>3
  <2> QED
    BY <2>4, <2>5
<1>10. IsPlacement(p, name, e)
  BY <1>8, <1>9, <1>p, Zenon DEF IsPlacement
<1> QED
  BY <1>4, <1>10 DEF e

\* In an escaped name, after whatever has no backslash, the tokens of the
\* name start where nothing is escaped, and no colon is left that is not.
LEMMA EscapedColons ==
  ASSUME NEW T, "\\" \in T, NEW pre \in Seq(T), "\\" \notin Range(pre), NEW name \in Seq(T), NEW e \in Seq(T),
         NEW p, IsPlacement(p, name, e)
  PROVE  /\ \A i \in 1..Len(pre) + 1 : ~IsEscaped(pre \o e, i)
         /\ \A n \in 0..Len(name) : ~IsEscaped(pre \o e, (Len(pre) + p[n]) + 1)
         /\ \A i \in 1..Len(e) : (pre \o e)[Len(pre) + i] = ":" => IsEscaped(pre \o e, Len(pre) + i)
<1> DEFINE s == pre \o e
           A == Len(pre)
           Esc(i) == IsEscaped(s, i)
<1>0. /\ s \in Seq(T) /\ Len(s) = A + Len(e) /\ A \in Nat /\ Len(e) \in Nat /\ Len(s) \in Nat /\ Len(name) \in Nat
      /\ \A i \in 1..A : s[i] = pre[i]
      /\ \A i \in 1..Len(e) : s[A + i] = e[i]
  OBVIOUS
<1>1. ~Esc(1) /\ \A i \in 1..Len(s) : Esc(i + 1) <=> (s[i] = "\\" /\ ~Esc(i))
  <2> HIDE DEF s
  <2> QED
    BY <1>0, EscapedStep
<1>2. \A i \in 1..A : s[i] # "\\"
  <2>1. \A i \in 1..A : pre[i] \in Range(pre)
    BY DEF Range
  <2> HIDE DEF s
  <2> QED
    BY <1>0, <2>1
<1>s. s = pre \o e
  OBVIOUS
<1> HIDE DEF s, A, Esc
<1>3. ASSUME NEW i \in 1..A + 1
      PROVE  ~Esc(i)
  <2>1. CASE i = 1
    BY <2>1, <1>1
  <2>2. CASE i # 1
    <3> DEFINE j == i - 1
    <3>1. j \in 1..A /\ j \in 1..Len(s) /\ j + 1 = i
      BY <2>2, <1>0
    <3> HIDE DEF j
    <3> QED
      BY <1>1, <1>2, <3>1
  <2> QED
    BY <2>1, <2>2
<1> DEFINE P(n) == ~Esc((A + p[n]) + 1) /\ \A i \in 1..p[n] : s[A + i] = ":" => Esc(A + i)
           S == {n \in Nat : n <= Len(name) => P(n)}
<1>4. 0 \in S
  <2>1. p[0] = 0 /\ (A + 0) + 1 = A + 1 /\ A + 1 \in 1..A + 1 /\ \A i \in 1..0 : FALSE
    BY <1>0 DEF IsPlacement
  <2> QED
    BY <1>3, <2>1
<1>5. ASSUME NEW n \in Nat, n \in S
      PROVE  n + 1 \in S
  <2> SUFFICES ASSUME n + 1 <= Len(name)
               PROVE  P(n + 1)
    OBVIOUS
  <2> DEFINE m == n + 1
             q == p[n]
             B == A + q
  <2>1. m \in 1..Len(name) /\ m - 1 = n /\ n <= Len(name) /\ n \in 0..Len(name) /\ m \in 0..Len(name)
    BY <1>0
  <2>2. P(n)
    BY <1>5, <2>1
  <2>3. q \in Nat /\ p[m] \in Nat /\ B \in Nat /\ B = A + q
    <3>1. p \in [0..Len(name) -> Nat]
      BY DEF IsPlacement
    <3>2. p[n] \in Nat /\ p[m] \in Nat
      BY <2>1, <3>1, Zenon
    <3> QED
      BY <1>0, <3>2
  <2>4. /\ p[m] <= Len(e)
        /\ IF name[m] \in {"\\", ":"} THEN p[m] = q + 2 /\ e[q + 1] = "\\" /\ e[q + 2] = name[m]
                                      ELSE p[m] = q + 1 /\ e[q + 1] = name[m]
    <3>1. /\ p[m] <= Len(e)
          /\ IF name[m] \in {"\\", ":"} THEN p[m] = p[m - 1] + 2 /\ e[p[m - 1] + 1] = "\\" /\ e[p[m - 1] + 2] = name[m]
                                        ELSE p[m] = p[m - 1] + 1 /\ e[p[m - 1] + 1] = name[m]
      <4> HIDE DEF m
      <4> QED
        BY <2>1, Zenon DEF IsPlacement
    <3> QED
      BY <2>1, <3>1
  <2>5. ~Esc(B + 1) /\ \A i \in 1..q : s[A + i] = ":" => Esc(A + i)
    BY <2>2
  <2> SUFFICES ~Esc((A + p[m]) + 1) /\ \A i \in 1..p[m] : s[A + i] = ":" => Esc(A + i)
    OBVIOUS
  <2> HIDE DEF m, q, B, P, S
  <2>6. CASE name[m] \in {"\\", ":"}
    <3>0. /\ q + 1 \in 1..Len(e) /\ q + 2 \in 1..Len(e) /\ A + (q + 1) = B + 1 /\ A + (q + 2) = B + 2
          /\ B + 1 \in 1..Len(s) /\ B + 2 \in 1..Len(s) /\ (B + 1) + 1 = B + 2 /\ (A + p[m]) + 1 = (B + 2) + 1
          /\ \A i \in 1..p[m] : i \in 1..q \/ i = q + 1 \/ i = q + 2
      <4>1. p[m] = q + 2 /\ p[m] <= Len(e)
        BY <2>4, <2>6, Zenon
      <4> QED
        BY <1>0, <2>3, <4>1
    <3>1. s[B + 1] = "\\" /\ s[B + 2] = name[m]
      BY <1>0, <2>4, <2>6, <3>0
    <3>2. Esc(B + 2)
      BY <1>1, <2>5, <3>0, <3>1
    <3>3. ~Esc((B + 2) + 1)
      BY <1>1, <3>0, <3>2
    <3>4. ASSUME NEW i \in 1..p[m], s[A + i] = ":"
          PROVE  Esc(A + i)
      <4>1. CASE i \in 1..q
        BY <2>5, <3>4, <4>1
      <4>2. CASE i = q + 1
        BY <3>0, <3>1, <3>4, <4>2
      <4>3. CASE i = q + 2
        BY <3>0, <3>2, <4>3
      <4> QED
        BY <3>0, <4>1, <4>2, <4>3
    <3> QED
      BY <3>0, <3>3, <3>4
  <2>7. CASE name[m] \notin {"\\", ":"}
    <3>0. /\ q + 1 \in 1..Len(e) /\ A + (q + 1) = B + 1 /\ B + 1 \in 1..Len(s) /\ (A + p[m]) + 1 = (B + 1) + 1
          /\ \A i \in 1..p[m] : i \in 1..q \/ i = q + 1
      <4>1. p[m] = q + 1 /\ p[m] <= Len(e)
        BY <2>4, <2>7, Zenon
      <4> QED
        BY <1>0, <2>3, <4>1
    <3>1. s[B + 1] # "\\" /\ s[B + 1] # ":"
      BY <1>0, <2>4, <2>7, <3>0
    <3>2. ~Esc((B + 1) + 1)
      BY <1>1, <3>0, <3>1
    <3>3. ASSUME NEW i \in 1..p[m], s[A + i] = ":"
          PROVE  Esc(A + i)
      <4>1. CASE i \in 1..q
        BY <2>5, <3>3, <4>1
      <4>2. CASE i = q + 1
        BY <3>0, <3>1, <3>3, <4>2
      <4> QED
        BY <3>0, <4>1, <4>2
    <3> QED
      BY <3>0, <3>2, <3>3
  <2> QED
    BY <2>6, <2>7
<1>6. Nat \subseteq S
  <2> HIDE DEF S
  <2> QED
    BY <1>4, <1>5, InductionOnSet
<1>7. \A n \in 0..Len(name) : P(n)
  <2>1. \A n \in 0..Len(name) : n \in Nat /\ n <= Len(name)
    OBVIOUS
  <2> HIDE DEF P
  <2> QED
    BY <1>6, <2>1
<1>8. \A i \in 1..Len(e) : s[A + i] = ":" => Esc(A + i)
  <2>1. p[Len(name)] = Len(e) /\ Len(name) \in 0..Len(name)
    BY <1>0 DEF IsPlacement
  <2> QED
    BY <1>7, <2>1
<1>9. \A n \in 0..Len(name) : ~Esc((A + p[n]) + 1)
  BY <1>7
<1>10. (\A i \in 1..A + 1 : ~Esc(i)) /\ (\A n \in 0..Len(name) : ~Esc((A + p[n]) + 1)) /\ \A i \in 1..Len(e) : s[A + i] = ":" => Esc(A + i)
  BY <1>3, <1>8, <1>9
<1> QED
  BY <1>10 DEF s, A, Esc

\* A name is read as it was written.
LEMMA UnescapeNameBack ==
  ASSUME NEW T, "\\" \in T, NEW name \in Seq(T)
  PROVE  UnescapeName(EscapeName(name)) = name
<1> DEFINE e == EscapeName(name)
           keep(i) == IF e[i] = "\\" /\ ~IsEscaped(e, i) THEN Empty ELSE <<e[i]>>
           parts == [i \in 1..Len(e) |-> keep(i)]
           part(n) == FlattenSeq(SubSeq(parts, 1, n))
<1>0. e \in Seq(T) /\ \E p : IsPlacement(p, name, e)
  BY EscapeNamePlaces
<1> HIDE DEF e
<1>1. PICK p : IsPlacement(p, name, e)
  BY <1>0
<1>2. /\ Len(name) \in Nat /\ Len(e) \in Nat /\ DOMAIN e = 1..Len(e) /\ p \in [0..Len(name) -> Nat]
      /\ p[0] = 0 /\ p[Len(name)] = Len(e)
  BY <1>0, <1>1 DEF IsPlacement
<1>3. UnescapeName(e) = FlattenSeq(parts)
  BY <1>2, Zenon DEF UnescapeName
<1>4. parts \in Seq(Seq(T)) /\ Len(parts) = Len(e) /\ \A i \in 1..Len(e) : parts[i] = keep(i)
  <2>1. \A i \in 1..Len(e) : keep(i) \in Seq(T)
    BY <1>0 DEF Empty
  <2> HIDE DEF keep
  <2> QED
    BY <1>2, <2>1
<1>5. \A n \in 0..Len(name) : ~IsEscaped(e, p[n] + 1)
  <2> DEFINE pre == <<>>
  <2>1. pre \in Seq(T) /\ "\\" \notin Range(pre) /\ Len(pre) = 0 /\ pre \o e = e
    BY <1>0 DEF Range
  <2> HIDE DEF pre
  <2>2. \A n \in 0..Len(name) : ~IsEscaped(pre \o e, (Len(pre) + p[n]) + 1)
    BY <1>0, <1>1, <2>1, EscapedColons
  <2>3. \A n \in 0..Len(name) : Len(pre) + p[n] = p[n]
    BY <1>2, <2>1
  <2> QED
    BY <2>1, <2>2, <2>3, Zenon
<1>6. \A i \in 1..Len(e) : IsEscaped(e, i + 1) <=> (e[i] = "\\" /\ ~IsEscaped(e, i))
  BY <1>2, EscapedStep
<1>7. ASSUME NEW n \in Nat, n + 1 <= Len(e)
      PROVE  part(n + 1) = part(n) \o keep(n + 1)
  <2>1. n \in 0..Len(parts) - 1 /\ n + 1 \in 1..Len(e)
    BY <1>2, <1>4, <1>7
  <2> HIDE DEF parts, keep
  <2>2. FlattenSeq(SubSeq(parts, 1, n + 1)) = FlattenSeq(SubSeq(parts, 1, n)) \o parts[n + 1]
    BY <1>4, <2>1, FlattenSeqPrefix
  <2> QED
    BY <1>4, <2>1, <2>2
<1>8. part(0) = <<>> /\ part(Len(e)) = FlattenSeq(parts)
  <2> HIDE DEF parts, keep
  <2>1. SubSeq(parts, 1, 0) = <<>> /\ SubSeq(parts, 1, Len(e)) = parts
    BY <1>4
  <2> QED
    BY <2>1, FlattenSeqEmpty
<1>k. \A i \in 1..Len(e) : keep(i) = IF e[i] = "\\" /\ ~IsEscaped(e, i) THEN Empty ELSE <<e[i]>>
  OBVIOUS
<1> HIDE DEF parts, keep, part
<1> DEFINE S == {n \in Nat : n <= Len(name) => part(p[n]) = SubSeq(name, 1, n)}
<1>9. 0 \in S
  <2>1. SubSeq(name, 1, 0) = <<>>
    OBVIOUS
  <2> QED
    BY <1>2, <1>8, <2>1
<1>10. ASSUME NEW n \in Nat, n \in S
       PROVE  n + 1 \in S
  <2> SUFFICES ASSUME n + 1 <= Len(name)
               PROVE  part(p[n + 1]) = SubSeq(name, 1, n + 1)
    OBVIOUS
  <2> DEFINE m == n + 1
             q == p[n]
             before == SubSeq(name, 1, n)
  <2>1. m \in 1..Len(name) /\ m - 1 = n /\ n <= Len(name) /\ n \in 0..Len(name) /\ m \in 0..Len(name)
    BY <1>2
  <2>2. part(q) = before
    BY <1>10, <2>1
  <2>3. before \in Seq(T) /\ name[m] \in T /\ SubSeq(name, 1, m) = Append(before, name[m])
    BY <2>1
  <2>4. q \in Nat /\ p[m] \in Nat
    BY <1>2, <2>1, Zenon
  <2>5. /\ p[m] <= Len(e)
        /\ IF name[m] \in {"\\", ":"} THEN p[m] = q + 2 /\ e[q + 1] = "\\" /\ e[q + 2] = name[m]
                                      ELSE p[m] = q + 1 /\ e[q + 1] = name[m]
    <3>1. /\ p[m] <= Len(e)
          /\ IF name[m] \in {"\\", ":"} THEN p[m] = p[m - 1] + 2 /\ e[p[m - 1] + 1] = "\\" /\ e[p[m - 1] + 2] = name[m]
                                        ELSE p[m] = p[m - 1] + 1 /\ e[p[m - 1] + 1] = name[m]
      <4> HIDE DEF m
      <4> QED
        BY <1>1, <2>1, Zenon DEF IsPlacement
    <3> QED
      BY <2>1, <3>1
  <2>6. ~IsEscaped(e, q + 1)
    BY <1>5, <2>1
  <2> SUFFICES part(p[m]) = Append(before, name[m])
    BY <2>3
  <2> HIDE DEF m, q, before, S
  <2>7. before \o <<name[m]>> = Append(before, name[m]) /\ before \o Empty = before
    BY <2>3 DEF Empty
  <2>8. CASE name[m] \in {"\\", ":"}
    <3>1. p[m] = q + 2 /\ p[m] <= Len(e) /\ e[q + 1] = "\\" /\ e[q + 2] = name[m]
      BY <2>5, <2>8, Zenon
    <3>2. q + 1 \in 1..Len(e) /\ q + 2 \in 1..Len(e) /\ q + 1 \in Nat /\ q + 1 <= Len(e) /\ (q + 1) + 1 <= Len(e) /\ (q + 1) + 1 = q + 2
      BY <1>2, <2>4, <3>1
    <3>3. IsEscaped(e, q + 2)
      BY <1>6, <2>6, <3>1, <3>2
    <3>4. keep(q + 1) = Empty /\ keep(q + 2) = <<name[m]>>
      BY <1>k, <2>6, <3>1, <3>2, <3>3
    <3>5. part(q + 1) = part(q) \o keep(q + 1)
      BY <1>7, <2>4, <3>2
    <3>6. part((q + 1) + 1) = part(q + 1) \o keep((q + 1) + 1)
      BY <1>7, <3>2
    <3> QED
      BY <2>2, <2>7, <3>1, <3>2, <3>4, <3>5, <3>6
  <2>9. CASE name[m] \notin {"\\", ":"}
    <3>1. p[m] = q + 1 /\ p[m] <= Len(e) /\ e[q + 1] = name[m]
      BY <2>5, <2>9, Zenon
    <3>2. q + 1 \in 1..Len(e) /\ q + 1 <= Len(e)
      BY <1>2, <2>4, <3>1
    <3>3. keep(q + 1) = <<name[m]>>
      BY <1>k, <2>9, <3>1, <3>2
    <3>4. part(q + 1) = part(q) \o keep(q + 1)
      BY <1>7, <2>4, <3>2
    <3> QED
      BY <2>2, <2>7, <3>1, <3>3, <3>4
  <2> QED
    BY <2>8, <2>9
<1>11. Nat \subseteq S
  <2> HIDE DEF S
  <2> QED
    BY <1>9, <1>10, InductionOnSet
<1>12. Len(name) \in S /\ Len(name) <= Len(name) /\ SubSeq(name, 1, Len(name)) = name
  BY <1>2, <1>11
<1>13. part(p[Len(name)]) = name
  BY <1>12
<1> QED
  BY <1>2, <1>3, <1>8, <1>13 DEF e

\* Two parts of a reference before its name: the text is cut after the first
\* and nowhere else.
LEMMA NameAfterOne ==
  ASSUME NEW T, "\\" \in T, ":" \in T, NEW a \in Seq(T), ":" \notin Range(a), "\\" \notin Range(a), NEW name \in Seq(T)
  PROVE  SplitAtUnescapedColons((a \o <<":">>) \o EscapeName(name)) = <<a, EscapeName(name)>>
<1> DEFINE e == EscapeName(name)
           pre == a \o <<":">>
           s == pre \o e
           cuts == {i \in DOMAIN s : s[i] = ":" /\ ~IsEscaped(s, i)}
           c == Len(a) + 1
<1>0. e \in Seq(T) /\ \E p : IsPlacement(p, name, e)
  BY EscapeNamePlaces
<1> HIDE DEF e
<1>1. /\ pre \in Seq(T) /\ Len(pre) = c /\ Len(a) \in Nat /\ Range(pre) = Range(a) \cup {":"}
  <2>1. pre \in Seq(T) /\ Len(pre) = c /\ Len(a) \in Nat /\ <<":">> \in Seq(T)
    OBVIOUS
  <2>2. Range(pre) = Range(a) \cup Range(<<":">>)
    BY <2>1, RangeConcatenation, ZenonT(40)
  <2>3. Range(<<":">>) = {":"}
    BY DEF Range
  <2> QED
    BY <2>1, <2>2, <2>3, Zenon
<1>2. "\\" \notin Range(pre)
  <2> HIDE DEF pre
  <2> QED
    BY <1>1
<1>3. /\ s \in Seq(T) /\ Len(s) = Len(a) + 1 + Len(e) /\ Len(e) \in Nat /\ DOMAIN s = 1..Len(a) + 1 + Len(e)
      /\ s[Len(a) + 1] = ":"
      /\ \A i \in 1..Len(a) : s[i] = a[i]
  BY <1>0, RangeOfThree
<1>4. /\ \A i \in 1..Len(pre) + 1 : ~IsEscaped(s, i)
      /\ \A i \in 1..Len(e) : s[Len(pre) + i] = ":" => IsEscaped(s, Len(pre) + i)
  <2> HIDE DEF pre
  <2>1. PICK p : IsPlacement(p, name, e)
    BY <1>0
  <2> QED
    BY <1>0, <1>1, <1>2, <2>1, EscapedColons
<1>5. \A k \in 1..Len(s) : k \in cuts <=> k = Len(a) + 1
  <2>1. \A i \in 1..Len(a) : a[i] \in Range(a)
    BY DEF Range
  <2>c. c = Len(a) + 1
    OBVIOUS
  <2> HIDE DEF s, pre, c
  <2> TAKE k \in 1..Len(s)
  <2>2. k \in cuts <=> (s[k] = ":" /\ ~IsEscaped(s, k))
    BY <1>3
  <2>3. k \in 1..Len(a) \/ k = Len(a) + 1 \/ (k - c \in 1..Len(e) /\ k = c + (k - c) /\ k # Len(a) + 1)
    BY <1>1, <1>3, <2>c
  <2>4. CASE k \in 1..Len(a)
    <3>1. s[k] # ":" /\ k # Len(a) + 1
      BY <1>1, <1>3, <2>1, <2>4
    <3> QED
      BY <2>2, <3>1
  <2>5. CASE k = Len(a) + 1
    <3>1. k \in 1..Len(pre) + 1
      BY <1>1, <2>5, <2>c
    <3> QED
      BY <1>3, <1>4, <2>2, <2>5, <3>1
  <2>6. CASE k - c \in 1..Len(e) /\ k = c + (k - c) /\ k # Len(a) + 1
    <3> DEFINE i == k - c
    <3>1. i \in 1..Len(e) /\ k = Len(pre) + i
      BY <1>1, <2>6
    <3> HIDE DEF i
    <3> QED
      BY <1>4, <2>2, <2>6, <3>1
  <2> QED
    BY <2>3, <2>4, <2>5, <2>6
<1>6. SplitAt(s, cuts) = <<a, e>>
  <2> HIDE DEF cuts
  <2> QED
    BY <1>0, <1>5, SplitInTwoAt
<1>7. SplitAtUnescapedColons(s) = SplitAt(s, cuts)
  BY Zenon DEF SplitAtUnescapedColons
<1> QED
  BY <1>6, <1>7 DEF e

\* With a namespace, it is cut after that too.
LEMMA NameAfterTwo ==
  ASSUME NEW T, "\\" \in T, ":" \in T, NEW a \in Seq(T), ":" \notin Range(a), "\\" \notin Range(a),
         NEW b \in Seq(T), ":" \notin Range(b), "\\" \notin Range(b), NEW name \in Seq(T)
  PROVE  SplitAtUnescapedColons((((a \o <<":">>) \o b) \o <<":">>) \o EscapeName(name)) = <<a, b, EscapeName(name)>>
<1> DEFINE e == EscapeName(name)
           ab == (a \o <<":">>) \o b
           pre == ab \o <<":">>
           s == pre \o e
           cuts == {i \in DOMAIN s : s[i] = ":" /\ ~IsEscaped(s, i)}
           c == Len(a) + 1
           d == Len(a) + 1 + Len(b) + 1
<1>0. e \in Seq(T) /\ \E p : IsPlacement(p, name, e)
  BY EscapeNamePlaces
<1> HIDE DEF e
<1>1. /\ ab \in Seq(T) /\ Len(ab) = Len(a) + 1 + Len(b) /\ Len(a) \in Nat /\ Len(b) \in Nat /\ ab[Len(a) + 1] = ":"
      /\ (\A i \in 1..Len(a) : ab[i] = a[i])
      /\ (\A i \in Len(a) + 2..Len(a) + 1 + Len(b) : ab[i] = b[i - (Len(a) + 1)] /\ i - (Len(a) + 1) \in 1..Len(b))
      /\ Range(ab) = (Range(a) \cup {":"}) \cup Range(b)
  BY RangeOfThree
<1>2. ASSUME NEW i \in 1..Len(ab)
      PROVE  ab[i] = ":" <=> i = c
  <2>1. (\A j \in 1..Len(a) : a[j] \in Range(a)) /\ (\A j \in 1..Len(b) : b[j] \in Range(b))
    BY DEF Range
  <2> HIDE DEF ab
  <2>2. i \in 1..Len(a) \/ i = Len(a) + 1 \/ i \in Len(a) + 2..Len(a) + 1 + Len(b)
    <3>1. Len(ab) = Len(a) + 1 + Len(b) /\ Len(a) \in Nat /\ Len(b) \in Nat
      BY <1>1
    <3> QED
      BY <3>1
  <2>3. CASE i \in 1..Len(a)
    BY <1>1, <2>1, <2>3
  <2>4. CASE i = Len(a) + 1
    BY <1>1, <2>4
  <2>5. CASE i \in Len(a) + 2..Len(a) + 1 + Len(b)
    <3>1. ab[i] = b[i - (Len(a) + 1)] /\ i - (Len(a) + 1) \in 1..Len(b) /\ i # c
      BY <1>1, <2>5
    <3> QED
      BY <2>1, <3>1
  <2> QED
    BY <2>2, <2>3, <2>4, <2>5
<1>a. ab = (a \o <<":">>) \o b
  OBVIOUS
<1>d. d = Len(ab) + 1 /\ c \in 1..Len(ab) /\ d \in Nat
  BY <1>1
<1> HIDE DEF ab, c, d
<1>t. ab \in Seq(T) /\ Len(ab) \in Nat
  <2>1. ab \in Seq(T)
    BY <1>1
  <2> QED
    BY <2>1
<1>3. /\ pre \in Seq(T) /\ Len(pre) = d /\ Range(pre) = Range(ab) \cup {":"}
  <2>1. pre \in Seq(T) /\ Len(pre) = d /\ <<":">> \in Seq(T)
    BY <1>t, <1>d
  <2>2. Range(pre) = Range(ab) \cup Range(<<":">>)
    <3> DEFINE x == <<":">>
    <3>1. ab \in Seq(T) /\ x \in Seq(T)
      BY <1>t, <2>1
    <3> HIDE DEF x
    <3>2. Range(ab \o x) = Range(ab) \cup Range(x)
      BY <3>1, RangeConcatenation
    <3> QED
      BY <3>2 DEF x
  <2>3. Range(<<":">>) = {":"}
    BY DEF Range
  <2> QED
    BY <2>1, <2>2, <2>3, Zenon
<1>4. "\\" \notin Range(pre)
  <2> HIDE DEF pre
  <2> QED
    BY <1>1, <1>3
<1>5. /\ s \in Seq(T) /\ Len(s) = Len(ab) + 1 + Len(e) /\ Len(e) \in Nat /\ DOMAIN s = 1..Len(ab) + 1 + Len(e)
      /\ s[Len(ab) + 1] = ":"
      /\ \A i \in 1..Len(ab) : s[i] = ab[i]
  BY <1>0, <1>t, RangeOfThree
<1>6. /\ \A i \in 1..Len(pre) + 1 : ~IsEscaped(s, i)
      /\ \A i \in 1..Len(e) : s[Len(pre) + i] = ":" => IsEscaped(s, Len(pre) + i)
  <2> HIDE DEF pre
  <2>1. PICK p : IsPlacement(p, name, e)
    BY <1>0
  <2> QED
    BY <1>0, <1>3, <1>4, <2>1, EscapedColons
<1>7. \A k \in 1..Len(s) : k \in cuts <=> (k = c \/ k = d)
  <2> HIDE DEF s, pre
  <2> TAKE k \in 1..Len(s)
  <2>2. k \in cuts <=> (s[k] = ":" /\ ~IsEscaped(s, k))
    BY <1>5
  <2>3. k \in 1..Len(ab) \/ k = Len(ab) + 1 \/ (k - d \in 1..Len(e) /\ k = d + (k - d))
    BY <1>1, <1>5, <1>d
  <2>4. CASE k \in 1..Len(ab)
    <3>1. s[k] = ab[k] /\ (ab[k] = ":" <=> k = c) /\ k # d /\ k \in 1..Len(pre) + 1
      BY <1>1, <1>2, <1>3, <1>5, <1>d, <2>4
    <3> QED
      BY <1>6, <2>2, <3>1
  <2>5. CASE k = Len(ab) + 1
    <3>1. k \in 1..Len(pre) + 1 /\ k = d
      BY <1>1, <1>3, <1>d, <2>5
    <3> QED
      BY <1>5, <1>6, <2>2, <2>5, <3>1
  <2>6. CASE k - d \in 1..Len(e) /\ k = d + (k - d)
    <3> DEFINE i == k - d
    <3>1. i \in 1..Len(e) /\ k = Len(pre) + i /\ k # d /\ k # c
      BY <1>1, <1>3, <1>d, <2>6
    <3> HIDE DEF i
    <3> QED
      BY <1>6, <2>2, <3>1
  <2> QED
    BY <2>3, <2>4, <2>5, <2>6
<1>8. SplitAt(s, cuts) = <<a, b, e>>
  <2>1. s = (((a \o <<":">>) \o b) \o <<":">>) \o e
    BY <1>a
  <2> HIDE DEF s
  <2>2. \A k \in 1..Len(s) : k \in cuts <=> (k = Len(a) + 1 \/ k = Len(a) + 1 + Len(b) + 1)
    BY <1>7, Zenon DEF c, d
  <2> HIDE DEF cuts
  <2>3. \A k \in 1..Len((((a \o <<":">>) \o b) \o <<":">>) \o e) : k \in cuts <=> (k = Len(a) + 1 \/ k = Len(a) + 1 + Len(b) + 1)
    BY <2>1, <2>2, Zenon
  <2>4. SplitAt((((a \o <<":">>) \o b) \o <<":">>) \o e, cuts) = <<a, b, e>>
    BY <1>0, <2>3, SplitInThreeAt
  <2> QED
    BY <2>1, <2>4, Zenon
<1>9. SplitAtUnescapedColons(s) = SplitAt(s, cuts)
  BY Zenon DEF SplitAtUnescapedColons
<1>10. SplitAtUnescapedColons(s) = <<a, b, e>>
  BY <1>8, <1>9, Zenon
<1> QED
  BY <1>10, <1>a, Zenon DEF e

\* A subject is read as it was written.
LEMMA SubjectBack ==
  ASSUME NEW r, IsReference(r)
  PROVE  UnmarshalSubject(MarshalSubject(r)) \subseteq {r}
<1> DEFINE g == GroupKind(r)
           e == EscapeName(r.name)
           s == MarshalSubject(r)
           segments == SplitAtUnescapedColons(s)
           gk == SplitGroupKind(segments[1])
           T == Tokens(r)
<1>0. /\ r = Reference(r.group, r.kind, r.ns, r.name) /\ r.name \in Seq(T) /\ r.ns \in Seq(T) /\ ":" \in T /\ "\\" \in T
      /\ ":" \notin Range(r.ns) /\ "\\" \notin Range(r.ns)
  BY ReferenceType
<1>1. g \in Seq(T) /\ ":" \notin Range(g) /\ "\\" \notin Range(g) /\ SplitGroupKind(g) = [group |-> r.group, kind |-> r.kind]
  BY GroupKindBack
<1>2. e \in Seq(T) /\ UnescapeName(e) = r.name
  BY <1>0, EscapeNamePlaces, UnescapeNameBack
<1>3. /\ Len(segments) = 2 => UnmarshalSubject(s) = {Reference(gk.group, gk.kind, Empty, UnescapeName(segments[2]))}
      /\ Len(segments) = 3 => UnmarshalSubject(s) = {Reference(gk.group, gk.kind, segments[2], UnescapeName(segments[3]))}
  <2>1. UnmarshalSubject(s) = CASE Len(segments) = 2 -> {Reference(gk.group, gk.kind, Empty, UnescapeName(segments[2]))}
                                [] Len(segments) = 3 -> {Reference(gk.group, gk.kind, segments[2], UnescapeName(segments[3]))}
                                [] OTHER -> {}
    BY Zenon DEF UnmarshalSubject
  <2>2. 2 # 3
    OBVIOUS
  <2> HIDE DEF segments, s
  <2> QED
    BY <2>1, <2>2
<1>4. s = ((g \o (IF r.ns = Empty THEN Empty ELSE <<":">> \o r.ns)) \o <<":">>) \o e
  BY Zenon DEF MarshalSubject
<1>5. SplitGroupKind(g).group = r.group /\ SplitGroupKind(g).kind = r.kind
  BY <1>1
<1> HIDE DEF g, e, s, T
<1>6. CASE r.ns = Empty
  <2>1. g \o Empty = g
    BY <1>1 DEF Empty
  <2>2. s = (g \o <<":">>) \o e
    BY <1>4, <1>6, <2>1, Zenon
  <2>3. segments = <<g, e>>
    <3>1. SplitAtUnescapedColons((g \o <<":">>) \o EscapeName(r.name)) = <<g, EscapeName(r.name)>>
      BY <1>0, <1>1, NameAfterOne
    <3> QED
      BY <2>2, <3>1, Zenon DEF e
  <2>4. Len(segments) = 2 /\ segments[1] = g /\ segments[2] = e
    BY <2>3
  <2> HIDE DEF segments
  <2>5. UnmarshalSubject(s) = {Reference(r.group, r.kind, Empty, r.name)}
    BY <1>2, <1>3, <1>5, <2>4, Zenon
  <2> QED
    BY <1>0, <1>6, <2>5, Zenon DEF s
<1>7. CASE r.ns # Empty
  <2>1. g \o (<<":">> \o r.ns) = (g \o <<":">>) \o r.ns
    <3> DEFINE b == r.ns
    <3>1. b \in Seq(T) /\ g \in Seq(T) /\ <<":">> \in Seq(T)
      BY <1>0, <1>1
    <3> HIDE DEF b
    <3>2. g \o (<<":">> \o b) = (g \o <<":">>) \o b
      BY <3>1, ConcatAssociative
    <3> QED
      BY <3>2 DEF b
  <2>2. s = (((g \o <<":">>) \o r.ns) \o <<":">>) \o e
    BY <1>4, <1>7, <2>1, Zenon
  <2>3. segments = <<g, r.ns, e>>
    <3> DEFINE b == r.ns
               name == r.name
    <3>0. b \in Seq(T) /\ ":" \notin Range(b) /\ "\\" \notin Range(b) /\ name \in Seq(T)
      BY <1>0
    <3> HIDE DEF b, name
    <3>1. SplitAtUnescapedColons((((g \o <<":">>) \o b) \o <<":">>) \o EscapeName(name)) = <<g, b, EscapeName(name)>>
      BY <1>0, <1>1, <3>0, NameAfterTwo
    <3> QED
      BY <2>2, <3>1, Zenon DEF e, b, name
  <2>4. Len(segments) = 3 /\ segments[1] = g /\ segments[2] = r.ns /\ segments[3] = e
    BY <2>3
  <2> HIDE DEF segments
  <2>5. UnmarshalSubject(s) = {Reference(r.group, r.kind, r.ns, r.name)}
    BY <1>2, <1>3, <1>5, <2>4, Zenon
  <2> QED
    BY <1>0, <2>5, Zenon DEF s
<1> QED
  BY <1>6, <1>7

\* The role is read as it was or refused, if it has no group.
LEMMA RoleRefBack ==
  ASSUME NEW r, IsLocalReference(r)
  PROVE  UnmarshalRoleRef(MarshalRoleRef(r)) \subseteq {r}
<1> DEFINE g == GroupKind(r)
           e == EscapeName(r.name)
           s == MarshalRoleRef(r)
           segments == SplitAtUnescapedColons(s)
           gk == SplitGroupKind(segments[1])
           T == Tokens(r)
<1>0. IsReference(r) /\ r = Reference(r.group, r.kind, Empty, r.name) /\ r.name \in Seq(T) /\ ":" \in T /\ "\\" \in T
  BY ReferenceType DEF IsLocalReference
<1>1. g \in Seq(T) /\ ":" \notin Range(g) /\ "\\" \notin Range(g) /\ SplitGroupKind(g) = [group |-> r.group, kind |-> r.kind]
  BY <1>0, GroupKindBack
<1>2. e \in Seq(T) /\ UnescapeName(e) = r.name
  BY <1>0, EscapeNamePlaces, UnescapeNameBack
<1>3. UnmarshalRoleRef(s) \subseteq {Reference(gk.group, gk.kind, Empty, UnescapeName(segments[2]))}
  <2>1. UnmarshalRoleRef(s) = IF Len(segments) = 2 /\ "." \in Range(segments[1]) THEN {Reference(gk.group, gk.kind, Empty, UnescapeName(segments[2]))} ELSE {}
    BY Zenon DEF UnmarshalRoleRef
  <2> HIDE DEF segments, s
  <2> QED
    BY <2>1
<1>4. s = (g \o <<":">>) \o e
  BY Zenon DEF MarshalRoleRef
<1>5. SplitGroupKind(g).group = r.group /\ SplitGroupKind(g).kind = r.kind
  BY <1>1
<1> HIDE DEF g, e, s, T
<1>6. segments = <<g, e>>
  <2>1. SplitAtUnescapedColons((g \o <<":">>) \o EscapeName(r.name)) = <<g, EscapeName(r.name)>>
    BY <1>0, <1>1, NameAfterOne
  <2> QED
    BY <1>4, <2>1, Zenon DEF e
<1>7. segments[1] = g /\ segments[2] = e
  BY <1>6
<1> HIDE DEF segments
<1>8. UnmarshalRoleRef(s) \subseteq {Reference(r.group, r.kind, Empty, r.name)}
  BY <1>2, <1>3, <1>5, <1>7, Zenon
<1> QED
  BY <1>0, <1>8, Zenon DEF s

\* A binding that is read again is what it was.
LEMMA BindingBack ==
  ASSUME NEW b, IsBinding(b), NEW k \in ConvertBinding(b)
  PROVE  RevertBinding(k) \subseteq {b}
<1> DEFINE n == Len(b.subjects)
<1>0. /\ b = [subjects |-> b.subjects, role |-> b.role] /\ n \in Nat /\ b.subjects = [i \in 1..n |-> b.subjects[i]]
      /\ IsLocalReference(b.role) /\ \A i \in DOMAIN b.subjects : IsReference(b.subjects[i])
  BY DEF IsBinding, IsSequence
<1>1. k.subjects = [i \in DOMAIN b.subjects |-> MarshalSubject(b.subjects[i])] /\ k.role = MarshalRoleRef(b.role)
  BY DEF ConvertBinding
<1>2. DOMAIN b.subjects = 1..n
  BY <1>0
<1>3. DOMAIN k.subjects = 1..n /\ \A i \in 1..n : k.subjects[i] = MarshalSubject(b.subjects[i])
  BY <1>1, <1>2
<1>4. UnmarshalRoleRef(k.role) \subseteq {b.role}
  BY <1>0, <1>1, RoleRefBack, Zenon
<1>5. ASSUME NEW subjects \in Results(UnmarshalSubject, k.subjects)
      PROVE  subjects = b.subjects
  <2>1. subjects = [i \in 1..n |-> subjects[i]] /\ \A i \in 1..n : subjects[i] \in UnmarshalSubject(k.subjects[i])
    BY <1>3 DEF Results
  <2>2. ASSUME NEW i \in 1..n
        PROVE  subjects[i] = b.subjects[i]
    <3>1. IsReference(b.subjects[i])
      BY <1>0, <1>2
    <3>2. UnmarshalSubject(MarshalSubject(b.subjects[i])) \subseteq {b.subjects[i]}
      BY <3>1, SubjectBack, Zenon
    <3> QED
      BY <1>3, <2>1, <3>2
  <2> QED
    BY <1>0, <2>1, <2>2
<1>6. ASSUME NEW x \in RevertBinding(k)
      PROVE  x = b
  <2>1. PICK subjects \in Results(UnmarshalSubject, k.subjects), role \in UnmarshalRoleRef(k.role) : x = [subjects |-> subjects, role |-> role]
    BY DEF RevertBinding
  <2>2. subjects = b.subjects /\ role = b.role
    BY <1>4, <1>5, <2>1
  <2> QED
    BY <1>0, <2>1, <2>2, Zenon
<1> QED
  BY <1>6

-----------------------------------------------------------------------------
(***************************************************************************)
(* PodSecurityPolicies                                                     *)
(***************************************************************************)
\* No name is used twice.
LEMMA PolicyNames == OneToOne(PodSecurityPolicy)
  BY DEF OneToOne, PodSecurityPolicy

\* No two volume plugins get the same name.
LEMMA PluginNames == OneToOne(convertVolumePlugin)
  BY DEF OneToOne, convertVolumePlugin, Over

\* The rules are among the fields, and have names of their own in Short.
LEMMA RuleFields ==
  /\ DOMAIN convertRules \subseteq DOMAIN PodSecurityPolicy
  /\ \A n \in DOMAIN PodSecurityPolicy : PodSecurityPolicy[n] \in DOMAIN revertRules <=> n \in DOMAIN convertRules
  BY DEF PodSecurityPolicy, convertRules, revertRules

\* A rule is read as it was written, if it can be read.
LEMMA RulesBack ==
  ASSUME NEW n \in DOMAIN convertRules, NEW v \in DOMAIN convertRules[n], convertRules[n][v] \in DOMAIN revertRules[PodSecurityPolicy[n]]
  PROVE  revertRules[PodSecurityPolicy[n]][convertRules[n][v]] = v
  BY DEF PodSecurityPolicy, convertRules, revertRules, convertSELinuxRule, convertGIDRule, convertFSGIDRule, convertUIDRule,
         revertSELinuxRule, revertGIDRule, revertFSGIDRule, revertUIDRule

\* What Renamed returns.
IsRenaming(r, s, table) ==
  /\ r = [n \in DOMAIN r |-> r[n]]
  /\ DOMAIN r = {table[k] : k \in DOMAIN s \cap DOMAIN table}
  /\ \A k \in DOMAIN s \cap DOMAIN table : r[table[k]] = s[k]

\* A renamed object is a renaming of it.
LEMMA RenamedValues ==
  ASSUME NEW table, OneToOne(table), NEW s
  PROVE  IsRenaming(Renamed(s, table), s, table)
<1> DEFINE r == Renamed(s, table)
           names == {table[k] : k \in DOMAIN s \cap DOMAIN table}
<1>1. r = [n \in names |-> s[CHOOSE k \in DOMAIN table : table[k] = n]]
  BY DEF Renamed
<1>2. ASSUME NEW k \in DOMAIN s \cap DOMAIN table
      PROVE  r[table[k]] = s[k]
  <2>0. k \in DOMAIN table /\ table[k] \in names
    OBVIOUS
  <2> DEFINE y == CHOOSE x \in DOMAIN table : table[x] = table[k]
  <2>1. y \in DOMAIN table /\ table[y] = table[k]
    BY <2>0, Zenon
  <2>2. r[table[k]] = s[y]
    BY <1>1, <2>0
  <2> HIDE DEF y
  <2>3. y = k
    BY <2>0, <2>1 DEF OneToOne
  <2> QED
    BY <2>2, <2>3
<1> HIDE DEF r
<1>3. r = [n \in DOMAIN r |-> r[n]] /\ DOMAIN r = names
  BY <1>1
<1> QED
  BY <1>2, <1>3 DEF r, IsRenaming

\* The list of the lists of one.
LEMMA FlattenOnes ==
  ASSUME NEW T, NEW s \in Seq(T)
  PROVE  FlattenSeq([i \in 1..Len(s) |-> <<s[i]>>]) = s
<1> DEFINE parts == [i \in 1..Len(s) |-> <<s[i]>>]
           part(n) == FlattenSeq(SubSeq(parts, 1, n))
           S == {n \in Nat : n <= Len(s) => part(n) = SubSeq(s, 1, n)}
<1>0. Len(s) \in Nat /\ DOMAIN s = 1..Len(s) /\ \A i \in 1..Len(s) : s[i] \in T
  OBVIOUS
<1>1. parts \in Seq(Seq(T)) /\ Len(parts) = Len(s) /\ \A i \in 1..Len(s) : parts[i] = <<s[i]>>
  <2>1. \A i \in 1..Len(s) : <<s[i]>> \in Seq(T)
    BY <1>0
  <2> QED
    BY <1>0, <2>1
<1> HIDE DEF parts
<1>3. 0 \in S
  <2>1. SubSeq(parts, 1, 0) = <<>> /\ SubSeq(s, 1, 0) = <<>>
    BY <1>1
  <2> QED
    BY <2>1, FlattenSeqEmpty
<1>4. ASSUME NEW n \in Nat, n \in S
      PROVE  n + 1 \in S
  <2> SUFFICES ASSUME n + 1 <= Len(s)
               PROVE  part(n + 1) = SubSeq(s, 1, n + 1)
    OBVIOUS
  <2>1. n \in 0..Len(parts) - 1 /\ n <= Len(s) /\ n + 1 \in 1..Len(s)
    BY <1>0, <1>1
  <2>2. part(n + 1) = part(n) \o parts[n + 1]
    BY <1>1, <2>1, FlattenSeqPrefix
  <2>3. part(n) = SubSeq(s, 1, n)
    BY <1>4, <2>1
  <2>4. SubSeq(s, 1, n) \o <<s[n + 1]>> = SubSeq(s, 1, n + 1)
    <3> DEFINE a == SubSeq(s, 1, n)
    <3>1. a \in Seq(T) /\ SubSeq(s, 1, n + 1) = Append(a, s[n + 1])
      BY <2>1
    <3> HIDE DEF a
    <3>2. a \o <<s[n + 1]>> = Append(a, s[n + 1])
      BY <1>0, <2>1, <3>1
    <3> QED
      BY <3>1, <3>2 DEF a
  <2> QED
    BY <1>1, <2>1, <2>2, <2>3, <2>4, Zenon
<1>5. Nat \subseteq S
  <2> HIDE DEF S
  <2> QED
    BY <1>3, <1>4, InductionOnSet
<1>6. SubSeq(s, 1, Len(s)) = s /\ SubSeq(parts, 1, Len(s)) = parts /\ Len(s) <= Len(s)
  BY <1>0, <1>1
<1>7. part(Len(s)) = SubSeq(s, 1, Len(s))
  BY <1>0, <1>5, <1>6
<1> QED
  BY <1>6, <1>7 DEF parts

\* A list without empty members is what is left of any list, and all of it is
\* left of such a one.
LEMMA NotEmptyKeeps ==
  ASSUME NEW T, NEW s \in Seq(T), \A i \in 1..Len(s) : s[i] # Empty
  PROVE  NotEmpty(s) = s
<1> DEFINE parts == [i \in 1..Len(s) |-> <<s[i]>>]
<1>1. [i \in DOMAIN s |-> IF s[i] = Empty THEN <<>> ELSE <<s[i]>>] = parts
  OBVIOUS
<1>2. FlattenSeq(parts) = s
  BY FlattenOnes
<1> HIDE DEF parts
<1> QED
  BY <1>1, <1>2, Zenon DEF NotEmpty

\* What is left of a list has no empty members.
LEMMA NotEmptyAgain ==
  ASSUME NEW s, IsSequence(s)
  PROVE  IsSequence(NotEmpty(s)) /\ NotEmpty(NotEmpty(s)) = NotEmpty(s)
<1> DEFINE T == Range(s)
           keep(i) == IF s[i] = Empty THEN <<>> ELSE <<s[i]>>
           parts == [i \in 1..Len(s) |-> keep(i)]
           r == NotEmpty(s)
<1>0. s \in Seq(T) /\ Len(s) \in Nat /\ DOMAIN s = 1..Len(s) /\ \A i \in 1..Len(s) : s[i] \in T
  <2>1. s \in Seq(T)
    BY TextType
  <2> QED
    BY <2>1
<1> HIDE DEF T
<1>1. \A i \in 1..Len(s) : keep(i) \in Seq(T) /\ Empty \notin Range(keep(i))
  <2> TAKE i \in 1..Len(s)
  <2>1. CASE s[i] = Empty
    <3>1. keep(i) = <<>>
      BY <2>1
    <3>2. <<>> \in Seq(T) /\ Range(<<>>) = {}
      BY DEF Range
    <3> HIDE DEF keep
    <3> QED
      BY <3>1, <3>2
  <2>2. CASE s[i] # Empty
    <3>1. keep(i) = <<s[i]>>
      BY <2>2
    <3>2. <<s[i]>> \in Seq(T) /\ Range(<<s[i]>>) = {s[i]}
      BY <1>0 DEF Range
    <3> HIDE DEF keep
    <3> QED
      BY <2>2, <3>1, <3>2
  <2> QED
    BY <2>1, <2>2
<1>2. r = FlattenSeq(parts)
  BY <1>0, Zenon DEF NotEmpty
<1> HIDE DEF keep, r
<1>3. parts \in Seq(Seq(T)) /\ Len(parts) = Len(s) /\ \A i \in 1..Len(s) : parts[i] = keep(i)
  BY <1>0, <1>1
<1> HIDE DEF parts
<1>4. r \in Seq(T) /\ \A x : x \in Range(r) <=> \E i \in 1..Len(parts) : x \in Range(parts[i])
  BY <1>2, <1>3, FlattenSeqType, FlattenSeqRange
<1>5. Empty \notin Range(r)
  BY <1>1, <1>3, <1>4, Zenon
<1>6. Len(r) \in Nat /\ r = [i \in 1..Len(r) |-> r[i]] /\ \A i \in 1..Len(r) : r[i] \in Range(r)
  BY <1>4 DEF Range
<1>7. \A i \in 1..Len(r) : r[i] # Empty
  BY <1>5, <1>6, Zenon
<1>8. NotEmpty(r) = r
  BY <1>4, <1>7, NotEmptyKeeps
<1> QED
  BY <1>6, <1>8 DEF r, IsSequence

\* A plugin is read as it was written.
LEMMA PluginsBack ==
  ASSUME NEW names, IsSequence(names), NEW plugins \in Plugins(names, convertVolumePlugin)
  PROVE  Plugins(plugins, revertVolumePlugin) \subseteq {names}
<1> DEFINE table == convertVolumePlugin
           back == revertVolumePlugin
           To(name) == IF name = Empty THEN {Empty} ELSE {<<table[v]>> : v \in {w \in DOMAIN table : name = <<w>>}}
           From(name) == IF name = Empty THEN {Empty} ELSE {<<back[v]>> : v \in {w \in DOMAIN back : name = <<w>>}}
           n == Len(names)
<1>0. n \in Nat /\ names = [i \in 1..n |-> names[i]] /\ DOMAIN names = 1..n
  BY DEF IsSequence
<1>1. OneToOne(table)
  BY PluginNames
<1>2. back = AntiFunction(table)
  BY DEF revertVolumePlugin
<1>3. plugins = [i \in 1..n |-> plugins[i]] /\ DOMAIN plugins = 1..n /\ \A i \in 1..n : plugins[i] \in To(names[i])
  <2>1. Plugins(names, table) = {r \in [DOMAIN names -> UNION {To(names[i]) : i \in DOMAIN names}] : \A i \in DOMAIN names : r[i] \in To(names[i])}
    BY DEF Plugins, Results
  <2> HIDE DEF To, table
  <2>2. plugins \in [1..n -> UNION {To(names[i]) : i \in 1..n}] /\ \A i \in 1..n : plugins[i] \in To(names[i])
    BY <1>0, <2>1 DEF table
  <2> QED
    BY <2>2
<1>4. ASSUME NEW x \in Plugins(plugins, back)
      PROVE  x = [i \in 1..n |-> x[i]] /\ \A i \in 1..n : x[i] \in From(plugins[i])
  <2>1. Plugins(plugins, back) = {r \in [DOMAIN plugins -> UNION {From(plugins[i]) : i \in DOMAIN plugins}] :
                                    \A i \in DOMAIN plugins : r[i] \in From(plugins[i])}
    BY DEF Plugins, Results
  <2> HIDE DEF From, back
  <2>2. x \in [1..n -> UNION {From(plugins[i]) : i \in 1..n}] /\ \A i \in 1..n : x[i] \in From(plugins[i])
    BY <1>3, <1>4, <2>1
  <2> QED
    BY <2>2
<1> HIDE DEF table, back
<1>5. DOMAIN back = Range(table) /\ \A k \in DOMAIN table : back[table[k]] = k
  BY <1>1, <1>2, AntiFunctionOf
<1>6. ASSUME NEW name, NEW p \in To(name), NEW x \in From(p)
      PROVE  x = name
  <2>1. CASE name = Empty
    BY <1>6, <2>1
  <2>2. CASE name # Empty
    <3>1. PICK v \in DOMAIN table : name = <<v>> /\ p = <<table[v]>>
      BY <1>6, <2>2
    <3>2. p # Empty /\ p[1] = table[v]
      BY <3>1 DEF Empty
    <3>3. PICK w \in DOMAIN back : p = <<w>> /\ x = <<back[w]>>
      BY <1>6, <3>2
    <3>4. w = table[v]
      BY <3>1, <3>3
    <3>5. back[w] = v
      BY <1>5, <3>4
    <3> QED
      BY <3>1, <3>3, <3>5
  <2> QED
    BY <2>1, <2>2
<1>7. ASSUME NEW x \in Plugins(plugins, back)
      PROVE  x = names
  <2> HIDE DEF To, From
  <2>1. \A i \in 1..n : x[i] = names[i]
    BY <1>3, <1>4, <1>6
  <2> QED
    BY <1>0, <1>4, <2>1
<1> QED
  BY <1>7 DEF back

\* What several switches return.
LEMMA TranslatedAllValues ==
  ASSUME NEW s, NEW tables, NEW t \in TranslatedAll(s, tables)
  PROVE  /\ t = [n \in DOMAIN s |-> t[n]] /\ DOMAIN t = DOMAIN s
         /\ \A n \in DOMAIN s : n \notin DOMAIN tables => t[n] = s[n]
         /\ \A n \in DOMAIN s \cap DOMAIN tables : \E v \in DOMAIN tables[n] : s[n] = <<v>> /\ t[n] = <<tables[n][v]>>
<1> DEFINE switched == DOMAIN s \cap DOMAIN tables
           r == [n \in DOMAIN s |-> IF n \in switched THEN <<tables[n][s[n][1]]>> ELSE s[n]]
<1>1. ~(\E n \in switched : \A v \in DOMAIN tables[n] : s[n] # <<v>>) /\ t = r
  <2>1. TranslatedAll(s, tables) = IF \E n \in switched : \A v \in DOMAIN tables[n] : s[n] # <<v>> THEN {} ELSE {r}
    BY Zenon DEF TranslatedAll
  <2> HIDE DEF r
  <2> QED
    BY <2>1
<1>2. ASSUME NEW n \in switched
      PROVE  \E v \in DOMAIN tables[n] : s[n] = <<v>> /\ t[n] = <<tables[n][v]>>
  <2>1. PICK v \in DOMAIN tables[n] : s[n] = <<v>>
    BY <1>1
  <2>2. s[n][1] = v
    BY <2>1
  <2>3. t[n] = <<tables[n][s[n][1]]>>
    BY <1>1
  <2> QED
    BY <2>1, <2>2, <2>3
<1> QED
  BY <1>1, <1>2

\* The fields of f that have a name in the table.
IsCopyOf(p, f, names) == p = [n \in DOMAIN f \cap names |-> f[n]]

\* A table of names and one of values for each field that is switched, and
\* those of the way back, where that one can be gone.
TablesAgree(table, there, back) ==
  /\ OneToOne(table)
  /\ \A n \in DOMAIN table : table[n] \in DOMAIN back <=> n \in DOMAIN there
  /\ \A n \in DOMAIN table \cap DOMAIN there : \A v \in DOMAIN there[n] :
       there[n][v] \in DOMAIN back[table[n]] => back[table[n]][there[n][v]] = v

\* Two objects have the same fields of these names.
Agree(k, r, names) == \A n \in names : (n \in DOMAIN k <=> n \in DOMAIN r) /\ (n \in DOMAIN k => k[n] = r[n])

\* Fields that are switched and renamed, and renamed and switched back, are
\* what they were, if other fields are set in between too.
LEMMA FieldsBack ==
  ASSUME NEW table, NEW there, NEW back, TablesAgree(table, there, back), NEW f, NEW t \in TranslatedAll(f, there),
         NEW k, Agree(k, Renamed(t, table), Range(table)), NEW u \in TranslatedAll(k, back)
  PROVE  IsCopyOf(Renamed(u, AntiFunction(table)), f, DOMAIN table)
<1> DEFINE anti == AntiFunction(table)
           r == Renamed(t, table)
           q == Renamed(u, anti)
<1>0. OneToOne(table)
  BY DEF TablesAgree
<1>1. /\ DOMAIN t = DOMAIN f /\ \A n \in DOMAIN f : n \notin DOMAIN there => t[n] = f[n]
      /\ \A n \in DOMAIN f \cap DOMAIN there : \E v \in DOMAIN there[n] : f[n] = <<v>> /\ t[n] = <<there[n][v]>>
  BY TranslatedAllValues
<1>2. /\ DOMAIN u = DOMAIN k
      /\ \A n \in DOMAIN k : n \notin DOMAIN back => u[n] = k[n]
      /\ \A n \in DOMAIN k \cap DOMAIN back : \E v \in DOMAIN back[n] : k[n] = <<v>> /\ u[n] = <<back[n][v]>>
  BY TranslatedAllValues
<1>3. DOMAIN anti = Range(table) /\ \A n \in DOMAIN table : anti[table[n]] = n /\ table[n] \in Range(table)
  BY <1>0, AntiFunctionOf
<1>4. \A x \in Range(table) : \E n \in DOMAIN table : x = table[n]
  BY DEF Range
<1>5. IsRenaming(r, t, table)
  BY <1>0, RenamedValues
<1>a. Agree(k, r, Range(table))
  OBVIOUS
<1> HIDE DEF anti, r
<1>6. OneToOne(anti)
  BY <1>3, <1>4 DEF OneToOne
<1>7. IsRenaming(q, u, anti)
  BY <1>6, RenamedValues
<1> HIDE DEF q
<1>8. ASSUME NEW n \in DOMAIN table
      PROVE  /\ table[n] \in DOMAIN k <=> n \in DOMAIN f
             /\ n \in DOMAIN f => k[table[n]] = t[n]
  <2>1. table[n] \in DOMAIN r <=> n \in DOMAIN f
    BY <1>0, <1>1, <1>5 DEF IsRenaming, OneToOne
  <2>2. n \in DOMAIN f => r[table[n]] = t[n]
    BY <1>1, <1>5 DEF IsRenaming
  <2> QED
    BY <1>3, <1>a, <2>1, <2>2 DEF Agree
<1>9. ASSUME NEW n \in DOMAIN f \cap DOMAIN table
      PROVE  u[table[n]] = f[n]
  <2>1. table[n] \in DOMAIN k /\ k[table[n]] = t[n] /\ (table[n] \in DOMAIN back <=> n \in DOMAIN there)
    BY <1>8 DEF TablesAgree
  <2>2. CASE n \notin DOMAIN there
    BY <1>1, <1>2, <2>1, <2>2
  <2>3. CASE n \in DOMAIN there
    <3>1. PICK v \in DOMAIN there[n] : f[n] = <<v>> /\ t[n] = <<there[n][v]>>
      BY <1>1, <2>3
    <3>2. PICK w \in DOMAIN back[table[n]] : k[table[n]] = <<w>> /\ u[table[n]] = <<back[table[n]][w]>>
      BY <1>2, <2>1, <2>3
    <3>3. <<w>> = <<there[n][v]>>
      BY <2>1, <3>1, <3>2
    <3>4. w = there[n][v]
      BY <3>3
    <3>5. back[table[n]][w] = v
      BY <2>3, <3>2, <3>4 DEF TablesAgree
    <3> QED
      BY <3>1, <3>2, <3>5
  <2> QED
    BY <2>2, <2>3
<1>10. DOMAIN q = DOMAIN f \cap DOMAIN table
  <2>1. DOMAIN q = {anti[x] : x \in DOMAIN u \cap DOMAIN anti}
    BY <1>7 DEF IsRenaming
  <2>2. ASSUME NEW n \in DOMAIN q
        PROVE  n \in DOMAIN f \cap DOMAIN table
    <3>1. PICK x \in DOMAIN u \cap DOMAIN anti : n = anti[x]
      BY <2>1
    <3>2. PICK m \in DOMAIN table : x = table[m]
      BY <1>3, <1>4, <3>1
    <3> QED
      BY <1>2, <1>3, <1>8, <3>1, <3>2
  <2>3. ASSUME NEW n \in DOMAIN f \cap DOMAIN table
        PROVE  n \in DOMAIN q
    <3>1. table[n] \in DOMAIN u \cap DOMAIN anti /\ anti[table[n]] = n
      BY <1>2, <1>3, <1>8
    <3> QED
      BY <2>1, <3>1
  <2> QED
    BY <2>2, <2>3
<1>11. ASSUME NEW n \in DOMAIN q
       PROVE  q[n] = f[n]
  <2>1. table[n] \in DOMAIN u \cap DOMAIN anti /\ anti[table[n]] = n /\ n \in DOMAIN f \cap DOMAIN table
    BY <1>2, <1>3, <1>8, <1>10
  <2>2. q[n] = u[table[n]]
    BY <1>7, <2>1 DEF IsRenaming
  <2> QED
    BY <1>9, <2>1, <2>2
<1>12. q = [n \in DOMAIN q |-> q[n]]
  BY <1>7 DEF IsRenaming
<1> QED
  BY <1>10, <1>11, <1>12 DEF IsCopyOf, q, anti

\* The rules are gone there and back.
LEMMA PolicyTablesAgree == TablesAgree(PodSecurityPolicy, convertRules, revertRules)
  BY PolicyNames, RuleFields, RulesBack DEF TablesAgree

\* The fields that have a name in Short are what they were.
LEMMA PolicyFieldsBack ==
  ASSUME NEW f, NEW t \in TranslatedAll(f, convertRules), NEW u \in TranslatedAll(Renamed(t, PodSecurityPolicy), revertRules)
  PROVE  Renamed(u, AntiFunction(PodSecurityPolicy)) = [n \in DOMAIN f \cap DOMAIN PodSecurityPolicy |-> f[n]]
<1> DEFINE k == Renamed(t, PodSecurityPolicy)
<1>1. Agree(k, Renamed(t, PodSecurityPolicy), Range(PodSecurityPolicy)) /\ u \in TranslatedAll(k, revertRules)
  BY DEF Agree
<1> HIDE DEF k
<1>2. IsCopyOf(Renamed(u, AntiFunction(PodSecurityPolicy)), f, DOMAIN PodSecurityPolicy)
  BY <1>1, PolicyTablesAgree, FieldsBack
<1> QED
  BY <1>2 DEF IsCopyOf

\* The flags are what they were.
LEMMA HostModesBack ==
  ASSUME NEW f, NEW modes \in revertHostModes(convertHostMode(f))
  PROVE  modes = [n \in DOMAIN f \cap DOMAIN HostModes |-> True]
<1> DEFINE mode(name, text) == IF name \in DOMAIN f THEN << <<text>> >> ELSE <<>>
           M == {<<"net">>, <<"pid">>, <<"ipc">>}
           a == mode("HostNetwork", "net")
           b == mode("HostPID", "pid")
           c == mode("HostIPC", "ipc")
           all == (a \o b) \o c
<1>1. convertHostMode(f) = all
  BY Zenon DEF convertHostMode
<1>2. ASSUME NEW x \in M, NEW name
      PROVE  LET m == IF name \in DOMAIN f THEN <<x>> ELSE <<>> IN m \in Seq(M) /\ Range(m) = IF name \in DOMAIN f THEN {x} ELSE {}
  <2>1. <<x>> \in Seq(M) /\ Range(<<x>>) = {x} /\ <<>> \in Seq(M) /\ Range(<<>>) = {}
    BY DEF Range
  <2> HIDE DEF M
  <2> QED
    BY <2>1, Zenon
<1>3. /\ a \in Seq(M) /\ Range(a) = IF "HostNetwork" \in DOMAIN f THEN {<<"net">>} ELSE {}
      /\ b \in Seq(M) /\ Range(b) = IF "HostPID" \in DOMAIN f THEN {<<"pid">>} ELSE {}
      /\ c \in Seq(M) /\ Range(c) = IF "HostIPC" \in DOMAIN f THEN {<<"ipc">>} ELSE {}
  <2>1. <<"net">> \in M /\ <<"pid">> \in M /\ <<"ipc">> \in M
    BY Zenon
  <2> HIDE DEF M
  <2> QED
    BY <1>2, <2>1, Zenon
<1> HIDE DEF a, b, c
<1>4. Range(all) = (Range(a) \cup Range(b)) \cup Range(c)
  <2>1. a \o b \in Seq(M)
    <3> HIDE DEF M
    <3> QED BY <1>3, ConcatType
  <2> HIDE DEF M
  <2>2. Range(a \o b) = Range(a) \cup Range(b)
    BY <1>3, RangeConcatenation
  <2> DEFINE ab == a \o b
  <2>3. ab \in Seq(M) /\ Range(ab) = Range(a) \cup Range(b)
    BY <2>1, <2>2
  <2> HIDE DEF ab
  <2>4. Range(ab \o c) = Range(ab) \cup Range(c)
    BY <1>3, <2>3, RangeConcatenation
  <2> QED
    BY <2>3, <2>4 DEF ab
<1> HIDE DEF all
<1>5. /\ DOMAIN HostModes = {"HostNetwork", "HostPID", "HostIPC"}
      /\ HostModes["HostNetwork"] = <<"net">> /\ HostModes["HostPID"] = <<"pid">> /\ HostModes["HostIPC"] = <<"ipc">>
  BY DEF HostModes
<1>6. <<"net">> # <<"pid">> /\ <<"net">> # <<"ipc">> /\ <<"pid">> # <<"ipc">>
  OBVIOUS
<1>7. ASSUME NEW n \in DOMAIN HostModes
      PROVE  HostModes[n] \in Range(all) <=> n \in DOMAIN f
  <2>1. CASE n = "HostNetwork"
    BY <1>3, <1>4, <1>5, <1>6, <2>1, Zenon
  <2>2. CASE n = "HostPID"
    BY <1>3, <1>4, <1>5, <1>6, <2>2, Zenon
  <2>3. CASE n = "HostIPC"
    BY <1>3, <1>4, <1>5, <1>6, <2>3, Zenon
  <2> QED
    BY <1>5, <2>1, <2>2, <2>3
<1>8. {n \in DOMAIN HostModes : HostModes[n] \in Range(all)} = DOMAIN f \cap DOMAIN HostModes
  BY <1>7
<1>9. modes = [n \in {m \in DOMAIN HostModes : HostModes[m] \in Range(all)} |-> True]
  <2>1. revertHostModes(all) \subseteq {[n \in {m \in DOMAIN HostModes : HostModes[m] \in Range(all)} |-> True]}
    BY DEF revertHostModes
  <2> QED
    BY <1>1, <2>1
<1> QED
  BY <1>8, <1>9

\* A policy that is read again allows what it allowed.
LEMMA PolicyBack ==
  ASSUME NEW p, IsPolicy(p), SELinuxFits(p.f), NEW k \in ConvertPodSecurityPolicy(p), NEW b \in RevertPodSecurityPolicy(k)
  PROVE  IsPolicy(b) /\ SELinuxFits(b.f) /\ PolicyOf(b) = PolicyOf(p)
<1> DEFINE f == p.f
           g == [n \in DOMAIN f \cap DOMAIN PodSecurityPolicy |-> f[n]]
<1>0. /\ p = [f |-> p.f, volumes |-> p.volumes, paths |-> p.paths, drivers |-> p.drivers]
      /\ f = [n \in DOMAIN f |-> f[n]] /\ DOMAIN f \subseteq DOMAIN PodSecurityPolicy \cup DOMAIN HostModes
      /\ \A n \in DOMAIN f \cap DOMAIN HostModes : f[n] = True
      /\ IsSequence(p.volumes) /\ IsSequence(p.paths) /\ IsSequence(p.drivers)
  BY DEF IsPolicy, IsObject
<1>1. PICK t \in TranslatedAll(f, convertRules), plugins \in Plugins(p.volumes, convertVolumePlugin) :
        k = [f |-> Renamed(t, PodSecurityPolicy), vol_plugins |-> plugins, host_mode |-> convertHostMode(f),
             host_paths_allowed |-> NotEmpty(p.paths), flex_volumes_allowed |-> NotEmpty(p.drivers)]
  BY DEF ConvertPodSecurityPolicy
<1>2. /\ k.f = Renamed(t, PodSecurityPolicy) /\ k.vol_plugins = plugins /\ k.host_mode = convertHostMode(f)
      /\ k.host_paths_allowed = NotEmpty(p.paths) /\ k.flex_volumes_allowed = NotEmpty(p.drivers)
  BY <1>1
<1>3. PICK u \in TranslatedAll(k.f, revertRules), back \in Plugins(k.vol_plugins, revertVolumePlugin), modes \in revertHostModes(k.host_mode) :
        b = [f |-> Over(revertSELinuxOptions(Renamed(u, AntiFunction(PodSecurityPolicy))), modes), volumes |-> back,
             paths |-> k.host_paths_allowed, drivers |-> k.flex_volumes_allowed]
  BY DEF RevertPodSecurityPolicy
<1>4. Renamed(u, AntiFunction(PodSecurityPolicy)) = g
  BY <1>1, <1>2, <1>3, PolicyFieldsBack
<1>5. modes = [n \in DOMAIN f \cap DOMAIN HostModes |-> True]
  BY <1>2, <1>3, HostModesBack
<1>6. back = p.volumes
  BY <1>0, <1>1, <1>2, <1>3, PluginsBack
<1>7. revertSELinuxOptions(g) = g
  <2>0. DOMAIN g = DOMAIN f \cap DOMAIN PodSecurityPolicy /\ g = [n \in DOMAIN g |-> g[n]]
    OBVIOUS
  <2>1. {"SELinuxUser", "SELinuxRole", "SELinuxLevel", "SELinuxType"} \subseteq DOMAIN PodSecurityPolicy
    BY DEF PodSecurityPolicy
  <2> HIDE DEF g
  <2>2. CASE {"SELinuxUser", "SELinuxRole", "SELinuxLevel"} \cap DOMAIN g = {}
    <3>1. "SELinuxType" \notin DOMAIN g
      BY <2>0, <2>1, <2>2 DEF SELinuxFits
    <3>2. Without(g, {"SELinuxType"}) = [n \in DOMAIN g \ {"SELinuxType"} |-> g[n]]
      BY DEF Without, Restrict
    <3>3. DOMAIN g \ {"SELinuxType"} = DOMAIN g
      BY <3>1
    <3> QED
      BY <2>0, <2>2, <3>2, <3>3 DEF revertSELinuxOptions
  <2>3. CASE {"SELinuxUser", "SELinuxRole", "SELinuxLevel"} \cap DOMAIN g # {}
    BY <2>3 DEF revertSELinuxOptions
  <2> QED
    BY <2>2, <2>3
<1>8. Over(g, modes) = f
  <2>0. DOMAIN g = DOMAIN f \cap DOMAIN PodSecurityPolicy /\ \A n \in DOMAIN g : g[n] = f[n]
    OBVIOUS
  <2>1. DOMAIN modes = DOMAIN f \cap DOMAIN HostModes /\ \A n \in DOMAIN modes : modes[n] = f[n]
    BY <1>0, <1>5
  <2>2. Over(g, modes) = [n \in DOMAIN g \cup DOMAIN modes |-> IF n \in DOMAIN g THEN g[n] ELSE modes[n]]
    BY DEF Over
  <2> HIDE DEF g, f
  <2>3. DOMAIN g \cup DOMAIN modes = DOMAIN f
    BY <1>0, <2>0, <2>1
  <2>4. \A n \in DOMAIN f : (IF n \in DOMAIN g THEN g[n] ELSE modes[n]) = f[n]
    BY <2>0, <2>1, <2>3
  <2> QED
    BY <1>0, <2>2, <2>3, <2>4
<1>9. b = [f |-> f, volumes |-> p.volumes, paths |-> NotEmpty(p.paths), drivers |-> NotEmpty(p.drivers)]
  BY <1>2, <1>3, <1>4, <1>6, <1>7, <1>8, Zenon
<1> DEFINE P == NotEmpty(p.paths)
           D == NotEmpty(p.drivers)
<1>10. IsSequence(P) /\ IsSequence(D) /\ NotEmpty(P) = P /\ NotEmpty(D) = D
  BY <1>0, NotEmptyAgain
<1> HIDE DEF f, P, D
<1>11. b.f = f /\ b.volumes = p.volumes /\ b.paths = P /\ b.drivers = D
       /\ b = [f |-> b.f, volumes |-> b.volumes, paths |-> b.paths, drivers |-> b.drivers]
  BY <1>9 DEF P, D
<1>12. IsPolicy(b)
  BY <1>0, <1>10, <1>11 DEF IsPolicy, IsObject
<1>13. PolicyOf(b) = [f |-> f, volumes |-> p.volumes, paths |-> NotEmpty(P), drivers |-> NotEmpty(D)]
  BY <1>11 DEF PolicyOf
<1>14. PolicyOf(p) = [f |-> f, volumes |-> p.volumes, paths |-> P, drivers |-> D]
  BY <1>0 DEF PolicyOf, f, P, D
<1> QED
  BY <1>10, <1>11, <1>12, <1>13, <1>14 DEF f

-----------------------------------------------------------------------------
(***************************************************************************)
(* Roles.  The selectors of an aggregation are those of Workloads, and     *)
(* what is proved of those is used here: it is about no document.          *)
(***************************************************************************)
W == INSTANCE WorkloadsProofs WITH FirstDocs <- {}

\* Both have the same selectors, ...
LEMMA SameSelectors ==
  /\ W!AnyRequirement = AnyRequirement /\ W!AnySegment = AnySegment /\ W!AnyLabels = AnyLabels
  /\ W!AnySelector = AnySelector /\ W!AnyRSSelector = AnyRSSelector /\ W!AnyTemplate = AnyTemplate /\ W!AnyMeta = AnyMeta
  /\ W!Labelings = Labelings
BY Zenon DEF W!AnyRequirement, AnyRequirement, W!AnySegment, AnySegment, W!AnyLabels, AnyLabels, W!Labelings, Labelings,
             W!AnySelector, AnySelector, W!AnyRSSelector, AnyRSSelector, W!AnyTemplate, AnyTemplate, W!AnyMeta, AnyMeta,
             W!Operators, Operators, W!NoOperator, NoOperator

\* ... and the same is assumed of them; ...
LEMMA SameAssumptions ==
  /\ W!IsFiniteSet(Key) /\ EmptyValue \in Value
  /\ Nil \notin W!Labelings \cup W!AnySelector \cup W!AnyRSSelector \cup W!AnyTemplate \cup W!AnyMeta
<1>1. W!IsFiniteSet(Key) /\ EmptyValue \in Value
  BY LabelsAssumption DEF W!IsFiniteSet, IsFiniteSet
<1> QED
  BY <1>1, NilAssumption, SameSelectors

\* ... which mean the same, ...
LEMMA SameMeaning ==
  ASSUME NEW sel, NEW labels
  PROVE  W!Matches(sel, labels) <=> Matches(sel, labels)
BY Zenon DEF W!Matches, Matches, W!Holds, Holds

\* ... and are parsed and written alike.
LEMMA SameParsing ==
  ASSUME NEW s
  PROVE  W!WrittenSelector(W!ParseLabelSelector(s)) = WrittenSelector(ParseLabelSelector(s)) /\ (W!Parses(s) <=> Parses(s))
<1>1. W!ParseLabelSelector(s) = ParseLabelSelector(s)
  BY Zenon DEF W!ParseLabelSelector, ParseLabelSelector, W!LabelSelector, LabelSelector, W!ParseLabels, ParseLabels,
               W!ParseRequirements, ParseRequirements, W!IsLabel, IsLabel, W!ParseValues, ParseValues,
               W!ParseRequirement, ParseRequirement, W!Requirement, Requirement, W!Operator, Operator,
               W!Operators, Operators, W!Symbol, Symbol
<1>2. \A sel : W!WrittenSelector(sel) = WrittenSelector(sel)
  BY Zenon DEF W!WrittenSelector, WrittenSelector, W!LabelSelector, LabelSelector, W!Written, Written, W!IsEmpty, IsEmpty
<1>3. W!Parses(s) <=> Parses(s)
  BY Zenon DEF W!Parses, Parses
<1> QED
  BY <1>1, <1>2, <1>3, Zenon

\* The texts of a selector are the same, too.
LEMMA SameUnparsing ==
  ASSUME NEW sel
  PROVE  W!UnparseLabelSelector(sel) = UnparseLabelSelector(sel)
<1>1. \A S : W!SetToSeqs(S) = SetToSeqs(S)
  BY Zenon DEF W!SetToSeqs, SetToSeqs, W!Cardinality, Cardinality
<1>2. \A r : W!ConvertOperatorLabelSelector(r) = ConvertOperatorLabelSelector(r)
  BY Zenon DEF W!ConvertOperatorLabelSelector, ConvertOperatorLabelSelector, W!NoOperator, NoOperator, W!Segment, Segment,
               W!Symbol, Symbol
<1> QED
  BY <1>1, <1>2, Zenon DEF W!UnparseLabelSelector, UnparseLabelSelector, W!Operators, Operators, W!NoOperator, NoOperator,
               W!Segment, Segment

\* A text that a selector is written as is read as one that matches the same.
LEMMA SelectorTrip ==
  ASSUME NEW sel \in AnySelector, W!Joins(sel), NEW s \in UnparseLabelSelector(sel)
  PROVE  /\ s \in Seq(AnySegment) /\ Parses(s)
         /\ WrittenSelector(ParseLabelSelector(s)) \in AnySelector
         /\ W!NormalSelector(WrittenSelector(ParseLabelSelector(s)))
         /\ W!ValidSelector(sel) /\ (\E l : Matches(sel, l)) =>
              \A l : Matches(WrittenSelector(ParseLabelSelector(s)), l) <=> Matches(sel, l)
<1>1. sel \in W!AnySelector /\ s \in W!UnparseLabelSelector(sel)
  BY SameSelectors, SameUnparsing
<1>2. /\ s \in Seq(W!AnySegment) /\ W!Parses(s)
      /\ W!WrittenSelector(W!ParseLabelSelector(s)) \in W!AnySelector
      /\ W!NormalSelector(W!WrittenSelector(W!ParseLabelSelector(s)))
      /\ W!ValidSelector(sel) /\ (\E l : W!Matches(sel, l)) =>
              \A l : W!Matches(W!WrittenSelector(W!ParseLabelSelector(s)), l) <=> W!Matches(sel, l)
  BY <1>1, SameAssumptions, W!ShorthandTrip
<1> QED
  BY <1>2, SameSelectors, SameMeaning, SameParsing, Zenon

\* Rules come back as they were.
LEMMA PolicyRulesBack ==
  ASSUME NEW rules, IsSequence(rules), \A i \in DOMAIN rules : IsObject(rules[i], DOMAIN PolicyRule)
  PROVE  revertPolicyRules(convertPolicyRules(rules)) = rules
<1>1. \A i \in DOMAIN rules : Renamed(Renamed(rules[i], PolicyRule), AntiFunction(PolicyRule)) = rules[i]
  BY RuleNames, RenamedBack
<1>2. rules = [i \in DOMAIN rules |-> rules[i]]
  BY DEF IsSequence
<1> QED
  BY <1>1, <1>2 DEF revertPolicyRules, convertPolicyRules

\* A selector that may stand for another one: it matches the same.
SelectorBack(c, sel) ==
  /\ W!Joins(c)
  /\ SelectorFits(sel) /\ SelectedBy(sel) # {} => W!ValidSelector(c) /\ SelectedBy(c) = SelectedBy(sel)

RoleBack(b, r) ==
  /\ b.rules = r.rules
  /\ r.aggregation \notin {Nil, <<>>} =>
       /\ b.aggregation \in Seq(AnySelector) /\ Len(b.aggregation) = Len(r.aggregation)
       /\ \A i \in 1..Len(r.aggregation) : SelectorBack(b.aggregation[i], r.aggregation[i])

\* A selector as the API server accepts it is one that can be parsed.
LEMMA SelectorIsValid ==
  ASSUME NEW sel \in AnySelector, KeysJoin(sel)
  PROVE  W!Joins(sel) /\ (SelectorFits(sel) => W!ValidSelector(sel))
<1>1. W!Joins(sel)
  BY Zenon DEF W!Joins, KeysJoin
<1>2. ASSUME SelectorFits(sel)
      PROVE  W!ValidSelector(sel)
  <2>1. sel # Nil
    BY NilAssumption
  <2>2. ASSUME NEW i \in DOMAIN sel.exprs
        PROVE  W!ValidRequirement(sel.exprs[i])
    <3> DEFINE q == sel.exprs[i]
    <3>1. q.op \in Operators /\ RequirementFits(q)
      BY <1>2, <2>1 DEF SelectorFits
    <3> HIDE DEF q
    <3>2. q.op \in {"In", "NotIn"} => q.values # <<>>
      BY <3>1, Zenon DEF RequirementFits
    <3> QED
      BY <3>1, <3>2 DEF W!ValidRequirement, W!Operators, Operators, q
  <2> QED
    BY <2>2 DEF W!ValidSelector
<1> QED
  BY <1>1, <1>2

\* A selector stands for itself.
LEMMA SelectorStays ==
  ASSUME NEW sel \in AnySelector, KeysJoin(sel)
  PROVE  SelectorBack(sel, sel)
BY SelectorIsValid DEF SelectorBack

\* What a selector that stands for another is read back as stands for it too.
LEMMA SelectorComesBack ==
  ASSUME NEW sel, NEW c \in AnySelector, SelectorBack(c, sel), NEW s \in UnparseLabelSelector(c)
  PROVE  /\ s \in Seq(AnySegment) /\ Parses(s)
         /\ WrittenSelector(ParseLabelSelector(s)) \in AnySelector
         /\ SelectorBack(WrittenSelector(ParseLabelSelector(s)), sel)
<1> DEFINE d == WrittenSelector(ParseLabelSelector(s))
<1>0. W!Joins(c)
  BY DEF SelectorBack
<1>1. /\ s \in Seq(AnySegment) /\ Parses(s) /\ d \in AnySelector /\ W!NormalSelector(d)
      /\ W!ValidSelector(c) /\ (\E l : Matches(c, l)) => \A l : Matches(d, l) <=> Matches(c, l)
  BY <1>0, SelectorTrip
<1> HIDE DEF d
<1>2. W!ValidSelector(d) /\ W!Joins(d)
  BY <1>1, SameAssumptions, W!NormalIsValid
<1>3. ASSUME SelectorFits(sel), SelectedBy(sel) # {}
      PROVE  SelectedBy(d) = SelectedBy(sel)
  <2>1. W!ValidSelector(c) /\ SelectedBy(c) = SelectedBy(sel) /\ SelectedBy(c) # {}
    BY <1>3 DEF SelectorBack
  <2>2. c # Nil /\ d # Nil
    BY <1>1, NilAssumption
  <2>3. \E l : Matches(c, l)
    BY <2>1, <2>2 DEF SelectedBy
  <2>4. \A l : Matches(d, l) <=> Matches(c, l)
    BY <1>1, <2>1, <2>3
  <2>5. SelectedBy(d) = SelectedBy(c)
    BY <2>2, <2>4 DEF SelectedBy
  <2> QED
    BY <2>1, <2>5
<1> QED
  BY <1>1, <1>2, <1>3 DEF SelectorBack, d

\* A role stands for itself.
LEMMA RoleStays ==
  ASSUME NEW r, IsRole(r)
  PROVE  RoleBack(r, r)
<1>1. ASSUME r.aggregation \notin {Nil, <<>>}
      PROVE  /\ r.aggregation \in Seq(AnySelector)
             /\ \A i \in 1..Len(r.aggregation) : SelectorBack(r.aggregation[i], r.aggregation[i])
  <2>1. r.aggregation \in Seq(AnySelector) /\ \A i \in DOMAIN r.aggregation : KeysJoin(r.aggregation[i])
    BY <1>1 DEF IsRole
  <2>2. \A i \in 1..Len(r.aggregation) : r.aggregation[i] \in AnySelector /\ KeysJoin(r.aggregation[i])
    BY <2>1
  <2> QED
    BY <2>1, <2>2, SelectorStays
<1> QED
  BY <1>1 DEF RoleBack

\* Selectors come back, each in its place.
LEMMA AggregationBack ==
  ASSUME NEW selectors \in Seq(AnySelector), selectors # <<>>, NEW list \in Seq(AnySelector), Len(list) = Len(selectors),
         \A i \in 1..Len(selectors) : SelectorBack(list[i], selectors[i]),
         NEW texts \in convertClusterRoleAggregation(list), NEW back \in revertClusterRoleAggregation(texts)
  PROVE  /\ back \in Seq(AnySelector) /\ Len(back) = Len(selectors)
         /\ \A i \in 1..Len(selectors) : SelectorBack(back[i], selectors[i])
<1> DEFINE n == Len(selectors)
           ReadBack(s) == IF Parses(s) THEN {WrittenSelector(ParseLabelSelector(s))} ELSE {}
<1>0. n \in Nat /\ n # 0 /\ DOMAIN list = 1..n /\ \A i \in 1..n : list[i] \in AnySelector
  BY EmptySeq
<1> HIDE DEF n
<1>1. list \notin {Nil, <<>>}
  BY <1>0, NilListAssumption
<1>2. texts \in Results(UnparseLabelSelector, list)
  BY <1>1 DEF convertClusterRoleAggregation
<1>3. DOMAIN texts = 1..n /\ texts = [i \in 1..n |-> texts[i]] /\ \A i \in 1..n : texts[i] \in UnparseLabelSelector(list[i])
  BY <1>0, <1>2 DEF Results
<1>4. ASSUME NEW i \in 1..n
      PROVE  /\ texts[i] \in Seq(AnySegment) /\ Parses(texts[i])
             /\ WrittenSelector(ParseLabelSelector(texts[i])) \in AnySelector
             /\ SelectorBack(WrittenSelector(ParseLabelSelector(texts[i])), selectors[i])
  <2>1. list[i] \in AnySelector /\ SelectorBack(list[i], selectors[i]) /\ texts[i] \in UnparseLabelSelector(list[i])
    BY <1>0, <1>3 DEF n
  <2> QED
    BY <2>1, SelectorComesBack
<1>5. texts \in Seq(Seq(AnySegment)) /\ texts # <<>>
  <2> DEFINE T == Seq(AnySegment)
  <2>1. \A i \in 1..n : texts[i] \in T
    BY <1>4
  <2> HIDE DEF T
  <2>2. texts \in [1..n -> T]
    BY <1>3, <2>1
  <2>3. texts \in Seq(T) /\ Len(texts) = n
    BY <1>0, <2>2
  <2> QED
    BY <1>0, <2>3 DEF T
<1>6. texts \notin {Nil, <<>>}
  BY <1>5, NilListAssumption
<1>7. back \in Results(ReadBack, texts)
  BY <1>6 DEF revertClusterRoleAggregation
<1>8. DOMAIN back = 1..n /\ back = [i \in 1..n |-> back[i]] /\ \A i \in 1..n : back[i] \in ReadBack(texts[i])
  BY <1>3, <1>7 DEF Results
<1>9. \A i \in 1..n : back[i] = WrittenSelector(ParseLabelSelector(texts[i]))
  BY <1>4, <1>8
<1>10. \A i \in 1..n : back[i] \in AnySelector /\ SelectorBack(back[i], selectors[i])
  BY <1>4, <1>9
<1>11. back \in Seq(AnySelector) /\ Len(back) = n
  BY <1>0, <1>8, <1>10
<1> QED
  BY <1>10, <1>11 DEF n

\* A role comes back: the same rules, and selectors that select the same.
LEMMA RoleComesBack ==
  ASSUME NEW r, IsRole(r), NEW b, RoleBack(b, r), NEW k \in ConvertClusterRole(b), NEW c \in RevertClusterRole(k)
  PROVE  RoleBack(c, r)
<1>1. PICK texts \in convertClusterRoleAggregation(b.aggregation) : k = [rules |-> convertPolicyRules(b.rules), aggregation |-> texts]
  BY DEF ConvertClusterRole
<1>2. k.rules = convertPolicyRules(b.rules) /\ k.aggregation = texts
  BY <1>1
<1>3. PICK back \in revertClusterRoleAggregation(texts) : c = [rules |-> revertPolicyRules(k.rules), aggregation |-> back]
  BY <1>2 DEF RevertClusterRole
<1>4. c.rules = revertPolicyRules(convertPolicyRules(b.rules)) /\ c.aggregation = back
  BY <1>2, <1>3
<1>5. b.rules = r.rules /\ IsSequence(r.rules) /\ \A i \in DOMAIN r.rules : IsObject(r.rules[i], DOMAIN PolicyRule)
  BY DEF RoleBack, IsRole
<1>6. c.rules = r.rules
  BY <1>4, <1>5, PolicyRulesBack
<1>7. ASSUME r.aggregation \notin {Nil, <<>>}
      PROVE  /\ back \in Seq(AnySelector) /\ Len(back) = Len(r.aggregation)
             /\ \A i \in 1..Len(r.aggregation) : SelectorBack(back[i], r.aggregation[i])
  <2> DEFINE selectors == r.aggregation
             list == b.aggregation
  <2>1. /\ selectors \in Seq(AnySelector) /\ selectors # <<>> /\ list \in Seq(AnySelector) /\ Len(list) = Len(selectors)
        /\ \A i \in 1..Len(selectors) : SelectorBack(list[i], selectors[i])
    BY <1>7 DEF RoleBack, IsRole
  <2>2. texts \in convertClusterRoleAggregation(list)
    OBVIOUS
  <2> HIDE DEF selectors, list
  <2>3. /\ back \in Seq(AnySelector) /\ Len(back) = Len(selectors)
        /\ \A i \in 1..Len(selectors) : SelectorBack(back[i], selectors[i])
    BY <2>1, <2>2, AggregationBack
  <2> QED
    BY <2>3 DEF selectors
<1> QED
  BY <1>4, <1>6, <1>7 DEF RoleBack

-----------------------------------------------------------------------------
(***************************************************************************)
(* Segments that are joined and split                                      *)
(***************************************************************************)
\* A piece of a text is known by its tokens.
LEMMA PieceOf ==
  ASSUME NEW T, NEW s \in Seq(T), NEW p \in Seq(T), NEW c \in Nat, c + Len(p) <= Len(s), \A i \in 1..Len(p) : s[c + i] = p[i]
  PROVE  SubSeq(s, c + 1, c + Len(p)) = p
<1> DEFINE n == Len(p)
           q == SubSeq(s, c + 1, c + n)
<1>1. n \in Nat /\ c + n <= Len(s) /\ Len(s) \in Nat
  OBVIOUS
<1> HIDE DEF n
<1>2. q \in Seq(T) /\ Len(q) = n /\ \A i \in 1..n : q[i] = s[c + i]
  BY <1>1
<1> HIDE DEF q
<1>3. Len(q) = Len(p) /\ \A i \in 1..Len(q) : q[i] = p[i]
  BY <1>2 DEF n
<1>4. q = p
  BY <1>2, <1>3, SeqEqual
<1> QED
  BY <1>4 DEF q, n

\* A text, a separator and another text.
LEMMA AfterSeparator ==
  ASSUME NEW T, NEW sep \in T, NEW a \in Seq(T), NEW p \in Seq(T), NEW w, w = a \o (<<sep>> \o p)
  PROVE  /\ w \in Seq(T) /\ Len(w) = Len(a) + 1 + Len(p) /\ w[Len(a) + 1] = sep
         /\ \A i \in 1..Len(p) : w[Len(a) + 1 + i] = p[i]
         /\ \A i \in 1..Len(a) : w[i] = a[i]
<1> DEFINE q == <<sep>> \o p
<1>1. q \in Seq(T) /\ Len(q) = Len(p) + 1 /\ q[1] = sep /\ \A i \in 1..Len(p) : q[i + 1] = p[i]
  OBVIOUS
<1>2. w = a \o q
  OBVIOUS
<1> HIDE DEF q
<1>3. /\ w \in Seq(T) /\ Len(w) = Len(a) + Len(q) /\ \A i \in 1..Len(q) : w[Len(a) + i] = q[i]
      /\ \A i \in 1..Len(a) : w[i] = a[i]
  BY <1>1, <1>2
<1>4. w[Len(a) + 1] = sep
  BY <1>1, <1>3
<1>5. ASSUME NEW i \in 1..Len(p)
      PROVE  w[Len(a) + 1 + i] = p[i]
  <2>1. i + 1 \in 1..Len(q) /\ Len(a) + 1 + i = Len(a) + (i + 1) /\ Len(p) \in Nat
    BY <1>1
  <2> QED
    BY <1>1, <1>3, <2>1
<1> QED
  BY <1>1, <1>3, <1>4, <1>5

\* The first of a list, as a list.
LEMMA FirstOnly ==
  ASSUME NEW T, NEW s \in Seq(T), Len(s) >= 1
  PROVE  SubSeq(s, 1, 1) = <<s[1]>>
<1> DEFINE q == SubSeq(s, 1, 1)
           r == <<s[1]>>
<1>1. q \in Seq(T) /\ Len(q) = 1 /\ q[1] = s[1]
  OBVIOUS
<1>2. r \in Seq(T) /\ Len(r) = 1 /\ r[1] = s[1]
  OBVIOUS
<1> HIDE DEF q, r
<1>3. Len(q) = Len(r) /\ \A i \in 1..Len(q) : q[i] = r[i]
  BY <1>1, <1>2
<1>4. q = r
  BY <1>1, <1>2, <1>3, SeqEqual
<1> QED
  BY <1>4 DEF q, r

\* What is joined with a separator that no segment has is split into the
\* same segments.
LEMMA SplitJoin ==
  ASSUME NEW T, NEW sep \in T, NEW parts \in Seq(Seq(T)), parts # <<>>, \A i \in 1..Len(parts) : sep \notin Range(parts[i])
  PROVE  Join(parts, sep) \in Seq(T) /\ Split(Join(parts, sep), sep) = parts
<1> DEFINE n == Len(parts)
           pieces == [i \in 1..n |-> IF i = 1 THEN parts[i] ELSE <<sep>> \o parts[i]]
           J(k) == FlattenSeq(SubSeq(pieces, 1, k))
           s == Join(parts, sep)
           cuts == {i \in DOMAIN s : s[i] = sep}
<1>0. n \in Nat /\ n >= 1 /\ DOMAIN parts = 1..n /\ \A i \in 1..n : parts[i] \in Seq(T)
  BY EmptySeq
<1> HIDE DEF n
<1>1. pieces \in Seq(Seq(T)) /\ Len(pieces) = n /\ pieces[1] = parts[1] /\ \A i \in 2..n : pieces[i] = <<sep>> \o parts[i]
  <2>1. \A i \in 1..n : (IF i = 1 THEN parts[i] ELSE <<sep>> \o parts[i]) \in Seq(T)
    BY <1>0
  <2> DEFINE U == Seq(T)
  <2> HIDE DEF U
  <2>2. pieces \in [1..n -> U]
    BY <2>1 DEF U
  <2>3. pieces \in Seq(U) /\ Len(pieces) = n
    BY <1>0, <2>2
  <2> QED
    BY <1>0, <2>3 DEF U
<1>2. s = FlattenSeq(pieces)
  BY <1>0, Zenon DEF Join
<1> HIDE DEF pieces, s
<1>3. SubSeq(pieces, 1, n) = pieces
  BY <1>1
<1>4. s \in Seq(T) /\ s = J(n)
  BY <1>1, <1>2, <1>3, FlattenSeqType
<1>5. \A k \in 1..n : J(k) \in Seq(T)
  <2>1. ASSUME NEW k \in 1..n
        PROVE  SubSeq(pieces, 1, k) \in Seq(Seq(T))
    BY <1>0, <1>1
  <2> QED
    BY <2>1, FlattenSeqType
<1>6. J(1) = parts[1]
  <2>1. 0 \in 0..Len(pieces) - 1 /\ 0 + 1 = 1
    BY <1>0, <1>1
  <2>2. J(0 + 1) = J(0) \o pieces[0 + 1]
    BY <1>1, <2>1, FlattenSeqPrefix
  <2>3. SubSeq(pieces, 1, 0) = <<>>
    BY <1>1
  <2>4. J(0) = <<>>
    BY <2>3, FlattenSeqEmpty
  <2>5. J(1) = J(0) \o pieces[1] /\ pieces[1] \in Seq(T)
    BY <1>0, <1>1, <2>1, <2>2
  <2> HIDE DEF J
  <2>6. <<>> \o pieces[1] = pieces[1]
    BY <2>5
  <2> QED
    BY <1>1, <2>4, <2>5, <2>6
<1>7. \A k \in 1..n - 1 : J(k + 1) = J(k) \o (<<sep>> \o parts[k + 1])
  <2>1. ASSUME NEW k \in 1..n - 1
        PROVE  J(k + 1) = J(k) \o pieces[k + 1] /\ pieces[k + 1] = <<sep>> \o parts[k + 1]
    <3>1. k \in 0..Len(pieces) - 1 /\ k + 1 \in 2..n
      BY <1>0, <1>1
    <3>2. J(k + 1) = J(k) \o pieces[k + 1]
      BY <1>1, <3>1, FlattenSeqPrefix
    <3> QED
      BY <1>1, <3>1, <3>2
  <2> QED
    BY <2>1
<1>8. \A k \in 1..n : Len(J(k)) <= Len(s) /\ \A i \in 1..Len(J(k)) : s[i] = J(k)[i]
  <2>1. \A k \in 1..n : k \in 0..Len(pieces)
    BY <1>0, <1>1
  <2> QED
    BY <1>1, <1>2, <2>1, FlattenSeqBegins
<1> HIDE DEF J
<1>9. Split(s, sep) = SplitAt(s, cuts)
  BY DEF Split
<1>10. Len(s) \in Nat /\ \A k \in 1..Len(s) : k \in cuts <=> s[k] = sep
  BY <1>4
<1> HIDE DEF cuts
<1>11. PICK f : IsSplitting(f, s, cuts, Len(s)) /\ SplitAt(s, cuts) = f[Len(s)]
  BY <1>10, SplitAtDefined
<1> DEFINE S == {m \in Nat : m + 1 <= n => f[Len(J(m + 1))] = SubSeq(parts, 1, m + 1)}
<1>12. 0 \in S
  <2> DEFINE e == Len(J(1))
  <2>1. e \in 0..Len(s) /\ e = Len(parts[1]) /\ SubSeq(s, 1, e) = parts[1] /\ \A k \in 1..e : k \notin cuts
    <3>1. e \in Nat /\ e <= Len(s) /\ e = Len(parts[1]) /\ parts[1] \in Seq(T) /\ \A i \in 1..e : s[i] = parts[1][i]
      BY <1>0, <1>5, <1>6, <1>8
    <3>2. \A i \in 1..e : parts[1][i] # sep
      BY <1>0, <3>1 DEF Range, n
    <3>3. SubSeq(s, 1, e) = parts[1]
      <4> HIDE DEF e
      <4>1. 0 \in Nat /\ 0 + 1 = 1 /\ 0 + e = e /\ \A i \in 1..e : 0 + i = i
        BY <3>1
      <4>2. 0 + Len(parts[1]) <= Len(s) /\ \A i \in 1..Len(parts[1]) : s[0 + i] = parts[1][i]
        BY <3>1, <4>1
      <4>3. SubSeq(s, 0 + 1, 0 + Len(parts[1])) = parts[1]
        BY <1>4, <3>1, <4>1, <4>2, PieceOf
      <4> QED
        BY <3>1, <4>1, <4>3
    <3> HIDE DEF e
    <3>4. e \in 0..Len(s) /\ \A k \in 1..e : k \in 1..Len(s)
      BY <1>10, <3>1
    <3>5. \A k \in 1..e : s[k] # sep
      BY <3>1, <3>2
    <3>6. \A k \in 1..e : k \notin cuts
      BY <1>10, <3>4, <3>5
    <3> QED
      BY <3>1, <3>3, <3>4, <3>6
  <2> HIDE DEF e
  <2>2. f[e] = <<SubSeq(s, 1, e)>>
    BY <1>4, <1>11, <2>1, SplittingFirst
  <2>3. SubSeq(parts, 1, 1) = <<parts[1]>>
    BY <1>0, FirstOnly DEF n
  <2>4. f[Len(J(1))] = SubSeq(parts, 1, 1)
    BY <2>1, <2>2, <2>3 DEF e
  <2>5. 0 + 1 = 1 /\ 0 \in Nat
    OBVIOUS
  <2> QED
    BY <2>4, <2>5
<1>13. ASSUME NEW m \in Nat, m \in S
       PROVE  m + 1 \in S
  <2> DEFINE k == m + 1
  <2> SUFFICES ASSUME k + 1 <= n
               PROVE  f[Len(J(k + 1))] = SubSeq(parts, 1, k + 1)
    OBVIOUS
  <2>0. k \in 1..n - 1 /\ k \in 1..n /\ k + 1 \in 1..n /\ k \in Nat
    BY <1>0
  <2>1. f[Len(J(k))] = SubSeq(parts, 1, k)
    BY <1>13, <2>0
  <2> HIDE DEF k, S
  <2> DEFINE p == parts[k + 1]
             c == Len(J(k)) + 1
             e == Len(J(k + 1))
  <2>2. p \in Seq(T) /\ sep \notin Range(p) /\ J(k) \in Seq(T) /\ J(k + 1) \in Seq(T) /\ J(k + 1) = J(k) \o (<<sep>> \o p)
    BY <1>0, <1>5, <1>7, <2>0 DEF n
  <2>3. /\ e = c + Len(p) /\ c \in Nat /\ Len(p) \in Nat /\ J(k + 1)[c] = sep /\ \A i \in 1..Len(p) : J(k + 1)[c + i] = p[i]
        /\ c >= 1
    <3> DEFINE w == J(k + 1)
               a == J(k)
    <3> HIDE DEF p
    <3>1. w = a \o (<<sep>> \o p) /\ a \in Seq(T) /\ p \in Seq(T)
      BY <2>2
    <3> HIDE DEF w, a
    <3>2. Len(w) = Len(a) + 1 + Len(p) /\ w[Len(a) + 1] = sep /\ \A i \in 1..Len(p) : w[Len(a) + 1 + i] = p[i]
      BY <3>1, AfterSeparator
    <3>3. Len(a) \in Nat /\ Len(p) \in Nat
      BY <3>1
    <3> QED
      BY <3>2, <3>3 DEF w, a
  <2>4. e <= Len(s) /\ \A i \in 1..e : s[i] = J(k + 1)[i]
    BY <1>8, <2>0
  <2> HIDE DEF c, e, p
  <2>5. c \in 1..Len(s) /\ c \in cuts /\ e \in c..Len(s)
    <3>1. c <= e /\ e <= Len(s) /\ c \in 1..e /\ e \in Nat
      BY <2>3, <2>4
    <3>2. c \in 1..Len(s) /\ e \in c..Len(s)
      BY <1>10, <2>3, <3>1
    <3>3. s[c] = sep
      BY <2>3, <2>4, <3>1
    <3> QED
      BY <1>10, <3>2, <3>3
  <2>6. \A i \in 1..Len(p) : s[c + i] = p[i] /\ p[i] # sep
    <3>1. \A i \in 1..Len(p) : p[i] # sep
      BY <2>2 DEF Range
    <3> QED
      BY <2>3, <2>4, <3>1
  <2>7. \A i \in c + 1..e : i \notin cuts
    <3>1. ASSUME NEW i \in c + 1..e
          PROVE  i \notin cuts
      <4>1. i - c \in 1..Len(p) /\ c + (i - c) = i /\ i \in 1..Len(s)
        BY <2>3, <2>5
      <4> QED
        BY <1>10, <2>6, <4>1
    <3> QED
      BY <3>1
  <2>8. f[e] = Append(f[c - 1], SubSeq(s, c + 1, e))
    BY <1>4, <1>11, <2>5, <2>7, SplittingCut
  <2>9. SubSeq(s, c + 1, e) = p
    <3>1. c + Len(p) <= Len(s) /\ c \in Nat /\ e = c + Len(p)
      BY <2>3, <2>5
    <3>2. SubSeq(s, c + 1, c + Len(p)) = p
      BY <1>4, <2>2, <2>6, <3>1, PieceOf
    <3> QED
      BY <3>1, <3>2
  <2>10. c - 1 = Len(J(k))
    BY <2>2 DEF c
  <2>11. SubSeq(parts, 1, k + 1) = Append(SubSeq(parts, 1, k), parts[k + 1])
    BY <1>0, <2>0 DEF n
  <2> QED
    BY <2>1, <2>8, <2>9, <2>10, <2>11 DEF e, p
<1>14. Nat \subseteq S
  <2> HIDE DEF S
  <2> QED
    BY <1>12, <1>13, InductionOnSet
<1>15. f[Len(J(n))] = SubSeq(parts, 1, n)
  <2>1. n - 1 \in Nat /\ (n - 1) + 1 = n
    BY <1>0
  <2>2. n - 1 \in S
    BY <1>14, <2>1
  <2> QED
    BY <1>0, <2>1, <2>2
<1>16. SubSeq(parts, 1, n) = parts
  BY <1>0 DEF n
<1> QED
  BY <1>4, <1>9, <1>11, <1>15, <1>16 DEF s

\* A text without the separator is one segment.
LEMMA SplitNone ==
  ASSUME NEW s, IsSequence(s), NEW sep, sep \notin Range(s)
  PROVE  Split(s, sep) = <<s>>
<1> DEFINE T == Range(s)
           cuts == {i \in DOMAIN s : s[i] = sep}
<1>1. s \in Seq(T)
  BY TextType
<1>2. Len(s) \in Nat /\ Len(s) \in 0..Len(s) /\ SubSeq(s, 1, Len(s)) = s
  BY <1>1
<1>3. \A k \in 1..Len(s) : k \notin cuts
  BY <1>1 DEF Range
<1> HIDE DEF T, cuts
<1>4. PICK f : IsSplitting(f, s, cuts, Len(s)) /\ SplitAt(s, cuts) = f[Len(s)]
  BY <1>2, SplitAtDefined
<1>5. f[Len(s)] = <<SubSeq(s, 1, Len(s))>>
  BY <1>1, <1>2, <1>3, <1>4, SplittingFirst
<1>6. Split(s, sep) = SplitAt(s, cuts)
  BY DEF Split, cuts
<1> QED
  BY <1>2, <1>4, <1>5, <1>6

\* The tokens of a list of texts, and a separator.
TokensOf(list, sep) == {sep} \cup UNION {Range(list[i]) : i \in DOMAIN list}

\* Texts are sequences of their tokens.
LEMMA TextsType ==
  ASSUME NEW list, IsTexts(list), NEW T, \A i \in DOMAIN list : Range(list[i]) \subseteq T
  PROVE  list \in Seq(Seq(T)) /\ DOMAIN list = 1..Len(list) /\ Len(list) \in Nat
<1>1. Len(list) \in Nat /\ list = [i \in 1..Len(list) |-> list[i]] /\ \A i \in DOMAIN list : IsSequence(list[i])
  BY DEF IsTexts, IsSequence
<1>2. \A i \in 1..Len(list) : list[i] \in Seq(T)
  BY <1>1, TextType
<1> DEFINE U == Seq(T)
<1> HIDE DEF U
<1>3. list \in [1..Len(list) -> U]
  BY <1>1, <1>2 DEF U
<1>4. list \in Seq(U)
  BY <1>1, <1>3
<1> QED
  BY <1>1, <1>3, <1>4 DEF U

\* Texts that are joined are a text of their tokens, and split again they
\* are what they were.
LEMMA JoinBack ==
  ASSUME NEW list, IsTexts(list), list # <<>>, NEW sep, \A i \in DOMAIN list : sep \notin Range(list[i])
  PROVE  /\ IsSequence(Join(list, sep)) /\ Range(Join(list, sep)) \subseteq TokensOf(list, sep)
         /\ Split(Join(list, sep), sep) = list
<1> DEFINE T == TokensOf(list, sep)
           s == Join(list, sep)
<1>1. sep \in T /\ \A i \in DOMAIN list : Range(list[i]) \subseteq T
  BY DEF TokensOf
<1> HIDE DEF T
<1>2. list \in Seq(Seq(T)) /\ DOMAIN list = 1..Len(list)
  BY <1>1, TextsType
<1>3. s \in Seq(T) /\ Split(s, sep) = list
  BY <1>1, <1>2, SplitJoin
<1> HIDE DEF s
<1>4. Len(s) \in Nat /\ s = [i \in 1..Len(s) |-> s[i]] /\ Range(s) \subseteq T
  BY <1>3 DEF Range
<1> QED
  BY <1>3, <1>4 DEF IsSequence, T, s
-----------------------------------------------------------------------------
(***************************************************************************)
(* The rules of webhooks                                                   *)
(***************************************************************************)
KnownOperations == Operations \cup {<<"*">>}

\* Of the operations those that are known are left.
LEMMA RevertedOperations ==
  ASSUME NEW texts, IsSequence(texts)
  PROVE  revertOperations(texts) \in Seq(KnownOperations) /\ Range(revertOperations(texts)) = Range(texts) \cap KnownOperations
<1> DEFINE K == KnownOperations
           keep(i) == IF texts[i] \in K THEN <<texts[i]>> ELSE <<>>
           parts == [i \in 1..Len(texts) |-> keep(i)]
           r == revertOperations(texts)
<1>0. Len(texts) \in Nat /\ DOMAIN texts = 1..Len(texts)
  BY DEF IsSequence
<1>1. r = FlattenSeq(parts)
  BY <1>0, Zenon DEF revertOperations, KnownOperations
<1> HIDE DEF K, r
<1>2. \A i \in 1..Len(texts) : keep(i) \in Seq(K) /\ Range(keep(i)) = {texts[i]} \cap K
  <2> TAKE i \in 1..Len(texts)
  <2>1. CASE texts[i] \in K
    <3>1. keep(i) = <<texts[i]>>
      BY <2>1
    <3>2. <<texts[i]>> \in Seq(K) /\ Range(<<texts[i]>>) = {texts[i]}
      BY <2>1 DEF Range
    <3> HIDE DEF keep
    <3> QED
      BY <2>1, <3>1, <3>2
  <2>2. CASE texts[i] \notin K
    <3>1. keep(i) = <<>>
      BY <2>2
    <3>2. <<>> \in Seq(K) /\ Range(<<>>) = {}
      BY DEF Range
    <3> HIDE DEF keep
    <3> QED
      BY <2>2, <3>1, <3>2
  <2> QED
    BY <2>1, <2>2
<1> HIDE DEF keep
<1>3. parts \in Seq(Seq(K)) /\ Len(parts) = Len(texts) /\ \A i \in 1..Len(texts) : parts[i] = keep(i)
  BY <1>0, <1>2
<1> HIDE DEF parts
<1>4. r \in Seq(K) /\ \A x : x \in Range(r) <=> \E i \in 1..Len(parts) : x \in Range(parts[i])
  BY <1>1, <1>3, FlattenSeqType, FlattenSeqRange
<1>5. \A x : x \in Range(r) <=> \E i \in 1..Len(texts) : x = texts[i] /\ x \in K
  <2>1. \A i \in 1..Len(texts) : \A x : x \in Range(parts[i]) <=> x = texts[i] /\ x \in K
    <3> TAKE i \in 1..Len(texts)
    <3>1. Range(parts[i]) = {texts[i]} \cap K
      BY <1>2, <1>3
    <3> QED
      BY <3>1
  <2>2. \A x : x \in Range(r) <=> \E i \in 1..Len(texts) : x \in Range(parts[i])
    BY <1>3, <1>4
  <2> QED
    BY <2>1, <2>2, Zenon
<1>6. \A x : x \in Range(texts) <=> \E i \in 1..Len(texts) : x = texts[i]
  BY <1>0 DEF Range
<1>7. Range(r) = Range(texts) \cap K
  BY <1>5, <1>6
<1> QED
  BY <1>4, <1>7 DEF K, r

\* A known operation is one word.
LEMMA KnownIsWord ==
  ASSUME NEW op \in KnownOperations
  PROVE  IsSequence(op) /\ {"/", "|"} \cap Range(op) = {} /\ op # <<>>
<1>1. PICK w \in {"CREATE", "UPDATE", "DELETE", "CONNECT", "*"} : op = <<w>>
  BY DEF KnownOperations, Operations
<1>2. Len(<<w>>) = 1 /\ <<w>> = [i \in 1..1 |-> <<w>>[i]] /\ Range(<<w>>) = {w} /\ <<w>> # <<>>
  BY DEF Range
<1>3. w \notin {"/", "|"}
  BY <1>1
<1> QED
  BY <1>1, <1>2, <1>3 DEF IsSequence

\* Operations that mean the same.
MeaningOf(operations) == IF <<"*">> \in Range(operations) THEN Operations ELSE Range(operations) \cap Operations

\* The text of operations is one, without slashes, and what it is read as
\* means the same.
LEMMA OperationsBack ==
  ASSUME NEW ops, IsTexts(ops), \A i \in DOMAIN ops : {"/", "|"} \cap Range(ops[i]) = {}
  PROVE  LET text == convertOperations(ops)
             back == revertOperations(Split(text, "|"))
         IN  /\ IsSequence(text) /\ "/" \notin Range(text)
             /\ IsTexts(back) /\ \A i \in DOMAIN back : {"/", "|"} \cap Range(back[i]) = {}
             /\ MeaningOf(back) = MeaningOf(ops)
<1> DEFINE text == convertOperations(ops)
           list == Split(text, "|")
           back == revertOperations(list)
           all == <<"*">>
<1>a. all \in KnownOperations /\ IsSequence(all) /\ {"/", "|"} \cap Range(all) = {}
  <2>1. all \in KnownOperations
    BY DEF KnownOperations
  <2> HIDE DEF all
  <2> QED
    BY <2>1, KnownIsWord
<1>b. all \notin Operations
  BY DEF Operations
<1>c. MeaningOf(ops) = IF all \in Range(ops) THEN Operations ELSE Range(ops) \cap Operations
  BY DEF MeaningOf
<1>d. MeaningOf(back) = IF all \in Range(back) THEN Operations ELSE Range(back) \cap Operations
  BY DEF MeaningOf
<1>e. KnownOperations = Operations \cup {all}
  BY DEF KnownOperations
<1>f. text = IF Operations \subseteq Range(ops) THEN all ELSE Join(ops, "|")
  BY DEF convertOperations
<1>t. Len(<<all>>) = 1 /\ IsSequence(<<all>>) /\ Range(<<all>>) = {all}
  BY DEF IsSequence, Range
<1> HIDE DEF all
<1>1. /\ IsSequence(text) /\ "/" \notin Range(text) /\ IsSequence(list)
      /\ \/ list = <<all>> /\ Operations \subseteq Range(ops)
         \/ Range(list) \cap KnownOperations = Range(ops) \cap KnownOperations
  <2>1. CASE Operations \subseteq Range(ops)
    <3>1. text = all
      BY <1>f, <2>1
    <3>2. "|" \notin Range(text) /\ "/" \notin Range(text) /\ IsSequence(text)
      BY <1>a, <3>1
    <3>3. list = <<text>>
      BY <3>2, SplitNone
    <3> HIDE DEF text, list
    <3> QED
      BY <1>t, <2>1, <3>1, <3>2, <3>3
  <2>2. CASE ~(Operations \subseteq Range(ops)) /\ ops = <<>>
    <3>1. text = <<>>
      BY <1>f, <2>2 DEF Join, Empty
    <3>2. IsSequence(<<>>) /\ Range(<<>>) = {}
      BY DEF IsSequence, Range
    <3>3. list = <<text>>
      BY <3>1, <3>2, SplitNone
    <3>4. Range(<< <<>> >>) = {<<>>} /\ IsSequence(<< <<>> >>) /\ <<>> \notin KnownOperations
      <4>1. <<>> \notin KnownOperations
        BY KnownIsWord
      <4> DEFINE none == <<>>
      <4> HIDE DEF none
      <4>2. Range(<<none>>) = {none} /\ IsSequence(<<none>>)
        BY DEF IsSequence, Range
      <4> QED
        BY <4>1, <4>2 DEF none
    <3> HIDE DEF text, list
    <3>5. Range(list) \cap KnownOperations = {} /\ Range(ops) \cap KnownOperations = {} /\ IsSequence(list)
      BY <2>2, <3>1, <3>2, <3>3, <3>4
    <3> QED
      BY <3>1, <3>2, <3>5
  <2>3. CASE ~(Operations \subseteq Range(ops)) /\ ops # <<>>
    <3>1. text = Join(ops, "|")
      BY <1>f, <2>3
    <3>2. \A i \in DOMAIN ops : "|" \notin Range(ops[i]) /\ "/" \notin Range(ops[i])
      OBVIOUS
    <3>3. IsSequence(text) /\ Range(text) \subseteq TokensOf(ops, "|") /\ list = ops
      BY <2>3, <3>1, <3>2, JoinBack
    <3>4. "/" \notin TokensOf(ops, "|")
      BY <3>2 DEF TokensOf
    <3> HIDE DEF text, list
    <3> QED
      BY <3>3, <3>4 DEF IsTexts
  <2> QED
    BY <2>1, <2>2, <2>3
<1> HIDE DEF text, list
<1>2. back \in Seq(KnownOperations) /\ Range(back) = Range(list) \cap KnownOperations
  BY <1>1, RevertedOperations
<1> HIDE DEF back
<1>3. IsSequence(back) /\ \A i \in DOMAIN back : back[i] \in KnownOperations
  BY <1>2 DEF IsSequence
<1>4. \A i \in DOMAIN back : IsSequence(back[i]) /\ {"/", "|"} \cap Range(back[i]) = {}
  BY <1>3, KnownIsWord
<1>5. MeaningOf(back) = MeaningOf(ops)
  <2>1. CASE list = <<all>> /\ Operations \subseteq Range(ops)
    <3>1. all \in Range(back)
      BY <1>2, <1>a, <1>t, <2>1
    <3> QED
      BY <1>c, <1>d, <2>1, <3>1
  <2>2. CASE Range(list) \cap KnownOperations = Range(ops) \cap KnownOperations
    <3>1. (all \in Range(back) <=> all \in Range(ops)) /\ Range(back) \cap Operations = Range(ops) \cap Operations
      BY <1>2, <1>e, <2>2
    <3> QED
      BY <1>c, <1>d, <3>1
  <2> QED
    BY <1>1, <2>1, <2>2
<1> QED
  BY <1>1, <1>3, <1>4, <1>5 DEF IsTexts, text, list, back

\* A list of one.
LEMMA ListOfOne ==
  ASSUME NEW x, IsSequence(x), Len(x) = 1
  PROVE  x = <<x[1]>>
<1>1. x = [i \in 1..1 |-> x[i]]
  BY DEF IsSequence
<1> DEFINE y == x[1]
<1>2. [i \in 1..1 |-> x[i]] = [i \in 1..1 |-> y]
  OBVIOUS
<1> HIDE DEF y
<1>3. <<y>> = [i \in 1..1 |-> y]
  OBVIOUS
<1> QED
  BY <1>1, <1>2, <1>3 DEF y

\* A list of one text.
LEMMA OneText ==
  ASSUME NEW x, IsSequence(x)
  PROVE  IsTexts(<<x>>) /\ Len(<<x>>) = 1 /\ <<x>>[1] = x
<1> DEFINE y == <<x>>
<1>1. Len(y) = 1 /\ y[1] = x /\ DOMAIN y = 1..1 /\ y = [i \in 1..1 |-> y[i]]
  OBVIOUS
<1> HIDE DEF y
<1>2. IsSequence(y)
  BY <1>1 DEF IsSequence
<1>3. \A i \in DOMAIN y : y[i] = x
  BY <1>1
<1>4. IsTexts(y)
  BY <1>2, <1>3 DEF IsTexts
<1> QED
  BY <1>1, <1>4 DEF y

\* Four texts without a slash are a text of which SplitN makes the four.
LEMMA FourBack ==
  ASSUME NEW a, NEW b, NEW c, NEW d, IsSequence(a), IsSequence(b), IsSequence(c), IsSequence(d),
         "/" \notin Range(a) \cup Range(b) \cup Range(c) \cup Range(d)
  PROVE  SplitInFour(Join(<<a, b, c, d>>, "/")) = <<a, b, c, d>>
<1> DEFINE four == <<a, b, c, d>>
           s == Join(four, "/")
           sep == "/"
<1>1. Len(four) = 4 /\ DOMAIN four = 1..4 /\ four # <<>> /\ four = [i \in 1..4 |-> four[i]]
  OBVIOUS
<1>2. four[1] = a /\ four[2] = b /\ four[3] = c /\ four[4] = d
  OBVIOUS
<1> HIDE DEF four, sep
<1>3. \A i \in 1..4 : IsSequence(four[i]) /\ sep \notin Range(four[i])
  BY <1>2 DEF sep
<1>4. IsTexts(four)
  BY <1>1, <1>3 DEF IsTexts, IsSequence
<1>5. Split(Join(four, sep), sep) = four
  BY <1>1, <1>3, <1>4, JoinBack
<1>6. Split(s, "/") = four
  BY <1>5 DEF sep
<1>7. Len(four) <= 4
  BY <1>1
<1> HIDE DEF s
<1>8. SplitInFour(s) = four
  BY <1>6, <1>7, Zenon DEF SplitInFour
<1> QED
  BY <1>8 DEF s, four

\* A rule in Short that can be written.
IsWritten(q) ==
  /\ q = KubeRule(q.groups, q.versions, q.resources, q.operations)
  /\ \A part \in DOMAIN q : IsTexts(q[part])
  /\ Len(q.operations) = 1 /\ "/" \notin Range(q.operations[1])

\* A rule is read as it was written, from a text and from an object.
LEMMA WrittenRuleBack ==
  ASSUME NEW q, IsWritten(q), RuleFits(q), NEW m \in MarshalRule(q), NEW u \in UnmarshalRule(m)
  PROVE  u = q
<1> DEFINE g == q.groups
           v == q.versions
           r == q.resources
           o == q.operations
           J == Join(<<g[1], v[1], r[1], o[1]>>, "/")
<1>1. q = KubeRule(g, v, r, o) /\ DOMAIN q = {"groups", "versions", "resources", "operations"}
  <2>1. q = KubeRule(g, v, r, o)
    BY DEF IsWritten
  <2>2. DOMAIN KubeRule(g, v, r, o) = {"groups", "versions", "resources", "operations"}
    BY DEF KubeRule
  <2> QED
    BY <2>1, <2>2
<1>2. IsTexts(g) /\ IsTexts(v) /\ IsTexts(r) /\ IsTexts(o) /\ Len(o) = 1 /\ "/" \notin Range(o[1])
  BY <1>1 DEF IsWritten
<1>3. MarshalRule(q) # {}
  OBVIOUS
<1>4. ~\E part \in DOMAIN q : q[part] = <<>>
  BY <1>3, Zenon DEF MarshalRule
<1>5. CASE \A part \in DOMAIN q : Len(q[part]) = 1
  <2>1. MarshalRule(q) = {[text |-> J]}
    BY <1>4, <1>5, Zenon DEF MarshalRule
  <2>2. Len(g) = 1 /\ Len(v) = 1 /\ Len(r) = 1
    BY <1>1, <1>5
  <2>3. "/" \notin Range(g[1]) /\ "/" \notin Range(v[1]) /\ "/" \notin Range(r[1])
    BY <2>2 DEF RuleFits
  <2>4. IsSequence(g[1]) /\ IsSequence(v[1]) /\ IsSequence(r[1]) /\ IsSequence(o[1])
    <3>1. 1 \in DOMAIN g /\ 1 \in DOMAIN v /\ 1 \in DOMAIN r /\ 1 \in DOMAIN o
      BY <1>2, <2>2 DEF IsTexts, IsSequence
    <3> QED
      BY <1>2, <3>1 DEF IsTexts
  <2>5. g = <<g[1]>> /\ v = <<v[1]>> /\ r = <<r[1]>> /\ o = <<o[1]>>
    BY <1>2, <2>2, ListOfOne DEF IsTexts
  <2> DEFINE four == <<g[1], v[1], r[1], o[1]>>
             parts == SplitInFour(J)
  <2>6. parts = four
    BY <1>2, <2>3, <2>4, FourBack
  <2>7. Len(four) = 4 /\ four[1] = g[1] /\ four[2] = v[1] /\ four[3] = r[1] /\ four[4] = o[1]
    OBVIOUS
  <2> HIDE DEF J
  <2>8. m.text = J /\ "lists" \notin DOMAIN m
    BY <2>1
  <2> HIDE DEF parts, four
  <2>9. Len(parts) = 4 /\ parts[1] = g[1] /\ parts[2] = v[1] /\ parts[3] = r[1] /\ parts[4] = o[1]
    BY <2>6, <2>7
  <2>10. parts = SplitInFour(m.text)
    BY <2>8 DEF parts
  <2>11. 4 # 3
    OBVIOUS
  <2>12. UnmarshalRule(m) = {KubeRule(<<parts[1]>>, <<parts[2]>>, <<parts[3]>>, <<parts[4]>>)}
    BY <2>8, <2>9, <2>10, <2>11, Zenon DEF UnmarshalRule
  <2>13. u = KubeRule(<<g[1]>>, <<v[1]>>, <<r[1]>>, <<o[1]>>)
    BY <2>9, <2>12, Zenon
  <2> QED
    BY <1>1, <2>5, <2>13, Zenon
<1>6. CASE ~\A part \in DOMAIN q : Len(q[part]) = 1
  <2>1. MarshalRule(q) = {[lists |-> q]}
    BY <1>4, <1>6, Zenon DEF MarshalRule
  <2>2. m.lists = q /\ "lists" \in DOMAIN m
    BY <2>1
  <2>3. UnmarshalRule(m) \subseteq {m.lists}
    BY <2>2, Zenon DEF UnmarshalRule
  <2> QED
    BY <2>2, <2>3
<1> QED
  BY <1>5, <1>6

\* A rule in Kubernetes syntax as convertWebhook copies it, with one text
\* for its operations.
OneOperation(r) == [r EXCEPT !.operations = <<convertOperations(@)>>]

\* A rule is read as one for the same requests.
LEMMA RuleBack ==
  ASSUME NEW r, IsWebhookRule(r), RuleFits(r), NEW m \in MarshalRule(OneOperation(r)), NEW u \in UnmarshalRule(m)
  PROVE  /\ IsWebhookRule(revertRule(u)) /\ RuleFits(revertRule(u))
         /\ [revertRule(u) EXCEPT !.operations = OperationsOf(revertRule(u))] = [r EXCEPT !.operations = OperationsOf(r)]
<1> DEFINE text == convertOperations(r.operations)
           q == OneOperation(r)
           back == revertOperations(Split(text, "|"))
           b == KubeRule(r.groups, r.versions, r.resources, back)
<1>1. r = KubeRule(r.groups, r.versions, r.resources, r.operations) /\ DOMAIN r = {"groups", "versions", "resources", "operations"}
  <2>1. r = KubeRule(r.groups, r.versions, r.resources, r.operations)
    BY DEF IsWebhookRule
  <2> QED
    BY <2>1 DEF KubeRule
<1>2. IsTexts(r.groups) /\ IsTexts(r.versions) /\ IsTexts(r.resources) /\ IsTexts(r.operations)
  BY <1>1 DEF IsWebhookRule
<1>3. /\ IsSequence(text) /\ "/" \notin Range(text)
      /\ IsTexts(back) /\ \A i \in DOMAIN back : {"/", "|"} \cap Range(back[i]) = {}
      /\ MeaningOf(back) = MeaningOf(r.operations)
  BY <1>2, OperationsBack, Zenon DEF IsWebhookRule
<1> HIDE DEF text, back
<1>4. q = KubeRule(r.groups, r.versions, r.resources, <<text>>)
  BY <1>1 DEF OneOperation, KubeRule, text
<1>5. IsTexts(<<text>>) /\ Len(<<text>>) = 1 /\ <<text>>[1] = text
  BY <1>3, OneText
<1> DEFINE one == <<text>>
<1> HIDE DEF one
<1>6. q = KubeRule(r.groups, r.versions, r.resources, one) /\ IsTexts(one) /\ Len(one) = 1 /\ one[1] = text
  BY <1>4, <1>5 DEF one
<1> HIDE DEF q
<1>7. /\ DOMAIN q = {"groups", "versions", "resources", "operations"}
      /\ q.groups = r.groups /\ q.versions = r.versions /\ q.resources = r.resources /\ q.operations = one
  BY <1>6 DEF KubeRule
<1>8. IsWritten(q)
  BY <1>2, <1>3, <1>6, <1>7 DEF IsWritten
<1>9. RuleFits(q)
  BY <1>7 DEF RuleFits
<1>10. u = q
  BY <1>8, <1>9, WrittenRuleBack DEF q
<1>11. revertRule(u) = b
  <2>1. revertRule(q) = [q EXCEPT !.operations = revertOperations(Split(q.operations[1], "|"))]
    BY DEF revertRule
  <2>2. revertOperations(Split(q.operations[1], "|")) = back
    BY <1>6, <1>7 DEF back
  <2> QED
    BY <1>6, <1>10, <2>1, <2>2 DEF KubeRule
<1>12. /\ DOMAIN b = {"groups", "versions", "resources", "operations"}
       /\ b.groups = r.groups /\ b.versions = r.versions /\ b.resources = r.resources /\ b.operations = back
  BY DEF KubeRule
<1>13. IsWebhookRule(b)
  <2>1. b = KubeRule(b.groups, b.versions, b.resources, b.operations)
    BY <1>12
  <2> HIDE DEF b
  <2>2. \A part \in DOMAIN b : IsTexts(b[part])
    BY <1>2, <1>3, <1>12
  <2> QED
    BY <1>3, <1>12, <2>1, <2>2, Zenon DEF IsWebhookRule
<1>14. RuleFits(b)
  <2> HIDE DEF b
  <2> QED
    BY <1>12 DEF RuleFits
<1>15. OperationsOf(b) = OperationsOf(r)
  <2> HIDE DEF b
  <2>1. OperationsOf(b) = MeaningOf(back) /\ OperationsOf(r) = MeaningOf(r.operations)
    BY <1>12 DEF OperationsOf, MeaningOf
  <2> QED
    BY <1>3, <2>1
<1>16. [b EXCEPT !.operations = OperationsOf(r)] = [r EXCEPT !.operations = OperationsOf(r)]
  <2> DEFINE x == OperationsOf(r)
  <2> HIDE DEF x
  <2>1. [b EXCEPT !.operations = x] = KubeRule(r.groups, r.versions, r.resources, x)
    BY DEF KubeRule
  <2>2. [r EXCEPT !.operations = x] = KubeRule(r.groups, r.versions, r.resources, x)
    BY <1>1 DEF KubeRule
  <2> QED
    BY <2>1, <2>2 DEF x
<1> HIDE DEF b
<1> QED
  BY <1>11, <1>13, <1>14, <1>15, <1>16

-----------------------------------------------------------------------------
(***************************************************************************)
(* The service and the selector of a webhook                               *)
(***************************************************************************)
\* Two texts with a separator between them.
LEMMA TwoBack ==
  ASSUME NEW a, NEW b, NEW sep, IsSequence(a), IsSequence(b), sep \notin Range(a), sep \notin Range(b)
  PROVE  Split((a \o <<sep>>) \o b, sep) = <<a, b>> /\ IsSequence((a \o <<sep>>) \o b)
         /\ Range((a \o <<sep>>) \o b) = Range(a) \cup {sep} \cup Range(b)
<1> DEFINE T == Range(a) \cup {sep} \cup Range(b)
           s == (a \o <<sep>>) \o b
           cuts == {i \in DOMAIN s : s[i] = sep}
<1>1. a \in Seq(T) /\ b \in Seq(T) /\ sep \in T
  <2>1. Range(a) \subseteq T /\ Range(b) \subseteq T
    OBVIOUS
  <2> HIDE DEF T
  <2>2. a \in Seq(T) /\ b \in Seq(T)
    BY <2>1, TextType
  <2> QED
    BY <2>2 DEF T
<1>t. \A x : x \in T <=> x = sep \/ x \in Range(a) \/ x \in Range(b)
  OBVIOUS
<1> HIDE DEF T
<1>2. /\ s \in Seq(T)
      /\ Len(s) = Len(a) + 1 + Len(b) /\ Len(a) \in Nat /\ Len(b) \in Nat
      /\ DOMAIN s = 1..Len(a) + 1 + Len(b)
      /\ s[Len(a) + 1] = sep
      /\ \A i \in 1..Len(a) : s[i] = a[i]
      /\ \A i \in Len(a) + 2..Len(a) + 1 + Len(b) : s[i] = b[i - (Len(a) + 1)] /\ i - (Len(a) + 1) \in 1..Len(b)
  BY <1>1, RangeOfThree
<1> HIDE DEF s
<1>3. (\A i \in 1..Len(a) : a[i] \in Range(a)) /\ (\A i \in 1..Len(b) : b[i] \in Range(b))
  BY <1>1 DEF Range
<1>4. \A k \in 1..Len(s) : k \in cuts <=> k = Len(a) + 1
  <2> TAKE k \in 1..Len(s)
  <2>1. k \in 1..Len(a) \/ k = Len(a) + 1 \/ k \in Len(a) + 2..Len(a) + 1 + Len(b)
    BY <1>2
  <2>2. k \in cuts <=> s[k] = sep
    BY <1>2
  <2>3. CASE k \in 1..Len(a)
    BY <1>2, <1>3, <2>2, <2>3
  <2>4. CASE k = Len(a) + 1
    BY <1>2, <2>2, <2>4
  <2>5. CASE k \in Len(a) + 2..Len(a) + 1 + Len(b)
    BY <1>2, <1>3, <2>2, <2>5
  <2> QED
    BY <2>1, <2>3, <2>4, <2>5
<1>5. Split(s, sep) = SplitAt(s, cuts)
  BY DEF Split
<1> HIDE DEF cuts
<1>6. SplitAt(s, cuts) = <<a, b>>
  BY <1>1, <1>4, SplitInTwoAt DEF s
<1>7. IsSequence(s)
  BY <1>2 DEF IsSequence
<1>8. Range(s) \subseteq T
  BY <1>2 DEF Range
<1>9. T \subseteq Range(s)
  <2>1. sep \in Range(s)
    BY <1>2 DEF Range
  <2>2. ASSUME NEW i \in 1..Len(a)
        PROVE  a[i] \in Range(s)
    BY <1>2 DEF Range
  <2>3. ASSUME NEW i \in 1..Len(b)
        PROVE  b[i] \in Range(s)
    <3> DEFINE k == i + (Len(a) + 1)
    <3>1. k \in Len(a) + 2..Len(a) + 1 + Len(b) /\ k - (Len(a) + 1) = i /\ k \in DOMAIN s
      BY <1>2
    <3> HIDE DEF k
    <3>2. s[k] = b[i]
      BY <1>2, <3>1
    <3> QED
      BY <3>1, <3>2 DEF Range
  <2>4. (\A x \in Range(a) : \E i \in 1..Len(a) : x = a[i]) /\ (\A x \in Range(b) : \E i \in 1..Len(b) : x = b[i])
    BY <1>1 DEF Range
  <2>5. Range(a) \subseteq Range(s) /\ Range(b) \subseteq Range(s)
    BY <2>2, <2>3, <2>4
  <2> QED
    BY <1>t, <2>1, <2>5
<1>10. Range(s) = T
  BY <1>8, <1>9
<1> QED
  BY <1>5, <1>6, <1>7, <1>10 DEF s, T

\* A service is read as it was written; none is read as none.
LEMMA ServiceBack ==
  ASSUME NEW s, s # Nil => IsService(s), ServiceFits(s), NEW text \in convertService(s)
  PROVE  revertService(text) = s
<1>1. CASE s = Nil
  <2>1. text = Empty
    BY <1>1, Zenon DEF convertService
  <2>2. IsSequence(Empty) /\ Range(Empty) = {}
    BY DEF IsSequence, Range, Empty
  <2>3. Split(Empty, ":") = <<Empty>> /\ Split(Empty, "/") = <<Empty>>
    BY <2>2, SplitNone
  <2> DEFINE none == Empty
             one == <<none>>
  <2>4. one[1] = none /\ Len(one) = 1 /\ ~(Len(one) > 1)
    <3> HIDE DEF none
    <3> QED
      OBVIOUS
  <2> HIDE DEF none, one
  <2>5. Split(text, ":") = one /\ Split(one[1], "/") = one
    BY <2>1, <2>3, <2>4 DEF none, one
  <2>6. revertService(text) = IF ServiceReference(one[1], Empty, Nil) = ServiceReference(Empty, Empty, Nil) THEN Nil ELSE ServiceReference(one[1], Empty, Nil)
    BY <2>4, <2>5, Zenon DEF revertService
  <2> QED
    BY <1>1, <2>4, <2>6, Zenon DEF none
<1>2. CASE s # Nil
  <2> DEFINE a == s.ns
             b == s.name
             p == s.path
             ab == (a \o <<"/">>) \o b
  <2>1. /\ s = ServiceReference(a, b, p) /\ IsSequence(a) /\ IsSequence(b)
        /\ {":", "/"} \cap (Range(a) \cup Range(b)) = {} /\ p # Nil /\ IsSequence(p) /\ ":" \notin Range(p)
    BY <1>2 DEF IsService, ServiceFits, Plain
  <2>2. text = ((a \o <<"/">>) \o b \o <<":">>) \o p
    BY <1>2, <2>1, Zenon DEF convertService
  <2> HIDE DEF a, b, p
  <2>3. "/" \notin Range(a) /\ "/" \notin Range(b) /\ ":" \notin Range(a) /\ ":" \notin Range(b)
    BY <2>1
  <2> DEFINE slash == "/"
             colon == ":"
  <2>4. slash \notin Range(a) /\ slash \notin Range(b) /\ colon \notin Range(a) /\ colon \notin Range(b) /\ colon # slash /\ colon \notin Range(p)
    BY <2>1, <2>3
  <2>5. Split(ab, slash) = <<a, b>> /\ IsSequence(ab) /\ Range(ab) = Range(a) \cup {slash} \cup Range(b)
    <3> HIDE DEF slash, colon
    <3>1. ab = (a \o <<slash>>) \o b
      BY DEF slash
    <3> HIDE DEF ab
    <3> QED
      BY <2>1, <2>4, <3>1, TwoBack
  <2> HIDE DEF ab, slash, colon
  <2>6. colon \notin Range(ab)
    BY <2>4, <2>5
  <2>7. Split((ab \o <<colon>>) \o p, colon) = <<ab, p>>
    BY <2>1, <2>4, <2>5, <2>6, TwoBack
  <2>8. Split(text, ":") = <<ab, p>> /\ Split(ab, "/") = <<a, b>>
    BY <2>2, <2>5, <2>7 DEF ab, colon, slash
  <2> DEFINE parts == <<ab, p>>
             names == <<a, b>>
  <2>9. Len(parts) > 1 /\ parts[1] = ab /\ parts[2] = p /\ Len(names) > 1 /\ names[1] = a /\ names[2] = b
    OBVIOUS
  <2> HIDE DEF parts, names
  <2>10. Split(text, ":") = parts /\ Split(parts[1], "/") = names
    BY <2>8, <2>9 DEF parts, names
  <2>11. revertService(text) = IF ServiceReference(a, b, p) = ServiceReference(Empty, Empty, Nil) THEN Nil ELSE ServiceReference(a, b, p)
    BY <2>9, <2>10, Zenon DEF revertService
  <2>12. ServiceReference(a, b, p) # ServiceReference(Empty, Empty, Nil)
    BY <2>1 DEF ServiceReference
  <2> QED
    BY <2>1, <2>11, <2>12
<1> QED
  BY <1>1, <1>2

\* The selector of a webhook, as far as a trip needs it.
HookSelector(sel) ==
  /\ sel \in AnySelector \cup {Nil}
  /\ sel # Nil => W!Joins(sel) /\ W!ValidSelector(sel)

\* One way to read a selector is the way it is read.
LEMMA OnlyReading ==
  ASSUME NEW rs, NEW x, revertRSSelector(rs, Nil) = {x}
  PROVE  revertWebhookSelector(rs) = WrittenSelector(x.selector)
<1> DEFINE y == CHOOSE r \in {x} : TRUE
<1>1. y = x
  <2>1. \E r \in {x} : TRUE
    BY Zenon
  <2>2. y \in {x}
    BY <2>1, Zenon
  <2> QED
    BY <2>2, Zenon
<1>2. revertRSSelector(rs, Nil) # {}
  OBVIOUS
<1>3. revertWebhookSelector(rs) = WrittenSelector(y.selector)
  BY <1>2, Zenon DEF revertWebhookSelector
<1> QED
  BY <1>1, <1>3, Zenon

\* No selector is read as none.
LEMMA NoSelectorBack == revertWebhookSelector(Nil) = Nil
<1> DEFINE x == [selector |-> Nil, override |-> Nil]
<1>1. revertRSSelector(Nil, Nil) = {x}
  BY Zenon DEF revertRSSelector
<1>2. x.selector = Nil
  OBVIOUS
<1> HIDE DEF x
<1>3. revertWebhookSelector(Nil) = WrittenSelector(x.selector)
  BY <1>1, OnlyReading
<1> QED
  BY <1>2, <1>3, Zenon DEF WrittenSelector

\* A selector without expressions: what it selects depends on its labels.
LEMMA LabelsOnly ==
  ASSUME NEW labels \in AnyLabels
  PROVE  /\ LabelSelector(labels, <<>>) \in AnySelector /\ HookSelector(LabelSelector(labels, <<>>))
         /\ LabelSelector(labels, <<>>) # Nil
         /\ \A l : Matches(LabelSelector(labels, <<>>), l) <=>
                     (labels # Nil => \A k \in DOMAIN labels : k \in DOMAIN l /\ l[k] = labels[k])
<1> DEFINE none == <<>>
           sel == LabelSelector(labels, none)
<1>0. none \in Seq(AnyRequirement) /\ DOMAIN none = {}
  OBVIOUS
<1> HIDE DEF none
<1>1. sel \in AnySelector
  BY <1>0 DEF AnySelector, LabelSelector
<1>2. sel.exprs = none /\ sel.labels = labels /\ sel # Nil
  BY <1>1, NilAssumption DEF LabelSelector
<1> HIDE DEF sel
<1>3. W!Joins(sel) /\ W!ValidSelector(sel)
  BY <1>0, <1>2 DEF W!Joins, W!ValidSelector
<1>4. \A l : Matches(sel, l) <=> (labels # Nil => \A k \in DOMAIN labels : k \in DOMAIN l /\ l[k] = labels[k])
  BY <1>0, <1>2, Zenon DEF Matches
<1> QED
  BY <1>1, <1>2, <1>3, <1>4, Zenon DEF HookSelector, sel, none

\* A webhook's selector comes back as one that selects the same.
LEMMA HookSelectorBack ==
  ASSUME NEW sel, HookSelector(sel), SelectedBy(sel) # {}, NEW c \in convertRSLabelSelector(sel, Nil), NEW back,
         back = revertWebhookSelector(WrittenRSSelector(c.selector))
  PROVE  HookSelector(back) /\ SelectedBy(back) = SelectedBy(sel)
<1>n. HookSelector(Nil) /\ SelectedBy(Nil) = Labelings
  BY DEF HookSelector, SelectedBy
<1>1. CASE sel = Nil
  <2>1. c.selector = RSSelector(<<>>, Nil)
    BY <1>1 DEF convertRSLabelSelector
  <2>2. WrittenRSSelector(c.selector) = Nil
    BY <2>1 DEF WrittenRSSelector, RSSelector
  <2> QED
    BY <1>1, <1>n, <2>2, NoSelectorBack
<1>2. CASE sel # Nil /\ sel.exprs = <<>>
  <2> DEFINE labels == sel.labels
             rs == RSSelector(<<>>, labels)
  <2>1. sel \in AnySelector /\ labels \in AnyLabels /\ sel = LabelSelector(labels, <<>>)
    <3>1. sel \in AnySelector
      BY <1>2 DEF HookSelector
    <3> QED
      BY <1>2, <3>1 DEF AnySelector, LabelSelector
  <2>2. c.selector = rs
    BY <1>2 DEF convertRSLabelSelector
  <2>3. rs.shorthand = <<>> /\ rs.labels = labels
    BY DEF RSSelector
  <2>4. \A l : Matches(sel, l) <=> (labels # Nil => \A k \in DOMAIN labels : k \in DOMAIN l /\ l[k] = labels[k])
    BY <2>1, LabelsOnly
  <2>5. SelectedBy(sel) = {l \in Labelings : Matches(sel, l)}
    BY <1>2 DEF SelectedBy
  <2>6. CASE labels = Nil
    <3>1. WrittenRSSelector(c.selector) = Nil
      BY <2>2, <2>3, <2>6 DEF WrittenRSSelector
    <3>2. SelectedBy(sel) = Labelings
      BY <2>4, <2>5, <2>6
    <3> QED
      BY <1>n, <3>1, <3>2, NoSelectorBack
  <2>7. CASE labels # Nil
    <3> DEFINE x == [selector |-> LabelSelector(labels, <<>>), override |-> IF IsEmpty(Nil) THEN labels ELSE Nil]
               d == LabelSelector(Written(labels), <<>>)
    <3>1. WrittenRSSelector(c.selector) = rs
      BY <2>2, <2>3, <2>7 DEF WrittenRSSelector
    <3>2. rs # Nil
      <4>1. <<>> \in Seq(AnySegment)
        OBVIOUS
      <4>2. rs \in AnyRSSelector
        BY <2>1, <4>1 DEF AnyRSSelector, RSSelector
      <4> QED
        BY <4>2, NilAssumption
    <3>3. revertRSSelector(rs, Nil) = {x}
      BY <2>3, <3>2, Zenon DEF revertRSSelector
    <3>4. x.selector = sel
      BY <2>1
    <3> HIDE DEF x
    <3>5. back = WrittenSelector(sel)
      BY <3>1, <3>3, <3>4, OnlyReading
    <3>6. WrittenSelector(sel) = d
      BY <1>2 DEF WrittenSelector
    <3>7. Written(labels) \in AnyLabels
      BY <2>1 DEF Written, AnyLabels
    <3>8. HookSelector(d) /\ d # Nil
      BY <3>7, LabelsOnly
    <3>9. \A l : Matches(d, l) <=> (Written(labels) # Nil => \A k \in DOMAIN Written(labels) : k \in DOMAIN l /\ l[k] = Written(labels)[k])
      BY <3>7, LabelsOnly
    <3> HIDE DEF d, labels
    <3>10. \A l : Matches(d, l) <=> Matches(sel, l)
      <4>1. CASE DOMAIN labels = {}
        <5>1. Written(labels) = Nil
          BY <4>1 DEF Written, IsEmpty
        <5> QED
          BY <2>4, <3>9, <4>1, <5>1
      <4>2. CASE DOMAIN labels # {}
        <5>1. Written(labels) = labels
          BY <2>7, <4>2 DEF Written, IsEmpty
        <5> QED
          BY <2>4, <3>9, <5>1, Zenon
      <4> QED
        BY <4>1, <4>2
    <3>11. SelectedBy(d) = SelectedBy(sel)
      BY <2>5, <3>8, <3>10 DEF SelectedBy
    <3> QED
      BY <3>5, <3>6, <3>8, <3>11
  <2> QED
    BY <2>6, <2>7
<1>3. CASE sel # Nil /\ sel.exprs # <<>>
  <2>1. sel \in AnySelector /\ W!Joins(sel) /\ W!ValidSelector(sel)
    BY <1>3 DEF HookSelector
  <2>2. PICK s \in UnparseLabelSelector(sel) : c.selector = RSSelector(s, Nil)
    BY <1>3 DEF convertRSLabelSelector
  <2> DEFINE d == WrittenSelector(ParseLabelSelector(s))
  <2>3. /\ s \in Seq(AnySegment) /\ Parses(s) /\ d \in AnySelector /\ W!NormalSelector(d)
        /\ W!ValidSelector(sel) /\ (\E l : Matches(sel, l)) => \A l : Matches(d, l) <=> Matches(sel, l)
    BY <2>1, SelectorTrip
  <2>4. s # <<>>
    <3>1. sel \in W!AnySelector /\ s \in W!UnparseLabelSelector(sel)
      BY <2>1, SameSelectors, SameUnparsing
    <3>2. \A i \in DOMAIN sel.exprs : W!Writable(sel.exprs[i])
      BY <2>1, <3>1, SameAssumptions, W!ShorthandIsWritable
    <3> QED
      BY <1>3, <3>1, <3>2, SameAssumptions, W!ShorthandNotEmpty
  <2> DEFINE rs == RSSelector(s, Nil)
             p == ParseLabelSelector(s)
             x == [selector |-> p, override |-> IF IsEmpty(Nil) /\ p.exprs = <<>> THEN p.labels ELSE Nil]
  <2>5. rs.shorthand = s /\ rs # Nil
    <3>1. rs \in AnyRSSelector /\ rs.shorthand = s
      BY <2>3 DEF AnyRSSelector, AnyLabels, RSSelector
    <3> QED
      BY <3>1, NilAssumption
  <2>6. WrittenRSSelector(c.selector) = rs
    BY <2>2, <2>4, <2>5 DEF WrittenRSSelector
  <2> HIDE DEF rs
  <2>7. revertRSSelector(rs, Nil) = {x}
    BY <2>3, <2>4, <2>5, Zenon DEF revertRSSelector
  <2>8. x.selector = p
    OBVIOUS
  <2> HIDE DEF x, p
  <2>9. back = d
    BY <2>6, <2>7, <2>8, OnlyReading DEF p
  <2> HIDE DEF d
  <2>10. W!ValidSelector(d) /\ W!Joins(d)
    BY <2>3, SameAssumptions, W!NormalIsValid
  <2>11. d # Nil
    BY <2>3, NilAssumption
  <2>12. HookSelector(d)
    BY <2>3, <2>10 DEF HookSelector
  <2>13. \E l : Matches(sel, l)
    BY <1>3 DEF SelectedBy
  <2>14. \A l : Matches(d, l) <=> Matches(sel, l)
    BY <2>1, <2>3, <2>13
  <2>15. SelectedBy(d) = SelectedBy(sel)
    BY <1>3, <2>11, <2>14 DEF SelectedBy
  <2> QED
    BY <2>9, <2>12, <2>15
<1> QED
  BY <1>1, <1>2, <1>3
-----------------------------------------------------------------------------
(***************************************************************************)
(* Webhooks                                                                *)
(***************************************************************************)
\* No two fields of a webhook share a name in Short.
LEMMA WebhookNames == OneToOne(Webhook)
BY DEF OneToOne, Webhook

\* A webhook with its rules as they are written.
MarshalHook(k) == {[k EXCEPT !.rules = rules] : rules \in Results(MarshalRule, k.rules)}

\* A webhook that Short has a text for.
HookGood(w) ==
  /\ w = KubeWebhook(w.name, w.f, w.service, w.rules, w.selector)
  /\ IsObject(w.f, DOMAIN Webhook)
  /\ (w.service # Nil => IsService(w.service)) /\ ServiceFits(w.service)
  /\ IsSequence(w.rules) /\ \A i \in DOMAIN w.rules : IsWebhookRule(w.rules[i]) /\ RuleFits(w.rules[i])
  /\ HookSelector(w.selector)

\* What is made of a webhook on a trip, part by part.
LEMMA HookParts ==
  ASSUME NEW w, NEW k \in convertWebhook(w), NEW m \in MarshalHook(k), NEW b \in revertMWC(m)
  PROVE  /\ b.name = w.name
         /\ \E service \in convertService(w.service), c \in convertRSLabelSelector(w.selector, Nil) : \E written, rules :
              /\ DOMAIN written = DOMAIN w.rules /\ \A i \in DOMAIN w.rules : written[i] \in MarshalRule(OneOperation(w.rules[i]))
              /\ DOMAIN rules = DOMAIN w.rules /\ \A i \in DOMAIN w.rules : rules[i] \in UnmarshalRule(written[i])
              /\ b = KubeWebhook(w.name, Renamed(Renamed(w.f, Webhook), AntiFunction(Webhook)), revertService(service),
                                 [i \in DOMAIN w.rules |-> revertRule(rules[i])],
                                 revertWebhookSelector(WrittenRSSelector(c.selector)))
<1> DEFINE ones == [i \in DOMAIN w.rules |-> OneOperation(w.rules[i])]
<1> DEFINE literal == [i \in DOMAIN w.rules |-> [w.rules[i] EXCEPT !.operations = <<convertOperations(@)>>]]
<1>a. literal = ones
  BY DEF OneOperation
<1>b. convertWebhook(w) =
        {[name |-> w.name, f |-> Renamed(w.f, Webhook), service |-> service, selector |-> WrittenRSSelector(c.selector), rules |-> literal] :
           service \in convertService(w.service), c \in convertRSLabelSelector(w.selector, Nil)}
  BY DEF convertWebhook
<1> HIDE DEF literal
<1>1. PICK service \in convertService(w.service), c \in convertRSLabelSelector(w.selector, Nil) :
        k = [name |-> w.name, f |-> Renamed(w.f, Webhook), service |-> service, selector |-> WrittenRSSelector(c.selector), rules |-> ones]
  <2> HIDE DEF ones
  <2> QED
    BY <1>a, <1>b
<1>2. PICK written \in Results(MarshalRule, k.rules) : m = [k EXCEPT !.rules = written]
  BY Zenon DEF MarshalHook
<1>3. k.rules = ones
  BY <1>1
<1>4. DOMAIN ones = DOMAIN w.rules /\ \A i \in DOMAIN w.rules : ones[i] = OneOperation(w.rules[i])
  OBVIOUS
<1>5. DOMAIN written = DOMAIN k.rules /\ \A i \in DOMAIN k.rules : written[i] \in MarshalRule(k.rules[i])
  BY Zenon DEF Results
<1>6. DOMAIN written = DOMAIN w.rules /\ \A i \in DOMAIN w.rules : written[i] \in MarshalRule(OneOperation(w.rules[i]))
  BY <1>3, <1>4, <1>5, Zenon
<1> HIDE DEF ones
<1>7. /\ m.name = w.name /\ m.f = Renamed(w.f, Webhook) /\ m.service = service /\ m.selector = WrittenRSSelector(c.selector)
      /\ m.rules = written
  BY <1>1, <1>2
<1>8. PICK rules \in Results(UnmarshalRule, m.rules) :
        b = KubeWebhook(m.name, Renamed(m.f, AntiFunction(Webhook)), revertService(m.service), [i \in DOMAIN rules |-> revertRule(rules[i])],
                        revertWebhookSelector(m.selector))
  BY Zenon DEF revertMWC
<1>9. DOMAIN rules = DOMAIN m.rules /\ \A i \in DOMAIN m.rules : rules[i] \in UnmarshalRule(m.rules[i])
  BY Zenon DEF Results
<1>10. DOMAIN rules = DOMAIN w.rules /\ \A i \in DOMAIN w.rules : rules[i] \in UnmarshalRule(written[i])
  BY <1>6, <1>7, <1>9, Zenon
<1>11. b = KubeWebhook(w.name, Renamed(Renamed(w.f, Webhook), AntiFunction(Webhook)), revertService(service),
                       [i \in DOMAIN w.rules |-> revertRule(rules[i])], revertWebhookSelector(WrittenRSSelector(c.selector)))
  BY <1>7, <1>8, <1>10, Zenon
<1>12. b.name = w.name
  BY <1>11 DEF KubeWebhook
<1> QED
  BY <1>6, <1>10, <1>11, <1>12, Zenon

\* A webhook comes back as one that is called for the same requests.
LEMMA HookBack ==
  ASSUME NEW w, HookGood(w), SelectedBy(w.selector) # {}, NEW k \in convertWebhook(w), NEW m \in MarshalHook(k), NEW b \in revertMWC(m)
  PROVE  HookGood(b) /\ WebhookOf(b) = WebhookOf(w)
<1>0. PICK service \in convertService(w.service), c \in convertRSLabelSelector(w.selector, Nil) : \E written, rules :
        /\ DOMAIN written = DOMAIN w.rules /\ \A i \in DOMAIN w.rules : written[i] \in MarshalRule(OneOperation(w.rules[i]))
        /\ DOMAIN rules = DOMAIN w.rules /\ \A i \in DOMAIN w.rules : rules[i] \in UnmarshalRule(written[i])
        /\ b = KubeWebhook(w.name, Renamed(Renamed(w.f, Webhook), AntiFunction(Webhook)), revertService(service),
                           [i \in DOMAIN w.rules |-> revertRule(rules[i])], revertWebhookSelector(WrittenRSSelector(c.selector)))
  BY HookParts
<1>1. PICK written, rules :
        /\ DOMAIN written = DOMAIN w.rules /\ \A i \in DOMAIN w.rules : written[i] \in MarshalRule(OneOperation(w.rules[i]))
        /\ DOMAIN rules = DOMAIN w.rules /\ \A i \in DOMAIN w.rules : rules[i] \in UnmarshalRule(written[i])
        /\ b = KubeWebhook(w.name, Renamed(Renamed(w.f, Webhook), AntiFunction(Webhook)), revertService(service),
                           [i \in DOMAIN w.rules |-> revertRule(rules[i])], revertWebhookSelector(WrittenRSSelector(c.selector)))
  BY <1>0
<1> DEFINE sel == revertWebhookSelector(WrittenRSSelector(c.selector))
           back == [i \in DOMAIN w.rules |-> revertRule(rules[i])]
           Meant(r) == [r EXCEPT !.operations = OperationsOf(r)]
<1>2. Renamed(Renamed(w.f, Webhook), AntiFunction(Webhook)) = w.f
  BY WebhookNames, RenamedBack DEF HookGood
<1>3. revertService(service) = w.service
  BY ServiceBack DEF HookGood
<1>4. HookSelector(sel) /\ SelectedBy(sel) = SelectedBy(w.selector)
  BY HookSelectorBack DEF HookGood
<1> HIDE DEF sel
<1>5. b = KubeWebhook(w.name, w.f, w.service, back, sel)
  BY <1>1, <1>2, <1>3, Zenon DEF sel
<1>6. ASSUME NEW i \in DOMAIN w.rules
      PROVE  IsWebhookRule(revertRule(rules[i])) /\ RuleFits(revertRule(rules[i])) /\ Meant(revertRule(rules[i])) = Meant(w.rules[i])
  <2>1. IsWebhookRule(w.rules[i]) /\ RuleFits(w.rules[i])
    BY DEF HookGood
  <2>2. written[i] \in MarshalRule(OneOperation(w.rules[i])) /\ rules[i] \in UnmarshalRule(written[i])
    BY <1>1
  <2> QED
    BY <2>1, <2>2, RuleBack
<1>7. DOMAIN back = DOMAIN w.rules /\ \A i \in DOMAIN w.rules : back[i] = revertRule(rules[i])
  OBVIOUS
<1>8. IsSequence(back)
  <2>1. Len(w.rules) \in Nat /\ DOMAIN w.rules = 1..Len(w.rules)
    BY DEF HookGood, IsSequence
  <2>2. Len(back) = Len(w.rules) /\ back = [i \in 1..Len(back) |-> back[i]]
    BY <2>1
  <2> QED
    BY <2>1, <2>2 DEF IsSequence
<1> HIDE DEF back, Meant
<1>9. b.name = w.name /\ b.f = w.f /\ b.service = w.service /\ b.rules = back /\ b.selector = sel
  BY <1>5 DEF KubeWebhook
<1>10. HookGood(b)
  <2>1. b = KubeWebhook(b.name, b.f, b.service, b.rules, b.selector)
    BY <1>5, <1>9
  <2>2. \A i \in DOMAIN b.rules : IsWebhookRule(b.rules[i]) /\ RuleFits(b.rules[i])
    BY <1>6, <1>7, <1>9
  <2>3. IsObject(w.f, DOMAIN Webhook) /\ (w.service # Nil => IsService(w.service)) /\ ServiceFits(w.service)
    BY DEF HookGood
  <2> QED
    BY <1>4, <1>8, <1>9, <2>1, <2>2, <2>3, Zenon DEF HookGood
<1>11. [i \in DOMAIN b.rules |-> Meant(b.rules[i])] = [i \in DOMAIN w.rules |-> Meant(w.rules[i])]
  <2>1. \A i \in DOMAIN w.rules : Meant(b.rules[i]) = Meant(w.rules[i])
    BY <1>6, <1>7, <1>9, Zenon
  <2>2. DOMAIN b.rules = DOMAIN w.rules
    BY <1>7, <1>9
  <2> QED
    BY <2>1, <2>2, Zenon
<1>12. \A v : WebhookOf(v) = [f |-> v.f, service |-> v.service, selected |-> SelectedBy(v.selector), rules |-> [i \in DOMAIN v.rules |-> Meant(v.rules[i])]]
  BY Zenon DEF WebhookOf, Meant
<1>13. WebhookOf(b) = WebhookOf(w)
  BY <1>4, <1>9, <1>11, <1>12, Zenon
<1> QED
  BY <1>10, <1>13
-----------------------------------------------------------------------------
(***************************************************************************)
(* Lists of webhooks, and maps of them                                     *)
(***************************************************************************)
\* Of some of the first n numbers one is the last.
LEMMA LastNumber ==
  ASSUME NEW n \in Nat, NEW A \in SUBSET (1..n), A # {}
  PROVE  \E i \in A : \A j \in A : j <= i
<1> DEFINE S == {m \in Nat : \A B \in SUBSET (1..m) : B # {} => \E i \in B : \A j \in B : j <= i}
<1>1. 0 \in S
  <2>1. 1..0 = {}
    OBVIOUS
  <2> QED
    BY <2>1
<1>2. ASSUME NEW m \in Nat, m \in S
      PROVE  m + 1 \in S
  <2> SUFFICES ASSUME NEW B \in SUBSET (1..m + 1), B # {}
               PROVE  \E i \in B : \A j \in B : j <= i
    OBVIOUS
  <2>1. CASE m + 1 \in B
    BY <2>1
  <2>2. CASE m + 1 \notin B
    <3>1. B \in SUBSET (1..m)
      BY <2>2
    <3> QED
      BY <1>2, <3>1
  <2> QED
    BY <2>1, <2>2
<1>3. Nat \subseteq S
  <2> HIDE DEF S
  <2> QED
    BY <1>1, <1>2, InductionOnSet
<1>4. n \in S
  BY <1>3
<1> QED
  BY <1>4

\* i is where the last entry of a name is.
IsLast(list, name, i) == i \in DOMAIN list /\ list[i].name = name /\ \A j \in DOMAIN list : list[j].name = name => j <= i

\* What a map has under a name is the last entry of it in the list.
LEMMA LastOfEntry ==
  ASSUME NEW list, NEW n \in Nat, DOMAIN list = 1..n
  PROVE  /\ DOMAIN LastOf(list) = {list[i].name : i \in DOMAIN list}
         /\ \A name \in DOMAIN LastOf(list) : \E i \in DOMAIN list : IsLast(list, name, i)
         /\ \A name \in DOMAIN LastOf(list) : \A i : IsLast(list, name, i) => LastOf(list)[name] = list[i]
<1> DEFINE N == {list[i].name : i \in DOMAIN list}
           last(name) == CHOOSE i \in DOMAIN list : list[i].name = name /\ \A j \in DOMAIN list : list[j].name = name => j <= i
<1>1. LastOf(list) = [name \in N |-> list[last(name)]]
  BY DEF LastOf
<1> HIDE DEF last
<1>2. DOMAIN LastOf(list) = N /\ \A name \in N : LastOf(list)[name] = list[last(name)]
  BY <1>1
<1>3. ASSUME NEW name \in N
      PROVE  /\ \E i \in DOMAIN list : IsLast(list, name, i)
             /\ \A i : IsLast(list, name, i) => LastOf(list)[name] = list[i]
  <2> DEFINE A == {i \in 1..n : list[i].name = name}
  <2>1. A \in SUBSET (1..n) /\ A # {}
    OBVIOUS
  <2> HIDE DEF A
  <2>2. PICK i \in A : \A j \in A : j <= i
    BY <2>1, LastNumber
  <2>3. IsLast(list, name, i)
    BY <2>2 DEF IsLast, A
  <2>4. IsLast(list, name, last(name))
    BY <2>3, Zenon DEF last, IsLast
  <2>5. ASSUME NEW k, IsLast(list, name, k)
        PROVE  k = last(name)
    <3>1. k \in 1..n /\ last(name) \in 1..n /\ k <= last(name) /\ last(name) <= k
      BY <2>4, <2>5 DEF IsLast
    <3> HIDE DEF last
    <3> QED
      BY <3>1
  <2>6. i \in DOMAIN list
    BY <2>3 DEF IsLast
  <2> QED
    BY <1>2, <2>3, <2>5, <2>6
<1> QED
  BY <1>2, <1>3

\* The same for one name.
LEMMA LastEntry ==
  ASSUME NEW list, NEW n \in Nat, DOMAIN list = 1..n, NEW name \in DOMAIN LastOf(list)
  PROVE  \E i \in DOMAIN list : IsLast(list, name, i) /\ LastOf(list)[name] = list[i]
<1>1. /\ \E i \in DOMAIN list : IsLast(list, name, i)
      /\ \A i : IsLast(list, name, i) => LastOf(list)[name] = list[i]
  BY LastOfEntry
<1> QED
  BY <1>1, Zenon

\* A webhook keeps its name.
LEMMA NameStays ==
  ASSUME NEW w, NEW k \in convertWebhook(w)
  PROVE  k.name = w.name
<1> DEFINE ones == [i \in DOMAIN w.rules |-> [w.rules[i] EXCEPT !.operations = <<convertOperations(@)>>]]
<1>1. convertWebhook(w) =
        {[name |-> w.name, f |-> Renamed(w.f, Webhook), service |-> service, selector |-> WrittenRSSelector(c.selector), rules |-> ones] :
           service \in convertService(w.service), c \in convertRSLabelSelector(w.selector, Nil)}
  BY DEF convertWebhook
<1> HIDE DEF ones
<1> QED
  BY <1>1

\* The map that a list is converted to.
LEMMA MapThere ==
  ASSUME NEW list, NEW n \in Nat, DOMAIN list = 1..n, NEW K \in ConvertWebhooks(list)
  PROVE  /\ DOMAIN K = DOMAIN LastOf(list) /\ IsFiniteSet(DOMAIN K)
         /\ \A name \in DOMAIN K : \E k \in convertWebhook(LastOf(list)[name]) : K[name] \in MarshalHook(k)
<1>1. PICK hooks \in Results(convertWebhook, list) : K \in Results(MarshalHook, LastOf(hooks))
  BY Zenon DEF ConvertWebhooks, MarshalHook
<1>2. DOMAIN hooks = 1..n /\ \A i \in 1..n : hooks[i] \in convertWebhook(list[i])
  BY <1>1, Zenon DEF Results
<1>3. \A i \in 1..n : hooks[i].name = list[i].name
  <2> TAKE i \in 1..n
  <2> QED
    BY <1>2, NameStays
<1>4. \A name, i : IsLast(hooks, name, i) <=> IsLast(list, name, i)
  BY <1>2, <1>3 DEF IsLast
<1>5. DOMAIN LastOf(hooks) = DOMAIN LastOf(list)
  <2>1. {hooks[i].name : i \in 1..n} = {list[i].name : i \in 1..n}
    BY <1>3
  <2> QED
    BY <1>2, <2>1, LastOfEntry
<1>6. DOMAIN K = DOMAIN LastOf(hooks) /\ \A name \in DOMAIN LastOf(hooks) : K[name] \in MarshalHook(LastOf(hooks)[name])
  BY <1>1, Zenon DEF Results
<1>7. ASSUME NEW name \in DOMAIN K
      PROVE  LastOf(hooks)[name] \in convertWebhook(LastOf(list)[name])
  <2>1. PICK i \in DOMAIN list : IsLast(list, name, i)
    BY <1>5, <1>6, LastOfEntry
  <2>2. LastOf(list)[name] = list[i]
    BY <1>5, <1>6, <2>1, LastOfEntry
  <2>3. LastOf(hooks)[name] = hooks[i]
    BY <1>2, <1>4, <1>6, <2>1, LastOfEntry
  <2> QED
    BY <1>2, <2>2, <2>3
<1>8. IsFiniteSet(DOMAIN K)
  <2> DEFINE names == {list[i].name : i \in 1..n}
             f == [i \in 1..n |-> list[i].name]
  <2>1. IsFiniteSet(1..n)
    BY FS_Interval
  <2>2. f \in Surjection(1..n, names)
    BY DEF Surjection
  <2>3. IsFiniteSet(names)
    <3> HIDE DEF f, names
    <3> QED
      BY <2>1, <2>2, FS_Surjection DEF ExistsSurjection
  <2>4. DOMAIN K = names
    BY <1>5, <1>6, LastOfEntry
  <2> QED
    BY <2>3, <2>4
<1> QED
  BY <1>5, <1>6, <1>7, <1>8

\* The lists that a map is converted to: each webhook once, in any order.
LEMMA MapBack ==
  ASSUME NEW K, IsFiniteSet(DOMAIN K), \A name \in DOMAIN K : \A b \in revertMWC(K[name]) : b.name = name,
         NEW L \in RevertWebhooks(K)
  PROVE  /\ IsSequence(L) /\ DOMAIN LastOf(L) = DOMAIN K
         /\ \A name \in DOMAIN K : LastOf(L)[name] \in revertMWC(K[name])
<1>1. PICK keys \in SetToSeqs(DOMAIN K), list \in Results(revertMWC, K) : L = [i \in DOMAIN keys |-> list[keys[i]]]
  <2> DEFINE Q == SetToSeqs(DOMAIN K)
             R == Results(revertMWC, K)
  <2>1. RevertWebhooks(K) = {[i \in DOMAIN keys |-> list[keys[i]]] : keys \in Q, list \in R}
    BY DEF RevertWebhooks
  <2> HIDE DEF Q, R
  <2>2. \E keys \in Q, list \in R : L = [i \in DOMAIN keys |-> list[keys[i]]]
    BY <2>1
  <2> QED
    BY <2>2, Zenon DEF Q, R
<1>2. \A name \in DOMAIN K : list[name] \in revertMWC(K[name])
  BY <1>1, Zenon DEF Results
<1>3. W!IsFiniteSet(DOMAIN K) /\ keys \in W!SetToSeqs(DOMAIN K)
  <2>1. \A S : W!SetToSeqs(S) = SetToSeqs(S)
    BY Zenon DEF W!SetToSeqs, SetToSeqs, W!Cardinality, Cardinality
  <2>2. W!IsFiniteSet(DOMAIN K)
    BY DEF W!IsFiniteSet, IsFiniteSet
  <2> QED
    BY <2>1, <2>2
<1>4. /\ keys \in Seq(DOMAIN K) /\ DOMAIN keys = 1..Len(keys)
      /\ \A i, j \in DOMAIN keys : keys[i] = keys[j] => i = j
      /\ \A x \in DOMAIN K : \E i \in DOMAIN keys : keys[i] = x
  BY <1>3, SameAssumptions, W!Orderings
<1> DEFINE n == Len(keys)
<1>5. n \in Nat /\ DOMAIN keys = 1..n /\ \A i \in 1..n : keys[i] \in DOMAIN K
  BY <1>4
<1> HIDE DEF n
<1>6. DOMAIN L = 1..n /\ L = [i \in 1..n |-> L[i]] /\ \A i \in 1..n : L[i] = list[keys[i]]
  BY <1>1, <1>5
<1>7. Len(L) = n /\ IsSequence(L)
  <2>1. Len(L) = n
    BY <1>5, <1>6
  <2> QED
    BY <1>5, <1>6, <2>1 DEF IsSequence
<1>8. \A i \in 1..n : L[i].name = keys[i]
  BY <1>2, <1>5, <1>6
<1>9. DOMAIN LastOf(L) = DOMAIN K
  <2>1. {L[i].name : i \in 1..n} \subseteq DOMAIN K
    BY <1>5, <1>8
  <2>2. ASSUME NEW x \in DOMAIN K
        PROVE  x \in {L[i].name : i \in 1..n}
    <3>1. PICK i \in 1..n : keys[i] = x
      BY <1>4, <1>5
    <3>2. L[i].name = x
      BY <1>8, <3>1
    <3> QED
      BY <3>2
  <2>3. {L[i].name : i \in 1..n} = DOMAIN K
    BY <2>1, <2>2
  <2> QED
    BY <1>5, <1>6, <2>3, LastOfEntry
<1>10. ASSUME NEW name \in DOMAIN K
       PROVE  LastOf(L)[name] \in revertMWC(K[name])
  <2>0. name \in DOMAIN LastOf(L) /\ DOMAIN L = 1..n /\ n \in Nat
    BY <1>5, <1>6, <1>9
  <2>1. PICK i \in 1..n : IsLast(L, name, i) /\ LastOf(L)[name] = L[i]
    BY <2>0, LastEntry
  <2>2. LastOf(L)[name] = L[i]
    BY <2>1
  <2>3. keys[i] = name
    BY <1>8, <2>1 DEF IsLast
  <2> QED
    BY <1>2, <1>6, <2>2, <2>3
<1> QED
  BY <1>7, <1>9, <1>10

\* A webhook that may stand for another: it is called for the same requests.
StandsFor(c, w) == WebhookFits(w) /\ SelectedBy(w.selector) # {} => HookGood(c) /\ WebhookOf(c) = WebhookOf(w)

HooksBack(b, a) ==
  /\ IsSequence(b) /\ DOMAIN LastOf(b) = DOMAIN LastOf(a)
  /\ \A name \in DOMAIN LastOf(a) : StandsFor(LastOf(b)[name], LastOf(a)[name])

\* What webhooks mean is part of what is compared.
LEMMA MeaningSelects ==
  ASSUME NEW c, NEW w, WebhookOf(c) = WebhookOf(w)
  PROVE  SelectedBy(c.selector) = SelectedBy(w.selector)
<1>1. WebhookOf(c).selected = SelectedBy(c.selector) /\ WebhookOf(w).selected = SelectedBy(w.selector)
  <2> DEFINE r(v) == [i \in DOMAIN v.rules |-> [v.rules[i] EXCEPT !.operations = OperationsOf(v.rules[i])]]
  <2>1. \A v : WebhookOf(v) = [f |-> v.f, service |-> v.service, selected |-> SelectedBy(v.selector), rules |-> r(v)]
    BY DEF WebhookOf
  <2> HIDE DEF r
  <2> QED
    BY <2>1
<1> QED
  BY <1>1

\* Webhooks stand for themselves.
LEMMA HooksStay ==
  ASSUME NEW a, IsSequence(a), \A i \in DOMAIN a : IsWebhook(a[i])
  PROVE  HooksBack(a, a)
<1>1. ASSUME NEW w, IsWebhook(w), WebhookFits(w)
      PROVE  HookGood(w)
  <2>1. /\ w = KubeWebhook(w.name, w.f, w.service, w.rules, w.selector) /\ IsObject(w.f, DOMAIN Webhook)
        /\ (w.service # Nil => IsService(w.service)) /\ IsSequence(w.rules)
        /\ w.selector \in AnySelector \cup {Nil} /\ (w.selector # Nil => KeysJoin(w.selector))
        /\ \A i \in DOMAIN w.rules : IsWebhookRule(w.rules[i])
    BY <1>1, Zenon DEF IsWebhook
  <2>2. ServiceFits(w.service) /\ SelectorFits(w.selector) /\ \A i \in DOMAIN w.rules : RuleFits(w.rules[i])
    BY <1>1, Zenon DEF WebhookFits
  <2>3. ASSUME w.selector # Nil
        PROVE  W!Joins(w.selector) /\ W!ValidSelector(w.selector)
    BY <2>1, <2>2, <2>3, SelectorIsValid
  <2>4. HookSelector(w.selector)
    BY <2>1, <2>3 DEF HookSelector
  <2> QED
    BY <2>1, <2>2, <2>4, Zenon DEF HookGood
<1>2. Len(a) \in Nat /\ DOMAIN a = 1..Len(a)
  BY DEF IsSequence
<1>3. ASSUME NEW name \in DOMAIN LastOf(a)
      PROVE  StandsFor(LastOf(a)[name], LastOf(a)[name])
  <2>1. PICK i \in DOMAIN a : LastOf(a)[name] = a[i]
    BY <1>2, LastEntry
  <2> QED
    BY <1>1, <2>1 DEF StandsFor
<1> QED
  BY <1>3 DEF HooksBack

\* Webhooks that stand for others are read back as webhooks that do.
LEMMA HooksComeBack ==
  ASSUME NEW a, NEW b, HooksBack(b, a), NEW K \in ConvertWebhooks(b), NEW d \in RevertWebhooks(K)
  PROVE  HooksBack(d, a)
<1>1. Len(b) \in Nat /\ DOMAIN b = 1..Len(b)
  BY DEF HooksBack, IsSequence
<1>2. /\ DOMAIN K = DOMAIN LastOf(b) /\ IsFiniteSet(DOMAIN K)
      /\ \A name \in DOMAIN K : \E k \in convertWebhook(LastOf(b)[name]) : K[name] \in MarshalHook(k)
  BY <1>1, MapThere
<1>3. \A name \in DOMAIN K : LastOf(b)[name].name = name
  <2> TAKE name \in DOMAIN K
  <2>1. PICK i \in DOMAIN b : IsLast(b, name, i) /\ LastOf(b)[name] = b[i]
    BY <1>1, <1>2, LastEntry
  <2> QED
    BY <2>1 DEF IsLast
<1>4. \A name \in DOMAIN K : \A c \in revertMWC(K[name]) : c.name = name
  BY <1>2, <1>3, HookParts
<1>5. /\ IsSequence(d) /\ DOMAIN LastOf(d) = DOMAIN K
      /\ \A name \in DOMAIN K : LastOf(d)[name] \in revertMWC(K[name])
  BY <1>2, <1>4, MapBack
<1>6. DOMAIN LastOf(d) = DOMAIN LastOf(a) /\ DOMAIN K = DOMAIN LastOf(a)
  BY <1>2, <1>5 DEF HooksBack
<1>7. ASSUME NEW name \in DOMAIN LastOf(a)
      PROVE  StandsFor(LastOf(d)[name], LastOf(a)[name])
  <2> DEFINE w == LastOf(a)[name]
             c == LastOf(b)[name]
             e == LastOf(d)[name]
  <2> SUFFICES ASSUME WebhookFits(w), SelectedBy(w.selector) # {}
               PROVE  HookGood(e) /\ WebhookOf(e) = WebhookOf(w)
    BY DEF StandsFor
  <2>1. HookGood(c) /\ WebhookOf(c) = WebhookOf(w)
    BY DEF HooksBack, StandsFor
  <2>2. PICK k \in convertWebhook(c) : K[name] \in MarshalHook(k)
    BY <1>2, <1>6
  <2>3. e \in revertMWC(K[name])
    BY <1>5, <1>6
  <2> HIDE DEF w, c, e
  <2>4. SelectedBy(c.selector) # {}
    BY <2>1, MeaningSelects
  <2>5. HookGood(e) /\ WebhookOf(e) = WebhookOf(c)
    BY <2>1, <2>2, <2>3, <2>4, HookBack
  <2> QED
    BY <2>1, <2>5
<1> QED
  BY <1>5, <1>6, <1>7 DEF HooksBack

-----------------------------------------------------------------------------
(***************************************************************************)
(* The runs                                                                *)
(***************************************************************************)
AccessKinds == {"binding", "hpa", "cluster_role", "pod_security_policy", "webhooks"}

\* The converters of these kinds.
LEMMA AccessConverters ==
  ASSUME NEW body
  PROVE  /\ Converted("binding", body) = ConvertBinding(body) /\ Reverted("binding", body) = RevertBinding(body)
         /\ Converted("hpa", body) = ConvertHPA(body) /\ Reverted("hpa", body) = RevertHPA(body)
         /\ Converted("cluster_role", body) = ConvertClusterRole(body) /\ Reverted("cluster_role", body) = RevertClusterRole(body)
         /\ Converted("pod_security_policy", body) = ConvertPodSecurityPolicy(body)
         /\ Reverted("pod_security_policy", body) = RevertPodSecurityPolicy(body)
         /\ Converted("webhooks", body) = ConvertWebhooks(body) /\ Reverted("webhooks", body) = RevertWebhooks(body)
<1>1. AccessKinds \cap (ControllerKinds \cup ResourceKinds) = {}
  BY DEF AccessKinds, ControllerKinds, Specs, ResourceKinds, Tags
<1>2. \A kind \in AccessKinds : kind \notin ControllerKinds /\ kind \notin ResourceKinds
  BY <1>1
<1>3. /\ "binding" \in AccessKinds /\ "hpa" \in AccessKinds /\ "cluster_role" \in AccessKinds /\ "pod_security_policy" \in AccessKinds
      /\ "webhooks" \in AccessKinds
  BY DEF AccessKinds
<1>4. Converted("binding", body) = ConvertBinding(body) /\ Reverted("binding", body) = RevertBinding(body)
  BY <1>2, <1>3, Zenon DEF Converted, Reverted
<1>5. Converted("hpa", body) = ConvertHPA(body) /\ Reverted("hpa", body) = RevertHPA(body)
  BY <1>2, <1>3, Zenon DEF Converted, Reverted
<1>6. Converted("cluster_role", body) = ConvertClusterRole(body) /\ Reverted("cluster_role", body) = RevertClusterRole(body)
  BY <1>2, <1>3, Zenon DEF Converted, Reverted
<1>7. /\ Converted("pod_security_policy", body) = ConvertPodSecurityPolicy(body)
      /\ Reverted("pod_security_policy", body) = RevertPodSecurityPolicy(body)
  BY <1>2, <1>3, Zenon DEF Converted, Reverted
<1>8. Converted("webhooks", body) = ConvertWebhooks(body) /\ Reverted("webhooks", body) = RevertWebhooks(body)
  BY <1>2, <1>3, Zenon DEF Converted, Reverted
<1> QED
  BY <1>4, <1>5, <1>6, <1>7, <1>8

\* A body that may stand for what the first run was given.
AccessBack(kind, b, a) ==
  /\ kind \in {"binding", "hpa"} => b = a
  /\ kind = "cluster_role" => RoleBack(b, a)
  /\ kind = "pod_security_policy" /\ SELinuxFits(a.f) => IsPolicy(b) /\ SELinuxFits(b.f) /\ PolicyOf(b) = PolicyOf(a)
  /\ kind = "webhooks" => HooksBack(b, a)

\* The body of a manifest of one of the kinds, as the API server accepts it.
IsAccess(kind, a) ==
  /\ kind = "binding" => IsBinding(a)
  /\ kind = "hpa" => IsAutoscaler(a)
  /\ kind = "cluster_role" => IsRole(a)
  /\ kind = "pod_security_policy" => IsPolicy(a)
  /\ kind = "webhooks" => IsSequence(a) /\ \A i \in DOMAIN a : IsWebhook(a[i])

\* What is accepted stands for itself.
LEMMA AccessStays ==
  ASSUME NEW kind \in AccessKinds, NEW a, IsAccess(kind, a)
  PROVE  AccessBack(kind, a, a)
BY RoleStays, HooksStay DEF AccessBack, IsAccess

\* It stands for it after a run to Short and one back, too.
LEMMA AccessComesBack ==
  ASSUME NEW kind \in AccessKinds, NEW a, IsAccess(kind, a), NEW b, AccessBack(kind, b, a),
         NEW k \in Converted(kind, b), NEW c \in Reverted(kind, k)
  PROVE  AccessBack(kind, c, a)
<1>1. CASE kind = "binding"
  <2>1. b = a /\ IsBinding(a)
    BY <1>1 DEF AccessBack, IsAccess
  <2>2. k \in ConvertBinding(b) /\ c \in RevertBinding(k)
    BY <1>1, AccessConverters, Zenon
  <2>3. c = a
    BY <2>1, <2>2, BindingBack
  <2> QED
    BY <1>1, <2>3 DEF AccessBack
<1>2. CASE kind = "hpa"
  <2>1. b = a /\ IsAutoscaler(a)
    BY <1>2 DEF AccessBack, IsAccess
  <2>2. k \in ConvertHPA(b) /\ c \in RevertHPA(k)
    BY <1>2, AccessConverters, Zenon
  <2>3. c = a
    BY <2>1, <2>2, AutoscalerBack
  <2> QED
    BY <1>2, <2>3 DEF AccessBack
<1>3. CASE kind = "cluster_role"
  <2>1. RoleBack(b, a) /\ IsRole(a)
    BY <1>3 DEF AccessBack, IsAccess
  <2>2. k \in ConvertClusterRole(b) /\ c \in RevertClusterRole(k)
    BY <1>3, AccessConverters, Zenon
  <2>3. RoleBack(c, a)
    BY <2>1, <2>2, RoleComesBack
  <2> QED
    BY <1>3, <2>3 DEF AccessBack
<1>4. CASE kind = "pod_security_policy"
  <2>1. k \in ConvertPodSecurityPolicy(b) /\ c \in RevertPodSecurityPolicy(k)
    BY <1>4, AccessConverters, Zenon
  <2>2. ASSUME SELinuxFits(a.f)
        PROVE  IsPolicy(c) /\ SELinuxFits(c.f) /\ PolicyOf(c) = PolicyOf(a)
    <3>1. IsPolicy(b) /\ SELinuxFits(b.f) /\ PolicyOf(b) = PolicyOf(a)
      BY <1>4, <2>2 DEF AccessBack
    <3>2. IsPolicy(c) /\ SELinuxFits(c.f) /\ PolicyOf(c) = PolicyOf(b)
      BY <2>1, <3>1, PolicyBack
    <3> QED
      BY <3>1, <3>2
  <2> QED
    BY <1>4, <2>2 DEF AccessBack
<1>5. CASE kind = "webhooks"
  <2>1. HooksBack(b, a)
    BY <1>5 DEF AccessBack
  <2>2. k \in ConvertWebhooks(b) /\ c \in RevertWebhooks(k)
    BY <1>5, AccessConverters, Zenon
  <2>3. HooksBack(c, a)
    BY <2>1, <2>2, HooksComeBack
  <2> QED
    BY <1>5, <2>3 DEF AccessBack
<1> QED
  BY <1>1, <1>2, <1>3, <1>4, <1>5 DEF AccessKinds

\* The inductive invariant.  A document in Short syntax is what the latest
\* one in Kubernetes syntax was converted to, and that one stands for the
\* first.
AccessInv ==
  /\ first \in FirstDocs
  /\ doc.kind = first.kind
  /\ first.syntax = "kube" /\ first.kind \in AccessKinds =>
       \/ doc.syntax = "kube" /\ AccessBack(first.kind, doc.body, first.body)
       \/ /\ doc.syntax = "koki" /\ AccessBack(first.kind, kube.body, first.body)
          /\ doc.body \in Converted(first.kind, kube.body)

\* The first document is one that the API server accepts.
LEMMA FirstIsAccess ==
  ASSUME NEW d \in FirstDocs, d.syntax = "kube"
  PROVE  IsAccess(d.kind, d.body)
BY AccessAssumption DEF IsAccess

\* The first document stands for itself.
LEMMA AccessInit == Init => AccessInv
<1> SUFFICES ASSUME Init PROVE AccessInv
  OBVIOUS
<1>1. first \in FirstDocs /\ doc = first
  BY DEF Init
<1>2. ASSUME first.syntax = "kube", first.kind \in AccessKinds
      PROVE  AccessBack(first.kind, first.body, first.body)
  BY <1>1, <1>2, FirstIsAccess, AccessStays
<1> QED
  BY <1>1, <1>2 DEF AccessInv

\* A run keeps the kind of a manifest, and converts its body if it is one of
\* these.
LEMMA ToKokiResult ==
  ASSUME ToKoki
  PROVE  /\ doc.syntax = "kube" /\ kube' = doc /\ first' = first
         /\ \/ doc' = doc
            \/ doc'.kind = doc.kind /\ (doc.kind \in AccessKinds => doc'.syntax = "koki" /\ doc'.body \in Converted(doc.kind, doc.body))
<1> DEFINE results == IF doc.kind = "pod" THEN ConvertPod(doc) ELSE {Manifest("koki", doc.kind, k) : k \in Converted(doc.kind, doc.body)}
<1>1. doc.syntax = "kube" /\ kube' = doc /\ first' = first /\ (doc' = doc \/ doc' \in results)
  BY DEF ToKoki, Becomes
<1>2. CASE doc' \in results /\ doc.kind = "pod"
  <2>1. doc' \in ConvertPod(doc)
    BY <1>2
  <2>2. doc'.kind = "pod"
    BY <2>1 DEF ConvertPod, KokiPod
  <2>3. "pod" \notin AccessKinds
    BY DEF AccessKinds
  <2> QED
    BY <1>1, <1>2, <2>2, <2>3
<1>3. CASE doc' \in results /\ doc.kind # "pod"
  <2>1. PICK k \in Converted(doc.kind, doc.body) : doc' = [syntax |-> "koki", kind |-> doc.kind, body |-> k]
    BY <1>3 DEF Manifest
  <2>2. doc'.syntax = "koki" /\ doc'.kind = doc.kind /\ doc'.body = k
    BY <2>1
  <2> QED
    BY <1>1, <2>1, <2>2
<1> QED
  BY <1>1, <1>2, <1>3

\* The same of a run to Kubernetes syntax.
LEMMA ToKubeResult ==
  ASSUME ToKube
  PROVE  /\ doc.syntax = "koki" /\ kube' = kube /\ first' = first
         /\ \/ doc' = doc
            \/ doc'.kind = doc.kind /\ (doc.kind \in AccessKinds => doc'.syntax = "kube" /\ doc'.body \in Reverted(doc.kind, doc.body))
<1> DEFINE results == IF doc.kind = "pod" THEN RevertPod(doc) ELSE {Manifest("kube", doc.kind, k) : k \in Reverted(doc.kind, doc.body)}
<1>1. doc.syntax = "koki" /\ kube' = kube /\ first' = first /\ (doc' = doc \/ doc' \in results)
  BY DEF ToKube, Becomes
<1>2. CASE doc' \in results /\ doc.kind = "pod"
  <2>1. doc' \in RevertPod(doc)
    BY <1>2
  <2>2. doc'.kind = "pod"
    BY <2>1 DEF RevertPod, KubePod
  <2>3. "pod" \notin AccessKinds
    BY DEF AccessKinds
  <2> QED
    BY <1>1, <1>2, <2>2, <2>3
<1>3. CASE doc' \in results /\ doc.kind # "pod"
  <2>1. PICK k \in Reverted(doc.kind, doc.body) : doc' = [syntax |-> "kube", kind |-> doc.kind, body |-> k]
    BY <1>3 DEF Manifest
  <2>2. doc'.syntax = "kube" /\ doc'.kind = doc.kind /\ doc'.body = k
    BY <2>1
  <2> QED
    BY <1>1, <2>1, <2>2
<1> QED
  BY <1>1, <1>2, <1>3

\* A run keeps the invariant.
LEMMA AccessNext == AccessInv /\ [Next]_vars => AccessInv'
<1> SUFFICES ASSUME AccessInv, [Next]_vars PROVE AccessInv'
  OBVIOUS
<1> DEFINE kind == first.kind
           body == first.body
<1>0. /\ first \in FirstDocs /\ doc.kind = kind
      /\ first.syntax = "kube" /\ kind \in AccessKinds =>
           \/ doc.syntax = "kube" /\ AccessBack(kind, doc.body, body)
           \/ doc.syntax = "koki" /\ AccessBack(kind, kube.body, body) /\ doc.body \in Converted(kind, kube.body)
  BY DEF AccessInv
<1>1. first.syntax = "kube" => IsAccess(kind, body)
  BY <1>0, FirstIsAccess
<1>2. CASE ToKoki
  <2>1. /\ doc.syntax = "kube" /\ kube' = doc /\ first' = first
        /\ \/ doc' = doc
           \/ doc'.kind = doc.kind /\ (doc.kind \in AccessKinds => doc'.syntax = "koki" /\ doc'.body \in Converted(doc.kind, doc.body))
    BY <1>2, ToKokiResult
  <2>2. doc.syntax # "koki"
    BY <2>1
  <2>3. doc'.kind = kind
    BY <1>0, <2>1
  <2>4. ASSUME first.syntax = "kube", kind \in AccessKinds
        PROVE  \/ doc'.syntax = "kube" /\ AccessBack(kind, doc'.body, body)
               \/ doc'.syntax = "koki" /\ AccessBack(kind, doc.body, body) /\ doc'.body \in Converted(kind, doc.body)
    <3>1. AccessBack(kind, doc.body, body)
      BY <1>0, <2>2, <2>4
    <3> QED
      BY <1>0, <2>1, <2>4, <3>1, Zenon
  <2> QED
    BY <1>0, <2>1, <2>3, <2>4, Zenon DEF AccessInv
<1>3. CASE ToKube
  <2>1. /\ doc.syntax = "koki" /\ kube' = kube /\ first' = first
        /\ \/ doc' = doc
           \/ doc'.kind = doc.kind /\ (doc.kind \in AccessKinds => doc'.syntax = "kube" /\ doc'.body \in Reverted(doc.kind, doc.body))
    BY <1>3, ToKubeResult
  <2>2. doc.syntax # "kube"
    BY <2>1
  <2>3. doc'.kind = kind
    BY <1>0, <2>1
  <2>4. ASSUME first.syntax = "kube", kind \in AccessKinds
        PROVE  \/ doc'.syntax = "kube" /\ AccessBack(kind, doc'.body, body)
               \/ doc'.syntax = "koki" /\ AccessBack(kind, kube.body, body) /\ doc'.body \in Converted(kind, kube.body)
    <3>1. AccessBack(kind, kube.body, body) /\ doc.body \in Converted(kind, kube.body) /\ IsAccess(kind, body)
      BY <1>0, <1>1, <2>2, <2>4
    <3>2. ASSUME doc'.syntax = "kube", doc'.body \in Reverted(kind, doc.body)
          PROVE  AccessBack(kind, doc'.body, body)
      BY <2>4, <3>1, <3>2, AccessComesBack
    <3> QED
      BY <1>0, <2>1, <2>4, <3>1, <3>2, Zenon
  <2> QED
    BY <1>0, <2>1, <2>3, <2>4, Zenon DEF AccessInv
<1>4. CASE UNCHANGED vars
  <2>1. first' = first /\ doc' = doc /\ kube' = kube
    BY <1>4 DEF vars
  <2> QED
    BY <1>0, <2>1, Zenon DEF AccessInv
<1> QED
  BY <1>2, <1>3, <1>4 DEF Next

\* What stands for the first document grants and limits what it did.
LEMMA AccessInvImplies == AccessInv => AccessKept
<1> SUFFICES ASSUME AccessInv PROVE AccessKept
  OBVIOUS
<1>1. ASSUME NEW kind \in AccessKinds, IsBack(kind)
      PROVE  AccessBack(kind, doc.body, first.body) /\ IsAccess(kind, first.body)
  <2>1. first \in FirstDocs /\ first.syntax = "kube" /\ doc.syntax = "kube" /\ first.kind = kind
    BY <1>1 DEF AccessInv, IsBack
  <2>2. doc.syntax # "koki"
    BY <2>1
  <2>3. AccessBack(first.kind, doc.body, first.body)
    BY <2>1, <2>2 DEF AccessInv
  <2> QED
    BY <2>1, <2>3, FirstIsAccess
<1>2. "binding" \in AccessKinds /\ "hpa" \in AccessKinds /\ "cluster_role" \in AccessKinds /\ "pod_security_policy" \in AccessKinds
  BY DEF AccessKinds
<1>3. IsBack("pod_security_policy") /\ SELinuxFits(first.body.f) => PolicyOf(doc.body) = PolicyOf(first.body)
  BY <1>1, <1>2 DEF AccessBack
<1>4. IsBack("binding") => doc.body = first.body
  BY <1>1, <1>2 DEF AccessBack
<1>5. IsBack("hpa") => doc.body = first.body
  BY <1>1, <1>2 DEF AccessBack
<1>6. ASSUME IsBack("cluster_role")
      PROVE  /\ doc.body.rules = first.body.rules
             /\ first.body.aggregation \notin {Nil, <<>>} =>
                  \A i \in DOMAIN first.body.aggregation :
                    SelectorFits(first.body.aggregation[i]) /\ SelectedBy(first.body.aggregation[i]) # {} =>
                      SelectedBy(doc.body.aggregation[i]) = SelectedBy(first.body.aggregation[i])
  <2> DEFINE b == doc.body
             r == first.body
  <2>1. RoleBack(b, r) /\ IsRole(r)
    BY <1>1, <1>2, <1>6 DEF AccessBack, IsAccess
  <2> HIDE DEF b, r
  <2>2. ASSUME r.aggregation \notin {Nil, <<>>}, NEW i \in DOMAIN r.aggregation
        PROVE  SelectorBack(b.aggregation[i], r.aggregation[i])
    <3>1. r.aggregation \in Seq(AnySelector)
      BY <2>1, <2>2 DEF IsRole
    <3>2. i \in 1..Len(r.aggregation)
      BY <3>1
    <3> QED
      BY <2>1, <2>2, <3>2 DEF RoleBack
  <2>3. b.rules = r.rules
    BY <2>1 DEF RoleBack
  <2> QED
    BY <2>2, <2>3 DEF SelectorBack, b, r
<1> QED
  BY <1>3, <1>4, <1>5, <1>6 DEF AccessKept

\* Roles, bindings, autoscalers and PodSecurityPolicies grant and limit what
\* they did, however often they are converted to Short syntax and back, for
\* any number of rules, subjects, selectors and plugins, any names, and any
\* keys and values of labels.
THEOREM AccessIsKept == Spec => []AccessKept
<1>1. Init => AccessInv
  BY AccessInit
<1>2. AccessInv /\ [Next]_vars => AccessInv'
  BY AccessNext
<1>3. AccessInv => AccessKept
  BY AccessInvImplies
<1> QED
  BY <1>1, <1>2, <1>3, PTL DEF Spec

\* The invariant says of webhooks that each name has what it had.
LEMMA HooksInvImplies == AccessInv => WebhooksKept
<1> SUFFICES ASSUME AccessInv, IsBack("webhooks")
             PROVE  /\ DOMAIN LastOf(doc.body) = DOMAIN LastOf(first.body)
                    /\ \A name \in DOMAIN LastOf(first.body) :
                         WebhookFits(LastOf(first.body)[name]) /\ SelectedBy(LastOf(first.body)[name].selector) # {} =>
                           WebhookOf(LastOf(doc.body)[name]) = WebhookOf(LastOf(first.body)[name])
  BY Zenon DEF WebhooksKept
<1>1. first.syntax = "kube" /\ doc.syntax = "kube" /\ doc.kind = "webhooks" /\ first.kind = "webhooks"
  BY DEF IsBack, AccessInv
<1>2. first.kind \in AccessKinds /\ "kube" # "koki"
  BY <1>1 DEF AccessKinds
<1>3. AccessBack(first.kind, doc.body, first.body)
  BY <1>1, <1>2 DEF AccessInv
<1>4. HooksBack(doc.body, first.body)
  BY <1>1, <1>3 DEF AccessBack
<1> QED
  BY <1>4, Zenon DEF HooksBack, StandsFor

\* A webhook is called for the requests it was called for, at the same
\* service, however often a list of webhooks is converted to a map in Short
\* and back, for any number of webhooks, rules, operations and labels, any
\* names and texts, and any order in which Go visits the map.
THEOREM WebhooksAreKept == Spec => []WebhooksKept
<1>1. Init => AccessInv
  BY AccessInit
<1>2. AccessInv /\ [Next]_vars => AccessInv'
  BY AccessNext
<1>3. AccessInv => WebhooksKept
  BY HooksInvImplies
<1> QED
  BY <1>1, <1>2, <1>3, PTL DEF Spec

-----------------------------------------------------------------------------
(***************************************************************************)
(* The texts of a pod's fields                                             *)
(***************************************************************************)
\* A text is split in two at its first separator.
LEMMA SplitInTwoBack ==
  ASSUME NEW a, NEW b, NEW sep, IsSequence(a), IsSequence(b), sep \notin Range(a)
  PROVE  SplitInTwo((a \o <<sep>>) \o b, sep) = <<a, b>>
<1> DEFINE T == (Range(a) \cup {sep}) \cup Range(b)
           s == (a \o <<sep>>) \o b
           n == Len(a) + 1
<1>0. a \in Seq(T) /\ b \in Seq(T) /\ sep \in T
  BY TextType
<1> HIDE DEF T
<1>1. /\ s \in Seq(T) /\ Len(s) = Len(a) + 1 + Len(b) /\ Len(a) \in Nat /\ Len(b) \in Nat /\ DOMAIN s = 1..Len(a) + 1 + Len(b)
      /\ s[n] = sep
      /\ \A i \in 1..Len(a) : s[i] = a[i]
      /\ \A i \in Len(a) + 2..Len(a) + 1 + Len(b) : s[i] = b[i - (Len(a) + 1)] /\ i - (Len(a) + 1) \in 1..Len(b)
  BY <1>0, RangeOfThree
<1> HIDE DEF s
<1>2. \A i \in 1..Len(a) : s[i] # sep
  BY <1>0, <1>1 DEF Range
<1>3. ASSUME NEW i \in DOMAIN s, s[i] = sep, \A j \in 1..i - 1 : s[j] # sep
      PROVE  i = n
  <2>1. i > Len(a)
    BY <1>1, <1>2, <1>3
  <2>2. ~(i > n)
    <3> SUFFICES ASSUME i > n
                 PROVE  FALSE
      OBVIOUS
    <3>1. n \in 1..i - 1
      BY <1>1
    <3> QED
      BY <1>1, <1>3, <3>1
  <2> QED
    BY <1>1, <2>1, <2>2
<1>4. n \in DOMAIN s /\ s[n] = sep /\ \A j \in 1..n - 1 : s[j] # sep
  BY <1>1, <1>2
<1> DEFINE i == CHOOSE i \in DOMAIN s : s[i] = sep /\ \A j \in 1..i - 1 : s[j] # sep
<1>5. i \in DOMAIN s /\ s[i] = sep /\ \A j \in 1..i - 1 : s[j] # sep
  BY <1>4, Zenon
<1>7. sep \in Range(s)
  BY <1>1 DEF Range
<1>8. SplitInTwo(s, sep) = <<SubSeq(s, 1, i - 1), SubSeq(s, i + 1, Len(s))>>
  BY <1>7, Zenon DEF SplitInTwo
<1> HIDE DEF i
<1>6. i = n
  BY <1>3, <1>5
<1>9. SubSeq(s, 1, i - 1) = a
  <2>1. SubSeq(s, 0 + 1, 0 + Len(a)) = a
    BY <1>0, <1>1, PieceOf
  <2> QED
    BY <2>1, <1>6, <1>1
<1>10. SubSeq(s, i + 1, Len(s)) = b
  <2>0. n \in Nat /\ n + Len(b) <= Len(s)
    BY <1>1
  <2>1. \A j \in 1..Len(b) : s[n + j] = b[j]
    BY <1>1
  <2> HIDE DEF n
  <2>2. SubSeq(s, n + 1, n + Len(b)) = b
    BY <1>0, <1>1, <2>0, <2>1, PieceOf
  <2> QED
    BY <2>2, <1>6, <1>1 DEF n
<1> QED
  BY <1>8, <1>9, <1>10 DEF s

\* What Put returns.
IsPut(p, s, name, value) ==
  /\ value = Empty => p = [n \in DOMAIN s \ {name} |-> s[n]]
  /\ value # Empty => p = [n \in DOMAIN s \cup {name} |-> IF n = name THEN value ELSE s[n]]

\* A field that is set is put there, or taken away if it is empty.
LEMMA PutExact ==
  ASSUME NEW s, NEW name, NEW value
  PROVE  IsPut(Put(s, name, value), s, name, value)
BY Zenon DEF IsPut, Put, Without, Restrict

\* It has its value then, and the others have theirs.
LEMMA PutValue ==
  ASSUME NEW s, NEW name, NEW value
  PROVE  /\ Get(Put(s, name, value), name) = value
         /\ \A n : n # name => /\ n \in DOMAIN Put(s, name, value) <=> n \in DOMAIN s
                               /\ n \in DOMAIN s => Put(s, name, value)[n] = s[n]
                               /\ Get(Put(s, name, value), n) = Get(s, n)
<1> DEFINE p == Put(s, name, value)
<1>1. IsPut(p, s, name, value)
  BY PutExact
<1> HIDE DEF p
<1>3. CASE value = Empty
  <2>1. p = [n \in DOMAIN s \ {name} |-> s[n]]
    BY <1>1, <1>3 DEF IsPut
  <2>2. Get(p, name) = value
    BY <2>1, <1>3 DEF Get
  <2>3. \A n : n # name => (n \in DOMAIN p <=> n \in DOMAIN s) /\ (n \in DOMAIN s => p[n] = s[n])
    BY <2>1
  <2>4. \A n : n # name => Get(p, n) = Get(s, n)
    BY <2>3 DEF Get
  <2> QED
    BY <2>2, <2>3, <2>4 DEF p
<1>4. CASE value # Empty
  <2>1. p = [n \in DOMAIN s \cup {name} |-> IF n = name THEN value ELSE s[n]]
    BY <1>1, <1>4 DEF IsPut
  <2>2. Get(p, name) = value
    BY <2>1 DEF Get
  <2>3. \A n : n # name => (n \in DOMAIN p <=> n \in DOMAIN s) /\ (n \in DOMAIN s => p[n] = s[n])
    BY <2>1
  <2>4. \A n : n # name => Get(p, n) = Get(s, n)
    BY <2>3 DEF Get
  <2> QED
    BY <2>2, <2>3, <2>4 DEF p
<1> QED
  BY <1>3, <1>4

\* The fields of f with these names that are not empty.
IsPartOf(p, f, names) == p = [n \in {m \in DOMAIN f \cap names : f[m] # Empty} |-> f[n]]

\* An object of two fields, empty ones left out.
LEMMA TwoFields ==
  ASSUME NEW a, NEW b, a # b, NEW f
  PROVE  IsPartOf(Put(Put(<<>>, a, Get(f, a)), b, Get(f, b)), f, {a, b})
<1> DEFINE none == <<>>
           p == Put(none, a, Get(f, a))
           q == Put(p, b, Get(f, b))
           r == [n \in {m \in DOMAIN f \cap {a, b} : f[m] # Empty} |-> f[n]]
<1>0. DOMAIN none = {}
  OBVIOUS
<1> HIDE DEF none
<1>1. IsPut(p, none, a, Get(f, a))
  BY PutExact
<1>2. IsPut(q, p, b, Get(f, b))
  BY PutExact
<1> HIDE DEF p, q
<1>3. \A n : Get(f, n) # Empty <=> (n \in DOMAIN f /\ f[n] # Empty)
  BY DEF Get
<1>4. \A n \in DOMAIN f : Get(f, n) = f[n]
  BY DEF Get
<1>5. /\ DOMAIN p = {n \in {a} : Get(f, n) # Empty}
      /\ \A n \in DOMAIN p : p[n] = Get(f, n)
  BY <1>0, <1>1 DEF IsPut
<1>6. /\ DOMAIN q = {n \in {a, b} : Get(f, n) # Empty}
      /\ \A n \in DOMAIN q : q[n] = Get(f, n)
      /\ q = [n \in DOMAIN q |-> q[n]]
  <2>1. CASE Get(f, b) = Empty
    BY <1>2, <1>5, <2>1 DEF IsPut
  <2>2. CASE Get(f, b) # Empty
    BY <1>2, <1>5, <2>2 DEF IsPut
  <2> QED
    BY <2>1, <2>2
<1>7. DOMAIN q = {m \in DOMAIN f \cap {a, b} : f[m] # Empty}
  BY <1>3, <1>6
<1>8. \A n \in DOMAIN q : q[n] = f[n]
  BY <1>4, <1>6, <1>7
<1> QED
  BY <1>6, <1>7, <1>8 DEF q, p, none, IsPartOf

\* An object of one field, left out if it is empty.
LEMMA OneField ==
  ASSUME NEW a, NEW f
  PROVE  IsPartOf(Put(<<>>, a, Get(f, a)), f, {a})
<1> DEFINE none == <<>>
           p == Put(none, a, Get(f, a))
<1>0. DOMAIN none = {}
  OBVIOUS
<1> HIDE DEF none
<1>1. IsPut(p, none, a, Get(f, a))
  BY PutExact
<1> HIDE DEF p
<1>3. \A n : Get(f, n) # Empty <=> (n \in DOMAIN f /\ f[n] # Empty)
  BY DEF Get
<1>4. \A n \in DOMAIN f : Get(f, n) = f[n]
  BY DEF Get
<1>5. DOMAIN p = {m \in DOMAIN f \cap {a} : f[m] # Empty} /\ p = [n \in DOMAIN p |-> p[n]]
  BY <1>0, <1>1, <1>3 DEF IsPut
<1>6. \A n \in DOMAIN p : p[n] = f[n]
  BY <1>0, <1>1, <1>4, <1>5 DEF IsPut
<1> QED
  BY <1>5, <1>6 DEF p, none, IsPartOf

\* A host name and a subdomain are read back.
LEMMA HostnameBack ==
  ASSUME NEW f, \A n \in DOMAIN f \cap {"Hostname", "Subdomain"} : IsSequence(f[n]) /\ f[n] # Empty,
         "." \notin Range(Get(f, "Subdomain")), "." \in Range(Get(f, "Hostname")) => "Subdomain" \in DOMAIN f
  PROVE  revertHostname(convertHostname(f)) = [n \in DOMAIN f \cap {"Hostname", "Subdomain"} |-> f[n]]
<1> DEFINE host == Get(f, "Hostname")
           sub == Get(f, "Subdomain")
           text == convertHostname(f)
           both == {m \in DOMAIN f \cap {"Hostname", "Subdomain"} : f[m] # Empty}
           one == {m \in DOMAIN f \cap {"Hostname"} : f[m] # Empty}
<1>0. IsSequence(Empty)
  BY DEF Empty, IsSequence
<1>1. IsSequence(host) /\ IsSequence(sub)
  BY <1>0 DEF Get
<1>2. CASE "Subdomain" \in DOMAIN f
  <2>1. text = (sub \o <<".">>) \o host
    BY <1>2, Zenon DEF convertHostname, Get
  <2> HIDE DEF text, sub, host
  <2>2. SplitInTwo(text, ".") = <<sub, host>>
    BY <1>1, <2>1, SplitInTwoBack DEF sub
  <2> DEFINE fields == <<sub, host>>
  <2>3. Len(fields) # 1 /\ fields[1] = sub /\ fields[2] = host
    OBVIOUS
  <2>4. revertHostname(text) = IF Len(fields) = 1 THEN Put(<<>>, "Hostname", text) ELSE Put(Put(<<>>, "Hostname", fields[2]), "Subdomain", fields[1])
    BY <2>2, Zenon DEF revertHostname
  <2> HIDE DEF fields
  <2>5. revertHostname(text) = Put(Put(<<>>, "Hostname", host), "Subdomain", sub)
    BY <2>3, <2>4, Zenon
  <2>6. IsPartOf(revertHostname(text), f, {"Hostname", "Subdomain"})
    BY <2>5, TwoFields DEF host, sub
  <2>7. both = DOMAIN f \cap {"Hostname", "Subdomain"}
    OBVIOUS
  <2> QED
    BY <2>6, <2>7, Zenon DEF text, IsPartOf
<1>3. CASE "Subdomain" \notin DOMAIN f
  <2>1. text = Empty \o host
    BY <1>3, Zenon DEF convertHostname
  <2>a. host \in Seq(Range(host))
    BY <1>1, TextType
  <2>2. text = host
    <3> HIDE DEF host, text
    <3> QED BY <2>1, <2>a DEF Empty
  <2>3. "." \notin Range(host)
    BY <1>3
  <2> HIDE DEF text, host
  <2>4. SplitInTwo(host, ".") = <<host>>
    BY <2>3, Zenon DEF SplitInTwo
  <2> DEFINE fields == <<host>>
  <2>5. Len(fields) = 1
    OBVIOUS
  <2>6. revertHostname(host) = IF Len(fields) = 1 THEN Put(<<>>, "Hostname", host) ELSE Put(Put(<<>>, "Hostname", fields[2]), "Subdomain", fields[1])
    BY <2>4, Zenon DEF revertHostname
  <2> HIDE DEF fields
  <2>7. revertHostname(host) = Put(<<>>, "Hostname", host)
    BY <2>5, <2>6, Zenon
  <2>8. IsPartOf(revertHostname(host), f, {"Hostname"})
    BY <2>7, OneField DEF host
  <2>9. one = DOMAIN f \cap {"Hostname", "Subdomain"}
    BY <1>3
  <2> QED
    BY <2>2, <2>8, <2>9, Zenon DEF text, IsPartOf
<1> QED
  BY <1>2, <1>3

\* An account is read back, with the flag if it is set.
LEMMA AccountBack ==
  ASSUME NEW f, "ServiceAccountName" \in DOMAIN f => IsSequence(f["ServiceAccountName"]) /\ f["ServiceAccountName"] # Empty,
         "AutomountServiceAccountToken" \in DOMAIN f => f["AutomountServiceAccountToken"] = True,
         Plain(Get(f, "ServiceAccountName"))
  PROVE  revertServiceAccount(convertServiceAccount(f)) = {[n \in DOMAIN f \cap {"ServiceAccountName", "AutomountServiceAccountToken"} |-> f[n]]}
<1> DEFINE name == Get(f, "ServiceAccountName")
           flag == Get(f, "AutomountServiceAccountToken")
           text == convertServiceAccount(f)
           one == {m \in DOMAIN f \cap {"ServiceAccountName"} : f[m] # Empty}
           own == DOMAIN f \cap {"ServiceAccountName", "AutomountServiceAccountToken"}
<1>0. IsSequence(Empty) /\ True # Empty
  BY DEF Empty, IsSequence, True
<1>1. IsSequence(name) /\ ":" \notin Range(name)
  BY <1>0 DEF Get, Plain
<1>a. name \in Seq(Range(name))
  BY <1>1, TextType
<1>2. CASE "AutomountServiceAccountToken" \in DOMAIN f
  <2>1. text = name \o <<":", "auto">>
    BY <1>2, Zenon DEF convertServiceAccount, Get
  <2> DEFINE auto == <<"auto">>
  <2>2. IsSequence(auto) /\ ":" \notin Range(auto)
    BY DEF IsSequence, Range
  <2> HIDE DEF name
  <2>3. text = (name \o <<":">>) \o auto
    <3> DEFINE T == Range(name) \cup {":", "auto"}
    <3>1. name \in Seq(T)
      BY <1>1, TextType
    <3> HIDE DEF T
    <3>2. Len(name) \in Nat /\ Len(name \o <<":", "auto">>) = Len(name) + 2 /\ Len((name \o <<":">>) \o auto) = Len(name) + 2
      BY <3>1
    <3>3. name \o <<":", "auto">> = (name \o <<":">>) \o auto
      BY <3>1
    <3> QED BY <2>1, <3>3
  <2> HIDE DEF text, auto
  <2>4. Split(text, ":") = <<name, auto>>
    BY <1>1, <2>2, <2>3, TwoBack
  <2> DEFINE fields == <<name, auto>>
  <2>5. Len(fields) = 2 /\ fields[1] = name /\ fields[2] = auto /\ Len(fields) # 1
    OBVIOUS
  <2> DEFINE set == [AutomountServiceAccountToken |-> True]
  <2>6. revertServiceAccount(text) = CASE Len(fields) = 1 -> {Put(<<>>, "ServiceAccountName", text)}
        [] Len(fields) = 2 /\ fields[2] = <<"auto">> -> {Put(set, "ServiceAccountName", fields[1])}
        [] OTHER -> {}
    BY <2>4, Zenon DEF revertServiceAccount
  <2>s. DOMAIN set = {"AutomountServiceAccountToken"} /\ set["AutomountServiceAccountToken"] = True
    OBVIOUS
  <2> HIDE DEF fields, set
  <2>7. revertServiceAccount(text) = {Put(set, "ServiceAccountName", name)}
    BY <2>5, <2>6 DEF auto
  <2> DEFINE p == Put(set, "ServiceAccountName", name)
  <2>8. IsPut(p, set, "ServiceAccountName", name)
    BY PutExact
  <2> HIDE DEF p
  <2>9. name # Empty <=> "ServiceAccountName" \in DOMAIN f
    BY DEF name, Get
  <2>10. "ServiceAccountName" \in DOMAIN f => name = f["ServiceAccountName"]
    BY DEF name, Get
  <2>11. p = [n \in own |-> f[n]]
    <3>1. CASE name = Empty
      <4>1. own = DOMAIN set \ {"ServiceAccountName"}
        BY <1>2, <2>9, <2>s, <3>1
      <4> QED BY <4>1, <2>8, <2>s, <3>1 DEF IsPut
    <3>2. CASE name # Empty
      <4>1. own = DOMAIN set \cup {"ServiceAccountName"}
        BY <1>2, <2>9, <2>s, <3>2
      <4>2. \A n \in own : (IF n = "ServiceAccountName" THEN name ELSE set[n]) = f[n]
        BY <4>1, <2>9, <2>10, <2>s, <3>2, <1>2
      <4> QED BY <4>1, <4>2, <2>8, <3>2 DEF IsPut
    <3> QED BY <3>1, <3>2
  <2> QED
    BY <2>7, <2>11 DEF text, p
<1>3. CASE "AutomountServiceAccountToken" \notin DOMAIN f
  <2>1. text = name \o Empty
    BY <1>0, <1>3, Zenon DEF convertServiceAccount, Get
  <2> HIDE DEF name
  <2>2. text = name
    <3> HIDE DEF text
    <3> QED BY <2>1, <1>a DEF Empty
  <2> HIDE DEF text
  <2>3. Split(name, ":") = <<name>>
    BY <1>1, SplitNone
  <2> DEFINE fields == <<name>>
  <2>4. Len(fields) = 1
    OBVIOUS
  <2>5. revertServiceAccount(name) = CASE Len(fields) = 1 -> {Put(<<>>, "ServiceAccountName", name)}
        [] Len(fields) = 2 /\ fields[2] = <<"auto">> -> {Put([AutomountServiceAccountToken |-> True], "ServiceAccountName", fields[1])}
        [] OTHER -> {}
    BY <2>3, Zenon DEF revertServiceAccount
  <2> HIDE DEF fields
  <2>6. revertServiceAccount(name) = {Put(<<>>, "ServiceAccountName", name)}
    BY <2>4, <2>5
  <2>7. IsPartOf(Put(<<>>, "ServiceAccountName", name), f, {"ServiceAccountName"})
    BY OneField DEF name
  <2>8. one = own
    BY <1>3
  <2> QED
    BY <2>2, <2>6, <2>7, <2>8, Zenon DEF text, IsPartOf
<1> QED
  BY <1>2, <1>3

-----------------------------------------------------------------------------
(***************************************************************************)
(* The fields of a pod                                                     *)
(***************************************************************************)
\* The switches of a pod in both directions.
ConvertPolicies == [DNSPolicy |-> convertDNSPolicy, RestartPolicy |-> convertRestartPolicy, Phase |-> convertPhase,
                             QOSClass |-> convertPodQOSClass]
RevertPolicies == [dns_policy |-> revertDNSPolicy, restart_policy |-> revertRestartPolicy, phase |-> revertPodPhase,
                             qos |-> revertQOSClass]

\* No name is used twice.
LEMMA PodNamesDiffer == OneToOne(PodTags)
BY DEF OneToOne, PodTags, PodTemplateMeta, PodTemplate, PodStatus, Over

\* The other fields have names of their own in both syntaxes.
LEMMA PodOtherNames ==
  /\ "hostname" \notin Range(PodTags) /\ "account" \notin Range(PodTags)
  /\ {"Hostname", "Subdomain", "ServiceAccountName", "AutomountServiceAccountToken"} \cap DOMAIN PodTags = {}
  /\ DOMAIN HostModes \cap DOMAIN PodTags = {} /\ SecurityFields \cap DOMAIN PodTags = {}
  /\ "APIVersion" \in DOMAIN PodTags
BY DEF PodTags, PodTemplateMeta, PodTemplate, PodStatus, Over, Range, HostModes, SecurityFields

\* The same fields are switched there and back.
LEMMA PodSwitchedFields ==
  \A n \in DOMAIN PodTags : PodTags[n] \in DOMAIN RevertPolicies <=> n \in DOMAIN ConvertPolicies
BY DEF PodTags, PodTemplateMeta, PodTemplate, PodStatus, Over, RevertPolicies, ConvertPolicies

\* Their names in Short.
LEMMA PodSwitchedNames ==
  PodTags["DNSPolicy"] = "dns_policy" /\ PodTags["RestartPolicy"] = "restart_policy" /\ PodTags["Phase"] = "phase" /\ PodTags["QOSClass"] = "qos"
BY DEF PodTags, PodTemplateMeta, PodTemplate, PodStatus, Over

\* Each value of a switch is read as it was written, if it can be read.
LEMMA DNSBack ==
  \A v \in DOMAIN convertDNSPolicy : convertDNSPolicy[v] \in DOMAIN revertDNSPolicy => revertDNSPolicy[convertDNSPolicy[v]] = v
BY DEF convertDNSPolicy, revertDNSPolicy

\* The same of the restart policies.
LEMMA RestartBack ==
  \A v \in DOMAIN convertRestartPolicy : convertRestartPolicy[v] \in DOMAIN revertRestartPolicy => revertRestartPolicy[convertRestartPolicy[v]] = v
BY DEF convertRestartPolicy, revertRestartPolicy

\* The same of the phases.
LEMMA PhaseBack ==
  \A v \in DOMAIN convertPhase : convertPhase[v] \in DOMAIN revertPodPhase => revertPodPhase[convertPhase[v]] = v
BY DEF convertPhase, revertPodPhase

\* The same of the classes.
LEMMA QOSBack ==
  \A v \in DOMAIN convertPodQOSClass : convertPodQOSClass[v] \in DOMAIN revertQOSClass => revertQOSClass[convertPodQOSClass[v]] = v
BY DEF convertPodQOSClass, revertQOSClass

\* The tables of a pod are gone there and back.
LEMMA PodTablesAgree == TablesAgree(PodTags, ConvertPolicies, RevertPolicies)
<1>1. ASSUME NEW n \in DOMAIN ConvertPolicies
      PROVE  \A v \in DOMAIN ConvertPolicies[n] : ConvertPolicies[n][v] \in DOMAIN RevertPolicies[PodTags[n]]
                 => RevertPolicies[PodTags[n]][ConvertPolicies[n][v]] = v
  <2>0. /\ ConvertPolicies["DNSPolicy"] = convertDNSPolicy /\ ConvertPolicies["RestartPolicy"] = convertRestartPolicy
        /\ ConvertPolicies["Phase"] = convertPhase /\ ConvertPolicies["QOSClass"] = convertPodQOSClass
        /\ RevertPolicies["dns_policy"] = revertDNSPolicy /\ RevertPolicies["restart_policy"] = revertRestartPolicy
        /\ RevertPolicies["phase"] = revertPodPhase /\ RevertPolicies["qos"] = revertQOSClass
    BY DEF ConvertPolicies, RevertPolicies
  <2>1. n \in {"DNSPolicy", "RestartPolicy", "Phase", "QOSClass"}
    BY DEF ConvertPolicies
  <2>2. CASE n = "DNSPolicy"
    BY <2>0, <2>2, PodSwitchedNames, DNSBack, Zenon
  <2>3. CASE n = "RestartPolicy"
    BY <2>0, <2>3, PodSwitchedNames, RestartBack, Zenon
  <2>4. CASE n = "Phase"
    BY <2>0, <2>4, PodSwitchedNames, PhaseBack, Zenon
  <2>5. CASE n = "QOSClass"
    BY <2>0, <2>5, PodSwitchedNames, QOSBack, Zenon
  <2> QED
    BY <2>1, <2>2, <2>3, <2>4, <2>5
<1> QED
  BY <1>1, PodNamesDiffer, PodSwitchedFields DEF TablesAgree

\* What Short has a text for.
FieldsFit(f) ==
  /\ "." \notin Range(Get(f, "Subdomain")) /\ ("." \in Range(Get(f, "Hostname")) => "Subdomain" \in DOMAIN f)
  /\ Plain(Get(f, "ServiceAccountName"))
  /\ Get(f, "AutomountServiceAccountToken") # False

\* What comes back of the fields of a pod.
WithVersion(f) == Over(Without(f, SecurityFields), [APIVersion |-> <<"v1">>])

\* The fields come back from their parts: those that are renamed, the host
\* name and the account from a text each, the flags from a list.
LEMMA PodFieldsBack ==
  ASSUME NEW f, IsPodFields(f), FieldsFit(f), NEW t \in TranslatedAll(f, ConvertPolicies),
         NEW k, Agree(k, Renamed(t, PodTags), Range(PodTags)),
         Get(k, "hostname") = convertHostname(f), Get(k, "account") = convertServiceAccount(f),
         NEW b \in revertPodFields(k, convertHostMode(f))
  PROVE  b = WithVersion(f)
<1> DEFINE hosts == {"Hostname", "Subdomain"}
           accounts == {"ServiceAccountName", "AutomountServiceAccountToken"}
           tags == DOMAIN PodTags
           flags == DOMAIN HostModes
           host == revertHostname(Get(k, "hostname"))
           v1 == [APIVersion |-> <<"v1">>]
<1>0. revertPodFields(k, convertHostMode(f)) =
        {Over(Renamed(u, AntiFunction(PodTags)), Over(host, Over(account, Over(mode, v1)))) :
           u \in TranslatedAll(k, RevertPolicies), account \in revertServiceAccount(Get(k, "account")),
           mode \in revertHostModes(convertHostMode(f))}
  BY DEF revertPodFields, RevertPolicies
<1>1. PICK u \in TranslatedAll(k, RevertPolicies), account \in revertServiceAccount(Get(k, "account")), mode \in revertHostModes(convertHostMode(f)) :
        b = Over(Renamed(u, AntiFunction(PodTags)), Over(host, Over(account, Over(mode, v1))))
  <2> HIDE DEF host, v1
  <2> QED BY <1>0
<1> DEFINE own == Renamed(u, AntiFunction(PodTags))
<1>2. IsCopyOf(own, f, tags)
  BY PodTablesAgree, FieldsBack
<1>3. host = [n \in DOMAIN f \cap hosts |-> f[n]]
  <2>1. \A n \in DOMAIN f \cap hosts : IsSequence(f[n]) /\ f[n] # Empty
    BY DEF IsPodFields
  <2> QED
    BY <2>1, HostnameBack DEF FieldsFit
<1>4. account = [n \in DOMAIN f \cap accounts |-> f[n]]
  <2>1. "ServiceAccountName" \in DOMAIN f => IsSequence(f["ServiceAccountName"]) /\ f["ServiceAccountName"] # Empty
    BY DEF IsPodFields
  <2>2. "AutomountServiceAccountToken" \in DOMAIN f => f["AutomountServiceAccountToken"] = True
    BY DEF IsPodFields, FieldsFit, Get
  <2>3. Plain(Get(f, "ServiceAccountName"))
    BY DEF FieldsFit
  <2>4. revertServiceAccount(convertServiceAccount(f)) = {[n \in DOMAIN f \cap accounts |-> f[n]]}
    BY <2>1, <2>2, <2>3, AccountBack
  <2> QED
    BY <2>4
<1>5. mode = [n \in DOMAIN f \cap flags |-> True]
  BY HostModesBack
<1>6. DOMAIN f \subseteq tags \cup flags \cup SecurityFields \cup hosts \cup accounts
  BY DEF IsPodFields, IsObject
<1>7. \A n \in DOMAIN f \cap flags : f[n] = True
  BY DEF IsPodFields
<1>8. /\ tags \cap (hosts \cup accounts) = {} /\ flags \cap tags = {} /\ SecurityFields \cap tags = {}
      /\ flags \cap (hosts \cup accounts) = {} /\ SecurityFields \cap (hosts \cup accounts) = {} /\ flags \cap SecurityFields = {}
  <2>1. flags \cap (hosts \cup accounts) = {} /\ SecurityFields \cap (hosts \cup accounts) = {} /\ flags \cap SecurityFields = {}
    BY DEF HostModes, SecurityFields
  <2> QED
    BY <2>1, PodOtherNames
<1>9. DOMAIN v1 = {"APIVersion"} /\ "APIVersion" \in tags
  BY PodOtherNames
<1>o. own = [n \in DOMAIN f \cap tags |-> f[n]]
  BY <1>2 DEF IsCopyOf
<1> HIDE DEF own, host, v1, tags, flags
<1>10. Over(mode, v1) = [n \in (DOMAIN f \cap flags) \cup {"APIVersion"} |-> IF n \in flags THEN f[n] ELSE v1[n]]
  <2>1. "APIVersion" \notin flags
    BY <1>8, <1>9
  <2> QED
    BY <1>5, <1>7, <1>9, <2>1 DEF Over
<1> DEFINE m1 == Over(mode, v1)
           m2 == Over(account, m1)
           m3 == Over(host, m2)
<1>m. DOMAIN m1 = (DOMAIN f \cap flags) \cup {"APIVersion"} /\ (\A n \in DOMAIN f \cap flags : m1[n] = f[n]) /\ m1["APIVersion"] = v1["APIVersion"]
  <2>1. "APIVersion" \notin flags
    BY <1>8, <1>9
  <2> QED
    BY <1>10, <2>1
<1> HIDE DEF m1
<1>11. /\ DOMAIN m2 = (DOMAIN f \cap (accounts \cup flags)) \cup {"APIVersion"}
       /\ \A n \in DOMAIN f \cap (accounts \cup flags) : m2[n] = f[n]
       /\ m2["APIVersion"] = v1["APIVersion"]
  <2>1. "APIVersion" \notin accounts
    OBVIOUS
  <2> QED
    BY <1>m, <1>4, <2>1 DEF Over
<1> HIDE DEF m2
<1>12. /\ DOMAIN m3 = (DOMAIN f \cap (hosts \cup accounts \cup flags)) \cup {"APIVersion"}
       /\ \A n \in DOMAIN f \cap (hosts \cup accounts \cup flags) : m3[n] = f[n]
       /\ m3["APIVersion"] = v1["APIVersion"]
  <2>1. "APIVersion" \notin hosts
    OBVIOUS
  <2> QED
    BY <1>11, <1>3, <2>1 DEF Over
<1> HIDE DEF m3
<1>13. b = Over(own, m3)
  BY <1>1 DEF own, m1, m2, m3
<1> DEFINE w == Without(f, SecurityFields)
<1>14. w = [n \in DOMAIN f \ SecurityFields |-> f[n]]
  BY Zenon DEF Without, Restrict
<1> HIDE DEF w
<1>15. DOMAIN f \ SecurityFields = DOMAIN f \cap (tags \cup hosts \cup accounts \cup flags)
  BY <1>6, <1>8
<1>16. Over(own, m3) = Over(w, v1)
  <2>1. DOMAIN own \cup DOMAIN m3 = DOMAIN w \cup DOMAIN v1
    BY <1>o, <1>12, <1>14, <1>15, <1>9
  <2>2. ASSUME NEW n \in DOMAIN own \cup DOMAIN m3
        PROVE  (IF n \in DOMAIN own THEN own[n] ELSE m3[n]) = (IF n \in DOMAIN w THEN w[n] ELSE v1[n])
    <3>1. CASE n \in DOMAIN own
      BY <3>1, <1>o, <1>14, <1>15
    <3>2. CASE n \notin DOMAIN own /\ n \in DOMAIN f \cap (hosts \cup accounts \cup flags)
      BY <3>2, <1>12, <1>14, <1>15
    <3>3. CASE n \notin DOMAIN own /\ n = "APIVersion"
      <4>1. n \notin DOMAIN w
        BY <3>3, <1>o, <1>9, <1>14
      <4> QED BY <3>3, <4>1, <1>12
    <3> QED
      BY <3>1, <3>2, <3>3, <1>12
  <2> QED
    BY <2>1, <2>2, Zenon DEF Over
<1> QED
  BY <1>13, <1>16 DEF w, v1, WithVersion

\* The fields of a pod come back, but for those of its security context.
LEMMA FieldsComeBack ==
  ASSUME NEW f, IsPodFields(f), FieldsFit(f), NEW k \in convertPodFields(f), NEW b \in revertPodFields(k, convertHostMode(f))
  PROVE  b = WithVersion(f)
<1> DEFINE host == convertHostname(f)
           account == convertServiceAccount(f)
<1>1. PICK t \in TranslatedAll(f, ConvertPolicies) : k = Put(Put(Renamed(t, PodTags), "hostname", host), "account", account)
  <2>1. convertPodFields(f) = {Put(Put(Renamed(t, PodTags), "hostname", host), "account", account) : t \in TranslatedAll(f, ConvertPolicies)}
    BY DEF convertPodFields, ConvertPolicies
  <2> HIDE DEF host, account
  <2> QED BY <2>1
<1> DEFINE r == Renamed(t, PodTags)
           p == Put(r, "hostname", host)
<1>2. k = Put(p, "account", account)
  BY <1>1
<1> HIDE DEF r, host, account
<1>3. "hostname" # "account" /\ \A n \in Range(PodTags) : n # "hostname" /\ n # "account"
  BY PodOtherNames
<1>4. /\ Get(p, "hostname") = host
      /\ \A n : n # "hostname" => (n \in DOMAIN p <=> n \in DOMAIN r) /\ (n \in DOMAIN r => p[n] = r[n])
  BY PutValue
<1> HIDE DEF p
<1>5. /\ Get(k, "account") = account
      /\ \A n : n # "account" => (n \in DOMAIN k <=> n \in DOMAIN p) /\ (n \in DOMAIN p => k[n] = p[n]) /\ Get(k, n) = Get(p, n)
  BY <1>2, PutValue
<1>6. Agree(k, r, Range(PodTags))
  BY <1>3, <1>4, <1>5 DEF Agree
<1>7. Get(k, "hostname") = host
  BY <1>3, <1>4, <1>5
<1> QED
  BY <1>5, <1>6, <1>7, PodFieldsBack DEF r, host, account

-----------------------------------------------------------------------------
(***************************************************************************)
(* The conditions and the host aliases of a pod                            *)
(***************************************************************************)
\* The switches of a condition in both directions.
ConvertConditions == [Type |-> convertPodConditionType, Status |-> convertConditionStatus]
RevertConditions == [Type |-> revertPodConditionType, Status |-> revertConditionStatus]

\* No name is used twice.
LEMMA ConditionNames == OneToOne(PodCondition)
BY DEF OneToOne, PodCondition

\* Each value is read as it was written, if it can be read.
LEMMA ConditionsAgree ==
  /\ DOMAIN ConvertConditions = DOMAIN RevertConditions
  /\ \A n \in DOMAIN ConvertConditions : \A v \in DOMAIN ConvertConditions[n] : 
       ConvertConditions[n][v] \in DOMAIN RevertConditions[n] => RevertConditions[n][ConvertConditions[n][v]] = v
BY DEF ConvertConditions, RevertConditions, convertPodConditionType, convertConditionStatus, revertPodConditionType, revertConditionStatus

\* A condition comes back.
LEMMA ConditionBack ==
  ASSUME NEW c, IsObject(c, DOMAIN PodCondition), NEW t \in TranslatedAll(c, ConvertConditions),
         NEW u \in TranslatedAll(Renamed(Renamed(t, PodCondition), AntiFunction(PodCondition)), RevertConditions)
  PROVE  u = c
<1>1. /\ t = [n \in DOMAIN c |-> t[n]] /\ DOMAIN t = DOMAIN c
      /\ \A n \in DOMAIN c : n \notin DOMAIN ConvertConditions => t[n] = c[n]
      /\ \A n \in DOMAIN c \cap DOMAIN ConvertConditions : \E v \in DOMAIN ConvertConditions[n] : c[n] = <<v>> /\ t[n] = <<ConvertConditions[n][v]>>
  BY TranslatedAllValues
<1>2. c = [n \in DOMAIN c |-> c[n]] /\ DOMAIN c \subseteq DOMAIN PodCondition
  BY DEF IsObject
<1>3. IsObject(t, DOMAIN PodCondition)
  BY <1>1, <1>2 DEF IsObject
<1>4. Renamed(Renamed(t, PodCondition), AntiFunction(PodCondition)) = t
  BY <1>3, ConditionNames, RenamedBack
<1>a. u \in TranslatedAll(t, RevertConditions)
  BY <1>4
<1>5. /\ u = [n \in DOMAIN t |-> u[n]] /\ DOMAIN u = DOMAIN t
      /\ \A n \in DOMAIN t : n \notin DOMAIN RevertConditions => u[n] = t[n]
      /\ \A n \in DOMAIN t \cap DOMAIN RevertConditions : \E v \in DOMAIN RevertConditions[n] : t[n] = <<v>> /\ u[n] = <<RevertConditions[n][v]>>
  BY <1>a, TranslatedAllValues
<1>6. ASSUME NEW n \in DOMAIN c
      PROVE  u[n] = c[n]
  <2>1. CASE n \notin DOMAIN ConvertConditions
    BY <1>1, <1>5, <2>1, ConditionsAgree
  <2>2. CASE n \in DOMAIN ConvertConditions
    <3>1. PICK v \in DOMAIN ConvertConditions[n] : c[n] = <<v>> /\ t[n] = <<ConvertConditions[n][v]>>
      BY <1>1, <2>2
    <3>2. PICK w \in DOMAIN RevertConditions[n] : t[n] = <<w>> /\ u[n] = <<RevertConditions[n][w]>>
      BY <1>1, <1>5, <2>2, ConditionsAgree
    <3>3. <<w>> = <<ConvertConditions[n][v]>>
      BY <3>1, <3>2
    <3>4. w = ConvertConditions[n][v]
      BY <3>3
    <3>5. RevertConditions[n][w] = v
      BY <2>2, <3>2, <3>4, ConditionsAgree
    <3> QED BY <3>1, <3>2, <3>5
  <2> QED BY <2>1, <2>2
<1> QED
  BY <1>1, <1>2, <1>5, <1>6

\* A list of conditions comes back.
LEMMA ConditionsBack ==
  ASSUME NEW list, IsSequence(list), \A i \in DOMAIN list : IsObject(list[i], DOMAIN PodCondition),
         NEW k \in convertPodConditions(list), NEW b \in revertPodConditions(k)
  PROVE  b = list
<1> DEFINE There(c) == {Renamed(t, PodCondition) : t \in TranslatedAll(c, ConvertConditions)}
           Back(c) == TranslatedAll(Renamed(c, AntiFunction(PodCondition)), RevertConditions)
<1>0. list = [i \in DOMAIN list |-> list[i]]
  BY DEF IsSequence
<1>1. convertPodConditions(list) = Results(There, list)
  BY DEF convertPodConditions, ConvertConditions
<1>2. revertPodConditions(k) = Results(Back, k)
  BY DEF revertPodConditions, RevertConditions
<1>3. DOMAIN k = DOMAIN list /\ \A i \in DOMAIN list : k[i] \in There(list[i])
  <2> HIDE DEF There
  <2> QED BY <1>1 DEF Results
<1>4. b = [i \in DOMAIN k |-> b[i]] /\ \A i \in DOMAIN k : b[i] \in Back(k[i])
  <2> HIDE DEF Back
  <2> QED BY <1>2 DEF Results
<1>5. ASSUME NEW i \in DOMAIN list
      PROVE  b[i] = list[i]
  <2>1. PICK t \in TranslatedAll(list[i], ConvertConditions) : k[i] = Renamed(t, PodCondition)
    BY <1>3
  <2>2. b[i] \in TranslatedAll(Renamed(Renamed(t, PodCondition), AntiFunction(PodCondition)), RevertConditions)
    BY <1>3, <1>4, <2>1
  <2> QED
    BY <2>2, ConditionBack
<1> QED
  BY <1>0, <1>3, <1>4, <1>5

\* What is joined begins with the first segment and a separator.
LEMMA JoinFirst ==
  ASSUME NEW T, NEW sep \in T, NEW a \in Seq(T), NEW parts \in Seq(Seq(T)), parts # <<>>
  PROVE  /\ Join(parts, sep) \in Seq(T)
         /\ Join(<<a>> \o parts, sep) = (a \o <<sep>>) \o Join(parts, sep)
<1> DEFINE n == Len(parts)
           all == <<a>> \o parts
           P == [i \in 1..n |-> IF i = 1 THEN parts[i] ELSE <<sep>> \o parts[i]]
           Q == [i \in 1..n + 1 |-> IF i = 1 THEN all[i] ELSE <<sep>> \o all[i]]
           F(k) == FlattenSeq(SubSeq(P, 1, k))
           G(k) == FlattenSeq(SubSeq(Q, 1, k))
           head == a \o <<sep>>
           S == {k \in Nat : k + 1 <= n => G(k + 2) = head \o F(k + 1)}
<1>0. n \in Nat /\ n >= 1 /\ DOMAIN parts = 1..n /\ \A i \in 1..n : parts[i] \in Seq(T)
  BY EmptySeq
<1>1. all # <<>> /\ DOMAIN all = 1..n + 1 /\ all[1] = a /\ (\A i \in 1..n : all[i + 1] = parts[i]) /\ \A i \in 2..n + 1 : all[i] = parts[i - 1]
  <2> DEFINE U == Seq(T)
  <2>1. parts \in Seq(U) /\ a \in U
    OBVIOUS
  <2> HIDE DEF U
  <2>2. /\ all \in Seq(U) /\ Len(all) = n + 1 /\ all[1] = a /\ (\A i \in 1..n : all[i + 1] = parts[i]) /\ \A i \in 2..n + 1 : all[i] = parts[i - 1]
    BY <2>1, <1>0
  <2> HIDE DEF all
  <2>3. all # <<>>
    BY <2>2, <1>0
  <2> QED
    BY <2>2, <2>3, <1>0
<1> HIDE DEF n
<1>2. Join(parts, sep) = FlattenSeq(P)
  BY <1>0, Zenon DEF Join
<1> HIDE DEF all
<1>3. Join(all, sep) = FlattenSeq(Q)
  BY <1>1, Zenon DEF Join
<1>4. /\ P \in Seq(Seq(T)) /\ Len(P) = n /\ P[1] = parts[1]
      /\ \A i \in 2..n : P[i] = <<sep>> \o parts[i]
      /\ \A i \in 1..n : P[i] \in Seq(T)
  <2>1. \A i \in 1..n : P[i] \in Seq(T)
    <3> TAKE i \in 1..n
    <3>1. <<sep>> \o parts[i] \in Seq(T)
      BY <1>0
    <3> QED BY <1>0, <3>1
  <2> QED
    BY <1>0, <2>1
<1>5. /\ Q \in Seq(Seq(T)) /\ Len(Q) = n + 1 /\ Q[1] = a
      /\ \A i \in 1..n : Q[i + 1] = <<sep>> \o parts[i]
  <2>1. \A i \in 2..n + 1 : Q[i] = <<sep>> \o parts[i - 1] /\ i - 1 \in 1..n
    BY <1>0, <1>1, SMTT(30)
  <2>2. Q[1] = a
    BY <1>0, <1>1
  <2>3. ASSUME NEW i \in 1..n + 1 PROVE Q[i] \in Seq(T)
    <3>1. CASE i = 1
      BY <3>1, <2>2
    <3>2. CASE i # 1
      <4>1. i \in 2..n + 1
        BY <3>2, <1>0
      <4>2. Q[i] = <<sep>> \o parts[i - 1] /\ parts[i - 1] \in Seq(T)
        BY <4>1, <2>1, <1>0
      <4>3. <<sep>> \in Seq(T)
        OBVIOUS
      <4> QED BY <4>2, <4>3, ConcatType
    <3> QED BY <3>1, <3>2
  <2>4. Q \in Seq(Seq(T)) /\ Len(Q) = n + 1
    BY <1>0, <2>3
  <2>5. ASSUME NEW i \in 1..n PROVE Q[i + 1] = <<sep>> \o parts[i]
    <3>1. i + 1 \in 2..n + 1 /\ (i + 1) - 1 = i
      BY <1>0
    <3> HIDE DEF Q
    <3> QED BY <2>1, <3>1
  <2> QED
    BY <2>2, <2>4, <2>5
<1> HIDE DEF P, Q
<1>6. FlattenSeq(P) \in Seq(T)
  BY <1>4, FlattenSeqType
<1>7. \A k \in 0..n : F(k) \in Seq(T)
  <2> TAKE k \in 0..n
  <2>1. SubSeq(P, 1, k) \in Seq(Seq(T))
    BY <1>0, <1>4
  <2> QED BY <2>1, FlattenSeqType
<1>f. F(0) = <<>> /\ \A k \in 0..n - 1 : F(k + 1) = F(k) \o P[k + 1]
  <2>1. SubSeq(P, 1, 0) = <<>>
    BY <1>4
  <2>2. F(0) = <<>>
    BY <2>1, FlattenSeqEmpty
  <2> QED BY <1>4, <2>2, FlattenSeqPrefix
<1>g. G(0) = <<>> /\ \A k \in 0..n : G(k + 1) = G(k) \o Q[k + 1]
  <2>1. SubSeq(Q, 1, 0) = <<>>
    BY <1>5
  <2>2. G(0) = <<>>
    BY <2>1, FlattenSeqEmpty
  <2>3. \A k \in 0..Len(Q) - 1 : G(k + 1) = G(k) \o Q[k + 1]
    BY <1>5, FlattenSeqPrefix
  <2>4. Len(Q) - 1 = n
    BY <1>0, <1>5
  <2> QED BY <2>2, <2>3, <2>4, Zenon
<1>13. SubSeq(P, 1, n) = P /\ SubSeq(Q, 1, n + 1) = Q
  BY <1>0, <1>4, <1>5
<1>14. F(n) = FlattenSeq(P) /\ G(n + 1) = FlattenSeq(Q)
  BY <1>13
<1>h. head \in Seq(T)
  OBVIOUS
<1> HIDE DEF F, G
<1>8. 0 \in S
  <2>0. P[1] \in Seq(T) /\ parts[1] \in Seq(T) /\ P[1] = parts[1] /\ <<sep>> \in Seq(T)
    BY <1>0, <1>4
  <2>1. F(1) = P[1]
    <3>1. F(1) = F(0) \o P[1]
      BY <1>0, <1>f
    <3> QED BY <1>f, <2>0, <3>1, ConcatEmptySeq
  <2>2. G(1) = a
    <3>a. 0 \in 0..n /\ 0 + 1 = 1
      BY <1>0
    <3>b. G(0 + 1) = G(0) \o Q[0 + 1]
      BY <1>g, <3>a, Zenon
    <3>1. G(1) = G(0) \o Q[1]
      BY <3>a, <3>b, Zenon
    <3> QED BY <1>5, <1>g, <3>1, ConcatEmptySeq
  <2>3. G(2) = a \o (<<sep>> \o parts[1])
    <3>1. G(2) = G(1) \o Q[2]
      BY <1>0, <1>g
    <3>2. Q[2] = <<sep>> \o parts[1]
      BY <1>0, <1>5
    <3> QED BY <2>2, <3>1, <3>2
  <2>5. a \o (<<sep>> \o parts[1]) = (a \o <<sep>>) \o parts[1]
    <3> DEFINE b == <<sep>>
               c == parts[1]
    <3>1. b \in Seq(T) /\ c \in Seq(T)
      BY <2>0
    <3> HIDE DEF b, c
    <3>2. (a \o b) \o c = a \o (b \o c)
      BY <3>1
    <3> QED BY <3>2 DEF b, c
  <2>6. G(2) = head \o F(1)
    BY <2>0, <2>1, <2>3, <2>5
  <2> HIDE DEF head
  <2>7. G(0 + 2) = head \o F(0 + 1)
    BY <2>6
  <2> QED
    BY <2>7
<1> HIDE DEF head
<1>9. ASSUME NEW k \in Nat, k \in S
      PROVE  k + 1 \in S
  <2> SUFFICES ASSUME (k + 1) + 1 <= n
               PROVE  G((k + 1) + 2) = head \o F((k + 1) + 1)
    OBVIOUS
  <2>0. k + 1 \in 0..n - 1 /\ k + 2 \in 0..n /\ k + 1 <= n /\ k + 2 \in 2..n /\ k + 1 \in 0..n /\ k + 2 \in 1..n
    BY <1>0
  <2>1. F((k + 1) + 1) = F(k + 1) \o P[k + 2]
    <3>a. (k + 1) + 1 = k + 2
      OBVIOUS
    <3>b. F((k + 1) + 1) = F(k + 1) \o P[(k + 1) + 1]
      BY <1>f, <2>0, Zenon
    <3> QED BY <3>a, <3>b, Zenon
  <2>2. G((k + 2) + 1) = G(k + 2) \o Q[(k + 2) + 1]
    BY <1>g, <2>0
  <2>3. Q[(k + 2) + 1] = P[k + 2]
    BY <1>4, <1>5, <2>0
  <2>4. G(k + 2) = head \o F(k + 1)
    BY <1>9, <2>0
  <2>5. F(k + 1) \in Seq(T) /\ P[k + 2] \in Seq(T)
    BY <1>4, <1>7, <2>0
  <2>6. (head \o F(k + 1)) \o P[k + 2] = head \o (F(k + 1) \o P[k + 2])
    <3> DEFINE b == F(k + 1)
               c == P[k + 2]
    <3>1. b \in Seq(T) /\ c \in Seq(T)
      BY <2>5
    <3> HIDE DEF b, c
    <3>2. (head \o b) \o c = head \o (b \o c)
      BY <1>h, <3>1, SMTT(30)
    <3> QED BY <3>2 DEF b, c
  <2>7. (k + 1) + 2 = (k + 2) + 1
    OBVIOUS
  <2> QED
    BY <2>1, <2>2, <2>3, <2>4, <2>6, <2>7, Zenon
<1>10. Nat \subseteq S
  <2> HIDE DEF S
  <2> QED BY <1>8, <1>9, InductionOnSet
<1>11. n - 1 \in Nat /\ (n - 1) + 1 = n /\ (n - 1) + 2 = n + 1 /\ n <= n
  BY <1>0
<1>12. G(n + 1) = head \o F(n)
  <2>1. n - 1 \in S
    BY <1>10, <1>11, Zenon
  <2>2. G((n - 1) + 2) = head \o F((n - 1) + 1)
    BY <1>11, <2>1, Zenon
  <2> QED
    BY <1>11, <2>2, Zenon
<1> QED
  BY <1>2, <1>3, <1>6, <1>12, <1>14, Zenon DEF all, head

\* The text of an alias.
AliasText(a) == Join(<<a.ip>> \o a.names, " ")

\* The text of an alias is split at its first space, and what follows into
\* its names.
LEMMA AliasBack ==
  ASSUME NEW a, IsAlias(a), a.names # <<>>
  PROVE  /\ SplitInTwo(AliasText(a), " ") = <<a.ip, Join(a.names, " ")>>
         /\ NotEmpty(Split(Join(a.names, " "), " ")) = a.names
<1> DEFINE ip == a.ip
           names == a.names
           tokens == TokensOf(names, " ") \cup Range(ip)
           rest == Join(names, " ")
<1>0. /\ IsSequence(ip) /\ " " \notin Range(ip) /\ IsTexts(names) /\ names # <<>>
      /\ \A i \in DOMAIN names : names[i] # Empty /\ " " \notin Range(names[i])
  BY DEF IsAlias
<1>1. " " \in tokens /\ Range(ip) \subseteq tokens /\ \A i \in DOMAIN names : Range(names[i]) \subseteq tokens
  BY DEF TokensOf
<1> HIDE DEF tokens, ip, names
<1>2. ip \in Seq(tokens)
  BY <1>0, <1>1, TextType
<1>3. names \in Seq(Seq(tokens)) /\ DOMAIN names = 1..Len(names)
  BY <1>0, <1>1, TextsType
<1>4. Join(<<ip>> \o names, " ") = (ip \o <<" ">>) \o rest
  <2>1. names # <<>> /\ " " \in tokens
    BY <1>0, <1>1
  <2> QED
    BY <1>2, <1>3, <2>1, JoinFirst, Zenon
<1>5. IsSequence(rest) /\ Split(rest, " ") = names
  BY <1>0, JoinBack
<1> HIDE DEF rest
<1>6. SplitInTwo((ip \o <<" ">>) \o rest, " ") = <<ip, rest>>
  BY <1>0, <1>5, SplitInTwoBack
<1>7. NotEmpty(names) = names
  <2> DEFINE U == Seq(tokens)
  <2>1. names \in Seq(U)
    BY <1>3
  <2> HIDE DEF U
  <2> QED BY <1>0, <1>3, <2>1, NotEmptyKeeps
<1> QED
  BY <1>4, <1>5, <1>6, <1>7, Zenon DEF AliasText, ip, names, rest

\* Aliases come back.
LEMMA AliasesBack ==
  ASSUME NEW list, IsSequence(list), \A i \in DOMAIN list : IsAlias(list[i]) /\ list[i].ip # Empty /\ list[i].names # <<>>,
         NEW b \in revertHostAliases(convertHostAliases(list))
  PROVE  b = list
<1> DEFINE n == Len(list)
           texts == [i \in 1..n |-> AliasText(list[i])]
           ReadAlias(a) == LET fields == SplitInTwo(a, " ")
                      IN  IF Len(fields) # 2 THEN {} ELSE {[ip |-> fields[1], names |-> NotEmpty(Split(fields[2], " "))]}
<1>0. n \in Nat /\ list = [i \in 1..n |-> list[i]] /\ DOMAIN list = 1..n
  BY DEF IsSequence
<1>1. convertHostAliases(list) = texts
  <2> DEFINE U == Range(texts)
  <2>1. texts \in Seq(U) /\ Len(texts) = n /\ \A i \in 1..n : texts[i] = AliasText(list[i])
    <3>1. \A i \in 1..n : texts[i] \in U
      BY DEF Range
    <3> HIDE DEF U
    <3> QED BY <1>0, <3>1
  <2> DEFINE parts == [i \in 1..Len(texts) |-> <<texts[i]>>]
             own == [i \in DOMAIN list |-> IF list[i].ip = Empty \/ list[i].names = <<>> THEN <<>> ELSE <<AliasText(list[i])>>]
  <2>2. convertHostAliases(list) = FlattenSeq(own)
    BY Zenon DEF convertHostAliases, AliasText
  <2> HIDE DEF texts, U
  <2>3. own = parts
    BY <1>0, <2>1
  <2>4. FlattenSeq(parts) = texts
    BY <2>1, FlattenOnes
  <2> QED BY <2>2, <2>3, <2>4, Zenon
<1>2. DOMAIN texts = 1..n /\ \A i \in 1..n : texts[i] = AliasText(list[i])
  OBVIOUS
<1> HIDE DEF texts
<1>3. revertHostAliases(texts) = Results(ReadAlias, texts)
  BY DEF revertHostAliases
<1>4. b = [i \in 1..n |-> b[i]] /\ \A i \in 1..n : b[i] \in ReadAlias(texts[i])
  <2> HIDE DEF ReadAlias
  <2> QED BY <1>1, <1>2, <1>3 DEF Results
<1>5. ASSUME NEW i \in 1..n
      PROVE  b[i] = list[i]
  <2> DEFINE a == list[i]
             rest == Join(a.names, " ")
             fields == <<a.ip, rest>>
  <2>1. IsAlias(a) /\ a.names # <<>> /\ a = [ip |-> a.ip, names |-> a.names]
    BY <1>0 DEF IsAlias
  <2>2. SplitInTwo(texts[i], " ") = fields /\ NotEmpty(Split(rest, " ")) = a.names
    BY <1>2, <2>1, AliasBack
  <2>3. Len(fields) = 2 /\ fields[1] = a.ip /\ fields[2] = rest
    OBVIOUS
  <2>4. ReadAlias(texts[i]) = IF Len(fields) # 2 THEN {} ELSE {[ip |-> fields[1], names |-> NotEmpty(Split(fields[2], " "))]}
    BY <2>2, Zenon
  <2> HIDE DEF fields, ReadAlias, rest
  <2>5. ReadAlias(texts[i]) = {[ip |-> a.ip, names |-> a.names]}
    BY <2>2, <2>3, <2>4, Zenon
  <2>6. ReadAlias(texts[i]) = {a}
    BY <2>1, <2>5, Zenon
  <2> QED BY <1>4, <2>6
<1> QED
  BY <1>0, <1>4, <1>5

-----------------------------------------------------------------------------
(***************************************************************************)
(* The runs that convert a pod                                             *)
(***************************************************************************)
\* A pod that may stand for the first one.
SamePod(d, p) ==
  /\ IsPod(d) /\ PodFieldsFit(d)
  /\ Without(d.f, SecurityFields) = Without(p.f, SecurityFields)
  /\ d.aliases = p.aliases /\ d.registries = p.registries /\ d.conditions = p.conditions

\* Without the security context they are fields of a pod, and fit as they did.
LEMMA WithoutSecurity ==
  ASSUME NEW f, IsPodFields(f), FieldsFit(f), "APIVersion" \in DOMAIN f, NEW w, w = Without(f, SecurityFields)
  PROVE  /\ IsPodFields(w) /\ FieldsFit(w) /\ "APIVersion" \in DOMAIN w
         /\ Without(w, SecurityFields) = w /\ WithVersion(f) = w
<1>1. w = [n \in DOMAIN f \ SecurityFields |-> f[n]]
  BY Zenon DEF Without, Restrict
<1>2. DOMAIN w = DOMAIN f \ SecurityFields /\ (\A n \in DOMAIN w : w[n] = f[n]) /\ w = [n \in DOMAIN w |-> w[n]]
  BY <1>1
<1>3. /\ "APIVersion" \notin SecurityFields /\ "Hostname" \notin SecurityFields /\ "Subdomain" \notin SecurityFields
      /\ "ServiceAccountName" \notin SecurityFields /\ "AutomountServiceAccountToken" \notin SecurityFields
  BY DEF SecurityFields
<1>4. \A n : n \notin SecurityFields => Get(w, n) = Get(f, n)
  BY <1>2 DEF Get
<1>5. FieldsFit(w)
  <2>1. /\ Get(w, "Hostname") = Get(f, "Hostname") /\ Get(w, "Subdomain") = Get(f, "Subdomain")
        /\ Get(w, "ServiceAccountName") = Get(f, "ServiceAccountName")
        /\ Get(w, "AutomountServiceAccountToken") = Get(f, "AutomountServiceAccountToken")
        /\ "Subdomain" \in DOMAIN w <=> "Subdomain" \in DOMAIN f
    BY <1>2, <1>3, <1>4
  <2> QED
    BY <2>1, Zenon DEF FieldsFit
<1>6. IsPodFields(w)
  BY <1>2, <1>3 DEF IsPodFields, IsObject
<1>7. Without(w, SecurityFields) = w
  <2>1. Without(w, SecurityFields) = [n \in DOMAIN w \ SecurityFields |-> w[n]]
    BY Zenon DEF Without, Restrict
  <2>2. DOMAIN w \ SecurityFields = DOMAIN w
    BY <1>2
  <2> QED
    BY <1>2, <2>1, <2>2
<1>8. WithVersion(f) = w
  <2> DEFINE v1 == [APIVersion |-> <<"v1">>]
  <2>1. WithVersion(f) = Over(w, v1)
    BY DEF WithVersion
  <2>2. DOMAIN v1 = {"APIVersion"}
    OBVIOUS
  <2> HIDE DEF v1
  <2>3. Over(w, v1) = [n \in DOMAIN w \cup DOMAIN v1 |-> IF n \in DOMAIN w THEN w[n] ELSE v1[n]]
    BY DEF Over
  <2>4. DOMAIN w \cup DOMAIN v1 = DOMAIN w
    BY <1>2, <1>3, <2>2
  <2> QED
    BY <1>2, <2>1, <2>3, <2>4
<1> QED
  BY <1>2, <1>3, <1>5, <1>6, <1>7, <1>8

\* A pod stands for it after a run to Short and one back, too.
LEMMA PodComesBack ==
  ASSUME NEW p, NEW d, SamePod(d, p), NEW k \in ConvertPod(d), NEW b \in RevertPod(k)
  PROVE  SamePod(b, p)
<1>0. IsPod(d) /\ PodFieldsFit(d)
  BY DEF SamePod
<1>1. PICK f \in convertPodFields(d.f), conditions \in convertPodConditions(d.conditions), spec \in convertPodSpec(d) :
        k = KokiPod(f, convertHostAliases(d.aliases), d.registries, convertHostMode(d.f), conditions, spec.volumes, spec.affinity, spec.tolerations,
                    spec.init, convertContainerStatuses(d.initStatuses \o d.statuses, spec.containers))
  BY DEF ConvertPod
<1>2. /\ k.f = f /\ k.host_aliases = convertHostAliases(d.aliases) /\ k.registry_secrets = d.registries
      /\ k.host_mode = convertHostMode(d.f) /\ k.condition = conditions
  BY <1>1 DEF KokiPod
<1>3. PICK g \in revertPodFields(k.f, k.host_mode), aliases \in revertHostAliases(k.host_aliases),
           back \in revertPodConditions(k.condition), spek \in revertPodSpec(k) :
        b = KubePod(g, aliases, k.registry_secrets, back, spek.vols, Nil, spek.affinity, spek.tolerations, spek.init, spek.containers,
                    revertInitStatuses(k.init_containers), revertStatuses(k.containers))
  BY DEF RevertPod
<1>4. b.f = g /\ b.aliases = aliases /\ b.registries = k.registry_secrets /\ b.conditions = back
  BY <1>3 DEF KubePod
<1>5. /\ IsPodFields(d.f) /\ "APIVersion" \in DOMAIN d.f
      /\ IsSequence(d.aliases) /\ \A i \in DOMAIN d.aliases : IsAlias(d.aliases[i])
      /\ IsSequence(d.conditions) /\ \A i \in DOMAIN d.conditions : IsObject(d.conditions[i], DOMAIN PodCondition)
  BY <1>0 DEF IsPod
<1>6. FieldsFit(d.f) /\ \A i \in DOMAIN d.aliases : d.aliases[i].ip # Empty /\ d.aliases[i].names # <<>>
  BY <1>0, Zenon DEF PodFieldsFit, FieldsFit
<1>7. g = WithVersion(d.f)
  BY <1>2, <1>3, <1>5, <1>6, FieldsComeBack
<1>8. aliases = d.aliases
  BY <1>2, <1>3, <1>5, <1>6, AliasesBack
<1>9. back = d.conditions
  BY <1>1, <1>2, <1>3, <1>5, ConditionsBack
<1> DEFINE w == Without(d.f, SecurityFields)
<1>10. IsPodFields(w) /\ FieldsFit(w) /\ "APIVersion" \in DOMAIN w /\ Without(w, SecurityFields) = w /\ WithVersion(d.f) = w
  BY <1>5, <1>6, WithoutSecurity
<1> HIDE DEF w
<1>11. b.f = w /\ b.aliases = d.aliases /\ b.registries = d.registries /\ b.conditions = d.conditions
  BY <1>2, <1>4, <1>7, <1>8, <1>9, <1>10
<1>12. IsPod(b)
  BY <1>5, <1>10, <1>11 DEF IsPod
<1>13. PodFieldsFit(b)
  BY <1>6, <1>10, <1>11, Zenon DEF PodFieldsFit, FieldsFit
<1>14. Without(b.f, SecurityFields) = Without(p.f, SecurityFields)
  BY <1>10, <1>11 DEF SamePod, w
<1> QED
  BY <1>11, <1>12, <1>13, <1>14 DEF SamePod

\* The inductive invariant.  A pod in Short syntax is what the latest one in
\* Kubernetes syntax was converted to, and that one stands for the first.
PodInv ==
  /\ first \in FirstDocs
  /\ doc.kind = first.kind
  /\ first.syntax = "kube" /\ first.kind = "pod" /\ PodFieldsFit(first) =>
       \/ doc.syntax = "kube" /\ SamePod(doc, first)
       \/ doc.syntax = "koki" /\ SamePod(kube, first) /\ doc \in ConvertPod(kube)

\* The first pod stands for itself.
LEMMA PodInit == Init => PodInv
<1> SUFFICES ASSUME Init PROVE PodInv
  OBVIOUS
<1>1. first \in FirstDocs /\ doc = first
  BY DEF Init
<1>2. first.syntax = "kube" /\ first.kind = "pod" /\ PodFieldsFit(first) => SamePod(first, first)
  BY <1>1, PodAssumption DEF SamePod
<1> QED
  BY <1>1, <1>2 DEF PodInv

\* What a run does to a pod.
LEMMA PodResult ==
  ASSUME Next, doc.kind = "pod"
  PROVE  \/ /\ doc.syntax = "kube" /\ kube' = doc
            /\ doc' = doc \/ (doc' \in ConvertPod(doc) /\ doc'.syntax = "koki")
         \/ /\ doc.syntax = "koki" /\ kube' = kube
            /\ doc' = doc \/ (doc' \in RevertPod(doc) /\ doc'.syntax = "kube")
<1>1. CASE ToKoki
  <2>1. doc.syntax = "kube" /\ kube' = doc /\ (doc' = doc \/ doc' \in ConvertPod(doc))
    BY <1>1 DEF ToKoki, Becomes
  <2>2. doc' \in ConvertPod(doc) => doc'.syntax = "koki"
    BY DEF ConvertPod, KokiPod
  <2> QED
    BY <2>1, <2>2
<1>2. CASE ToKube
  <2>1. doc.syntax = "koki" /\ kube' = kube /\ (doc' = doc \/ doc' \in RevertPod(doc))
    BY <1>2 DEF ToKube, Becomes
  <2>2. doc' \in RevertPod(doc) => doc'.syntax = "kube"
    BY DEF RevertPod, KubePod
  <2> QED
    BY <2>1, <2>2
<1> QED
  BY <1>1, <1>2 DEF Next

\* A run keeps the invariant.
LEMMA PodNext == PodInv /\ [Next]_vars => PodInv'
<1> SUFFICES ASSUME PodInv, [Next]_vars PROVE PodInv'
  OBVIOUS
<1>0. first \in FirstDocs /\ doc.kind = first.kind
  BY DEF PodInv
<1>1. CASE UNCHANGED vars
  <2>1. first' = first /\ doc' = doc /\ kube' = kube
    BY <1>1 DEF vars
  <2> QED
    BY <2>1, Zenon DEF PodInv
<1>2. CASE Next
  <2>1. first' = first /\ doc'.kind = first.kind
    <3>1. ToKoki => first' = first /\ doc'.kind = doc.kind
      BY ToKokiResult
    <3>2. ToKube => first' = first /\ doc'.kind = doc.kind
      BY ToKubeResult
    <3> QED BY <1>0, <1>2, <3>1, <3>2 DEF Next
  <2>2. ASSUME first.syntax = "kube", first.kind = "pod", PodFieldsFit(first)
        PROVE  \/ doc'.syntax = "kube" /\ SamePod(doc', first)
               \/ doc'.syntax = "koki" /\ SamePod(kube', first) /\ doc' \in ConvertPod(kube')
    <3>0. \/ doc.syntax = "kube" /\ SamePod(doc, first)
          \/ doc.syntax = "koki" /\ SamePod(kube, first) /\ doc \in ConvertPod(kube)
      BY <2>2 DEF PodInv
    <3>1. doc.kind = "pod"
      BY <1>0, <2>2
    <3>2. CASE doc.syntax = "kube"
      <4>1. SamePod(doc, first) /\ "kube" # "koki"
        BY <3>0, <3>2
      <4>2. kube' = doc /\ (doc' = doc \/ (doc' \in ConvertPod(doc) /\ doc'.syntax = "koki"))
        BY <1>2, <3>1, <3>2, <4>1, PodResult
      <4> QED
        <5>1. CASE doc' = doc
          BY <3>2, <4>1, <5>1
        <5>2. CASE doc' \in ConvertPod(doc) /\ doc'.syntax = "koki"
          <6>1. SamePod(kube', first) /\ doc' \in ConvertPod(kube')
            BY <4>1, <4>2, <5>2, Zenon
          <6> QED
            BY <5>2, <6>1
        <5> QED
          BY <4>2, <5>1, <5>2
    <3>3. CASE doc.syntax = "koki"
      <4>1. SamePod(kube, first) /\ doc \in ConvertPod(kube) /\ "kube" # "koki"
        BY <3>0, <3>3
      <4>2. kube' = kube /\ (doc' = doc \/ (doc' \in RevertPod(doc) /\ doc'.syntax = "kube"))
        BY <1>2, <3>1, <3>3, <4>1, PodResult
      <4>3. doc' \in RevertPod(doc) => SamePod(doc', first)
        <5> SUFFICES ASSUME doc' \in RevertPod(doc)
                     PROVE  SamePod(doc', first)
          OBVIOUS
        <5> QED
          BY <4>1, PodComesBack, Zenon
      <4> QED
        BY <3>3, <4>1, <4>2, <4>3, Zenon
    <3> QED
      BY <3>0, <3>2, <3>3
  <2> QED
    BY <1>0, <2>1, <2>2, Zenon DEF PodInv
<1> QED
  BY <1>1, <1>2

\* What stands for the first pod has its fields.
LEMMA PodInvImplies == PodInv => PodFieldsKept
<1> SUFFICES ASSUME PodInv, IsBack("pod"), PodFieldsFit(first)
             PROVE  /\ Without(doc.f, SecurityFields) = Without(first.f, SecurityFields)
                    /\ doc.aliases = first.aliases /\ doc.registries = first.registries /\ doc.conditions = first.conditions
  BY DEF PodFieldsKept
<1>1. first.syntax = "kube" /\ doc.syntax = "kube" /\ first.kind = "pod" /\ "kube" # "koki"
  BY DEF IsBack, PodInv
<1>2. SamePod(doc, first)
  BY <1>1 DEF PodInv
<1> QED
  BY <1>2 DEF SamePod

\* The fields of a pod that are its own come back, however often it is
\* converted to Short syntax and back: those of its spec, its metadata and
\* its status, the host name and the account that share a text with another
\* field each, the flags that become a list, its aliases, registries and
\* conditions, for any names and values and any number of aliases, registries
\* and conditions.
THEOREM PodFieldsAreKept == Spec => []PodFieldsKept
<1>1. Init => PodInv
  BY PodInit
<1>2. PodInv /\ [Next]_vars => PodInv'
  BY PodNext
<1>3. PodInv => PodFieldsKept
  BY PodInvImplies
<1> QED
  BY <1>1, <1>2, <1>3, PTL DEF Spec
=============================================================================
