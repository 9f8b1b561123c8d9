--------------------------- MODULE ServicesProofs ---------------------------
(***************************************************************************)
(* Proofs about module Services, for every port number, address, name and  *)
(* length of a list: what the API server accepts, and the syntax of ports  *)
(* can express, comes back from Short as it was but for the defaults, and  *)
(* from then on exactly as it was.                                         *)
(***************************************************************************)
EXTENDS Services, FiniteSetTheorems, SequenceTheorems, TLAPS

(***************************************************************************)
(* Lists                                                                   *)
(***************************************************************************)
\* A function on 1..n is a list of length n.
LEMMA Listing ==
  ASSUME NEW n \in Nat, NEW s, s = [i \in 1..n |-> s[i]]
  PROVE  IsList(s) /\ Len(s) = n /\ DOMAIN s = 1..n
<1>1. s \in Seq({s[i] : i \in 1..n})
  OBVIOUS
<1>2. Len(s) = n /\ DOMAIN s = 1..n
  BY <1>1
<1> QED
  BY <1>2 DEF IsList

LEMMA ListDomain ==
  ASSUME NEW s, IsList(s)
  PROVE  Len(s) \in Nat /\ DOMAIN s = 1..Len(s)
BY DEF IsList

\* A list of the same length, made item by item.
LEMMA Mapped ==
  ASSUME NEW s, IsList(s), NEW t, t = [i \in DOMAIN s |-> t[i]]
  PROVE  IsList(t) /\ Len(t) = Len(s) /\ DOMAIN t = DOMAIN s
BY Listing, ListDomain

\* If every item has one result there is one list of results.
LEMMA AllOfOne ==
  ASSUME NEW results, NEW s, s = [i \in DOMAIN results |-> s[i]],
         \A i \in DOMAIN results : results[i] = {s[i]}
  PROVE  AllOf(results) = {s}
<1>1. s \in AllOf(results)
  BY DEF AllOf
<1>2. ASSUME NEW t \in AllOf(results)
      PROVE  t = s
  <2>1. t = [i \in DOMAIN results |-> t[i]] /\ \A i \in DOMAIN results : t[i] \in results[i]
    BY DEF AllOf
  <2> QED
    BY <2>1
<1> QED
  BY <1>1, <1>2

\* A list of results has one for each item.
LEMMA AllOfEach ==
  ASSUME NEW results, NEW t \in AllOf(results)
  PROVE  t = [i \in DOMAIN results |-> t[i]] /\ \A i \in DOMAIN results : t[i] \in results[i]
BY DEF AllOf

\* Texts of one and of two segments.
LEMMA Segments ==
  ASSUME NEW a, NEW b
  PROVE  /\ <<a>> \o <<>> = <<a>> /\ <<>> \o <<a>> = <<a>> /\ <<a>> \o <<b>> = <<a, b>>
         /\ <<>> \o <<>> = <<>>
         /\ Len(<<a>>) = 1 /\ DOMAIN <<a>> = {1} /\ <<a>>[1] = a
         /\ Len(<<a, b>>) = 2 /\ DOMAIN <<a, b>> = {1, 2} /\ <<a, b>>[1] = a /\ <<a, b>>[2] = b
         /\ <<a>> # <<>> /\ <<a, b>> # <<>>
<1>1. PICK T : a \in T /\ b \in T
  <2>1. a \in {a, b} /\ b \in {a, b}
    OBVIOUS
  <2> QED
    BY <2>1
<1>2. <<a>> \in Seq(T) /\ <<b>> \in Seq(T) /\ <<>> \in Seq(T) /\ <<a, b>> \in Seq(T)
  BY <1>1
<1>3. <<a>> \o <<>> = <<a>> /\ <<>> \o <<a>> = <<a>> /\ <<>> \o <<>> = <<>>
  BY <1>2
<1>4. <<a>> \o <<b>> = <<a, b>>
  <2>1. PICK s, t, u, v : s = <<a>> /\ t = <<b>> /\ u = <<a>> \o <<b>> /\ v = <<a, b>>
    OBVIOUS
  <2>2. /\ s \in Seq(T) /\ t \in Seq(T) /\ v \in Seq(T) /\ u = s \o t
        /\ Len(s) = 1 /\ Len(t) = 1 /\ Len(v) = 2 /\ s[1] = a /\ t[1] = b /\ v[1] = a /\ v[2] = b
    BY <1>2, <2>1
  <2>3. u \in Seq(T) /\ Len(u) = 2 /\ u[1] = a /\ u[2] = b
    <3>1. /\ u \in Seq(T) /\ Len(u) = Len(s) + Len(t)
          /\ \A i \in 1..Len(s) + Len(t) : u[i] = IF i <= Len(s) THEN s[i] ELSE t[i - Len(s)]
      BY <2>2, ConcatProperties
    <3>2. 1 \in 1..2 /\ 2 \in 1..2 /\ 1 <= 1 /\ ~(2 <= 1) /\ 2 - 1 = 1 /\ 1 + 1 = 2
      OBVIOUS
    <3> QED
      BY <2>2, <3>1, <3>2
  <2>4. u = v
    BY <2>2, <2>3, SeqEqual
  <2> QED
    BY <2>1, <2>4
<1>5. Len(<<a>>) = 1 /\ DOMAIN <<a>> = {1} /\ <<a>>[1] = a
  OBVIOUS
<1>6. Len(<<a, b>>) = 2 /\ DOMAIN <<a, b>> = {1, 2} /\ <<a, b>>[1] = a /\ <<a, b>>[2] = b
  OBVIOUS
<1>7. <<a>> # <<>> /\ <<a, b>> # <<>>
  BY <1>5, <1>6
<1> QED
  BY <1>3, <1>4, <1>5, <1>6, <1>7

-----------------------------------------------------------------------------
(***************************************************************************)
(* Service ports                                                           *)
(***************************************************************************)
\* A text without a prefix is split at its colons, and is TCP.
LEMMA PlainText ==
  ASSUME NEW segs
  PROVE  Split(Text(Nil, segs)) = segs /\ ProtocolOf(Text(Nil, segs)) = "tcp"
BY WordsAssumption DEF Split, Text, ProtocolOf, MatchesProtocol

\* So is one with the prefix udp, if its segments are numbers.
LEMMA UDPText ==
  ASSUME NEW segs, \A i \in DOMAIN segs : IsNumber(segs[i])
  PROVE  Split(Text("udp", segs)) = segs /\ ProtocolOf(Text("udp", segs)) = "udp"
BY DEF Split, Text, ProtocolOf, MatchesProtocol

\* The protocols that are accepted.
LEMMA Protocols ==
  /\ Lower("TCP") = "tcp" /\ Lower("UDP") = "udp" /\ Lower("tcp") = "tcp" /\ Lower("udp") = "udp" /\ Lower(Empty) = Empty
  /\ Upper("tcp") = "TCP" /\ Upper("udp") = "UDP" /\ Upper(Empty) = Empty
  /\ Prefix(Empty) = Nil /\ Prefix("tcp") = Nil /\ Prefix("udp") = "udp"
<1>1. Lower("TCP") = "tcp" /\ Lower("UDP") = "udp" /\ Lower("tcp") = "tcp" /\ Lower("udp") = "udp"
  BY DEF Lower
<1>2. Upper("tcp") = "TCP" /\ Upper("udp") = "UDP"
  BY DEF Upper
<1>3. Upper(Empty) = Empty
  BY WordsAssumption DEF Upper
<1>4. Lower(Empty) = Empty
  BY WordsAssumption DEF Lower
<1>5. Prefix(Empty) = Nil /\ Prefix("tcp") = Nil /\ Prefix("udp") = "udp"
  BY WordsAssumption DEF Prefix
<1> QED
  BY <1>1, <1>2, <1>3, <1>4, <1>5

ShortProtocol(protocol) == IF protocol = "UDP" THEN "udp" ELSE "tcp"
KubeProtocol(protocol) == IF protocol = Empty THEN "TCP" ELSE protocol

LEMMA ProtocolsComeBack ==
  ASSUME NEW protocol \in {"TCP", "UDP", Empty}
  PROVE  /\ Prefix(Lower(protocol)) = IF protocol = "UDP" THEN "udp" ELSE Nil
         /\ Upper(ShortProtocol(protocol)) = KubeProtocol(protocol)
BY Protocols, WordsAssumption DEF ShortProtocol, KubeProtocol

FitsText(p) == IsServicePort(p) /\ p.port # Zero /\ AcceptablePort(p) /\ (p.protocol = "UDP" => IsNumber(p.target))

\* The text of a service port is parsed to what it was printed from.
LEMMA ServicePortTrip ==
  ASSUME NEW p, FitsText(p)
  PROVE  ServicePortInit(Blank, ServicePortString(p)) =
           [ok |-> TRUE, p |-> [protocol |-> ShortProtocol(p.protocol), port |-> p.port, target |-> p.target]]
<1>1. PICK segs : segs = <<p.port>> \o (IF p.target = Zero THEN <<>> ELSE <<p.target>>)
  OBVIOUS
<1>2. /\ segs[1] = p.port
      /\ p.target = Zero => Len(segs) = 1
      /\ p.target # Zero => Len(segs) = 2 /\ segs[2] = p.target
      /\ IsNumber(p.target) => \A i \in DOMAIN segs : IsNumber(segs[i])
  <2>0. IsNumber(p.port)
    BY DEF FitsText, IsServicePort, PortNumber, IsNumber
  <2>1. CASE p.target = Zero
    <3>1. segs = <<p.port>>
      BY <1>1, <2>1, Segments
    <3> QED
      BY <2>0, <2>1, <3>1, Segments
  <2>2. CASE p.target # Zero
    <3>1. segs = <<p.port, p.target>>
      BY <1>1, <2>2, Segments
    <3> QED
      BY <2>0, <2>2, <3>1, Segments
  <2> QED
    BY <2>1, <2>2
<1>3. PICK text : text = ServicePortString(p)
  OBVIOUS
<1>4. Split(text) = segs /\ ProtocolOf(text) = ShortProtocol(p.protocol)
  <2>1. p.protocol \in {"TCP", "UDP", Empty}
    BY DEF FitsText, AcceptablePort
  <2>2. text = Text(Prefix(Lower(p.protocol)), segs)
    BY <1>1, <1>3 DEF ServicePortString
  <2>3. CASE p.protocol = "UDP"
    <3>1. text = Text("udp", segs)
      BY <2>2, <2>3, Protocols
    <3>2. \A i \in DOMAIN segs : IsNumber(segs[i])
      BY <2>3, <1>2 DEF FitsText
    <3> QED
      BY <2>3, <3>1, <3>2, UDPText DEF ShortProtocol
  <2>4. CASE p.protocol # "UDP"
    <3>1. text = Text(Nil, segs)
      BY <2>1, <2>2, <2>4, ProtocolsComeBack
    <3> QED
      BY <2>4, <3>1, PlainText DEF ShortProtocol
  <2> QED
    BY <2>3, <2>4
<1>5. IsNumber(segs[1])
  <2>1. p.port \in PortNumber
    BY DEF FitsText, IsServicePort
  <2> QED
    BY <1>2, <2>1 DEF PortNumber, IsNumber
<1>6. PICK n : n = Len(segs)
  OBVIOUS
<1>7. (n = 1 \/ n = 2) /\ (IF n = 2 THEN segs[2] ELSE Zero) = p.target
  BY <1>2, <1>6
<1>8. n <= 2
  BY <1>7
<1>9. ServicePortInit(Blank, text) =
        [ok |-> TRUE,
         p  |-> [protocol |-> ShortProtocol(p.protocol), port |-> segs[1],
                 target |-> IF n = 2 THEN segs[2] ELSE Zero]]
  BY <1>4, <1>5, <1>6, <1>8 DEF ServicePortInit, Blank
<1> QED
  BY <1>2, <1>3, <1>7, <1>9

(***************************************************************************)
(* The map of a named port.  It has at most two entries.                   *)
(***************************************************************************)
\* The fold inside InOrder.
IsFold(f, entries, order) ==
  f = [s \in SUBSET DOMAIN order |->
         IF s = {} THEN Blank ELSE ServicePortInit(f[s \ {Max(s)}], entries[order[Max(s)]]).p]

LEMMA InOrderIsFold ==
  ASSUME NEW entries, NEW order, NEW g, IsFold(g, entries, order)
  PROVE  \E f : IsFold(f, entries, order) /\ InOrder(entries, order) = f[DOMAIN order]
<1> DEFINE f == CHOOSE h : h = [s \in SUBSET DOMAIN order |->
                  IF s = {} THEN Blank ELSE ServicePortInit(h[s \ {Max(s)}], entries[order[Max(s)]]).p]
<1>1. f = [s \in SUBSET DOMAIN order |->
             IF s = {} THEN Blank ELSE ServicePortInit(f[s \ {Max(s)}], entries[order[Max(s)]]).p]
  BY DEF IsFold
<1>2. InOrder(entries, order) = f[DOMAIN order]
  BY DEF InOrder, FoldLeft, MapThenFoldSet
<1> HIDE DEF f
<1> QED
  BY <1>1, <1>2 DEF IsFold

LEMMA MaxOfOne ==
  ASSUME NEW n \in Nat
  PROVE  Max({n}) = n
BY DEF Max

LEMMA MaxOfTwo == Max({1, 2}) = 2
BY DEF Max

LEMMA InOrderNone ==
  ASSUME NEW entries, NEW order, DOMAIN order = {}
  PROVE  InOrder(entries, order) = Blank
<1> DEFINE g == [s \in SUBSET DOMAIN order |-> Blank]
<1>1. IsFold(g, entries, order)
  BY DEF IsFold
<1>2. PICK f : IsFold(f, entries, order) /\ InOrder(entries, order) = f[DOMAIN order]
  BY <1>1, InOrderIsFold
<1> QED
  BY <1>2 DEF IsFold

LEMMA InOrderOne ==
  ASSUME NEW entries, NEW order, DOMAIN order = {1}
  PROVE  InOrder(entries, order) = ServicePortInit(Blank, entries[order[1]]).p
<1> DEFINE P1 == ServicePortInit(Blank, entries[order[1]]).p
           g  == [s \in SUBSET {1} |-> IF s = {} THEN Blank ELSE P1]
<1>1. \A s \in SUBSET {1} : s = {} \/ s = {1}
  OBVIOUS
<1>2. Max({1}) = 1 /\ {1} \ {1} = {} /\ {1} # {}
  BY MaxOfOne
<1>3. g[{}] = Blank /\ g[{1}] = P1
  OBVIOUS
<1>4. IsFold(g, entries, order)
  <2>1. ASSUME NEW s \in SUBSET {1}
        PROVE  g[s] = IF s = {} THEN Blank ELSE ServicePortInit(g[s \ {Max(s)}], entries[order[Max(s)]]).p
    <3>1. CASE s = {}
      BY <1>3, <3>1
    <3>2. CASE s = {1}
      <4>1. g[s \ {Max(s)}] = Blank /\ Max(s) = 1 /\ s # {}
        BY <1>2, <1>3, <3>2
      <4>2. g[s] = ServicePortInit(g[s \ {Max(s)}], entries[order[Max(s)]]).p
        BY <1>3, <3>2, <4>1
      <4> QED
        BY <4>1, <4>2
    <3> QED
      BY <1>1, <3>1, <3>2
  <2> HIDE DEF P1
  <2> QED
    BY <2>1 DEF IsFold
<1>5. PICK f : IsFold(f, entries, order) /\ InOrder(entries, order) = f[DOMAIN order]
  <2> HIDE DEF g
  <2> QED
    BY <1>4, InOrderIsFold
<1>6. f[{}] = Blank
  BY <1>5 DEF IsFold
<1>7. f[{1}] = ServicePortInit(f[{1} \ {Max({1})}], entries[order[Max({1})]]).p
  BY <1>2, <1>5 DEF IsFold
<1> QED
  BY <1>2, <1>5, <1>6, <1>7

LEMMA InOrderTwo ==
  ASSUME NEW entries, NEW order, DOMAIN order = {1, 2}
  PROVE  InOrder(entries, order) =
           ServicePortInit(ServicePortInit(Blank, entries[order[1]]).p, entries[order[2]]).p
<1> DEFINE P1  == ServicePortInit(Blank, entries[order[1]]).p
           P2  == ServicePortInit(Blank, entries[order[2]]).p
           P12 == ServicePortInit(P1, entries[order[2]]).p
           g   == [s \in SUBSET {1, 2} |-> IF s = {} THEN Blank ELSE IF s = {1} THEN P1 ELSE IF s = {2} THEN P2 ELSE P12]
<1>1. \A s \in SUBSET {1, 2} : s = {} \/ s = {1} \/ s = {2} \/ s = {1, 2}
  OBVIOUS
<1>2. /\ Max({1}) = 1 /\ Max({2}) = 2 /\ Max({1, 2}) = 2
      /\ {1} \ {1} = {} /\ {2} \ {2} = {} /\ {1, 2} \ {2} = {1}
      /\ {1} # {} /\ {2} # {} /\ {1, 2} # {} /\ {1, 2} # {1} /\ {1, 2} # {2} /\ {1} # {2}
  <2>1. Max({1}) = 1 /\ Max({2}) = 2 /\ Max({1, 2}) = 2
    BY MaxOfOne, MaxOfTwo
  <2>2. /\ {1} \ {1} = {} /\ {2} \ {2} = {} /\ {1, 2} \ {2} = {1}
        /\ {1} # {} /\ {2} # {} /\ {1, 2} # {} /\ {1, 2} # {1} /\ {1, 2} # {2} /\ {1} # {2}
    OBVIOUS
  <2> QED
    BY <2>1, <2>2
<1>3. g[{}] = Blank /\ g[{1}] = P1 /\ g[{2}] = P2 /\ g[{1, 2}] = P12
  <2> HIDE DEF P1, P2, P12
  <2> QED
    BY <1>2
<1>4. IsFold(g, entries, order)
  <2>1. ASSUME NEW s \in SUBSET {1, 2}
        PROVE  g[s] = IF s = {} THEN Blank ELSE ServicePortInit(g[s \ {Max(s)}], entries[order[Max(s)]]).p
    <3>1. CASE s = {}
      BY <1>3, <3>1
    <3>2. CASE s = {1}
      <4>1. g[s \ {Max(s)}] = Blank /\ Max(s) = 1 /\ s # {}
        BY <1>2, <1>3, <3>2
      <4>2. g[s] = ServicePortInit(g[s \ {Max(s)}], entries[order[Max(s)]]).p
        BY <1>3, <3>2, <4>1
      <4> QED
        BY <4>1, <4>2
    <3>3. CASE s = {2}
      <4>1. g[s \ {Max(s)}] = Blank /\ Max(s) = 2 /\ s # {}
        BY <1>2, <1>3, <3>3
      <4>2. g[s] = ServicePortInit(g[s \ {Max(s)}], entries[order[Max(s)]]).p
        BY <1>3, <3>3, <4>1
      <4> QED
        BY <4>1, <4>2
    <3>4. CASE s = {1, 2}
      <4>1. g[s \ {Max(s)}] = P1 /\ Max(s) = 2 /\ s # {}
        BY <1>2, <1>3, <3>4
      <4>2. g[s] = ServicePortInit(g[s \ {Max(s)}], entries[order[Max(s)]]).p
        BY <1>3, <3>4, <4>1
      <4> QED
        BY <4>1, <4>2
    <3> QED
      BY <1>1, <3>1, <3>2, <3>3, <3>4
  <2> HIDE DEF P1, P2, P12
  <2> QED
    BY <2>1 DEF IsFold
<1>5. PICK f : IsFold(f, entries, order) /\ InOrder(entries, order) = f[DOMAIN order]
  <2> HIDE DEF g
  <2> QED
    BY <1>4, InOrderIsFold
<1>6. f[{}] = Blank
  BY <1>5 DEF IsFold
<1>7. f[{1}] = ServicePortInit(f[{1} \ {Max({1})}], entries[order[Max({1})]]).p
  BY <1>2, <1>5 DEF IsFold
<1>8. f[{1, 2}] = ServicePortInit(f[{1, 2} \ {Max({1, 2})}], entries[order[Max({1, 2})]]).p
  BY <1>2, <1>5 DEF IsFold
<1> QED
  BY <1>2, <1>5, <1>6, <1>7, <1>8

\* A service port with the default of the API server.
PortBack(p) ==
  [name |-> p.name, protocol |-> KubeProtocol(p.protocol), port |-> p.port, target |-> p.target, nodePort |-> p.nodePort]

\* The map of a named port is parsed to what it was made from.
LEMMA NamedPortTrip ==
  ASSUME NEW p, FitsText(p)
  PROVE  InitFromMap(convertNamedPort(p)) = {PortBack(p)}
<1>1. PICK e, n, text : e = convertNamedPort(p) /\ n = p.name /\ text = ServicePortString(p)
  OBVIOUS
<1>2. DOMAIN e.entries = {n} /\ e.entries[n] = text /\ e.nodePort = p.nodePort
  BY <1>1 DEF convertNamedPort
<1>3. Cardinality({n}) = 1
  BY FS_Singleton
<1>4. ~(Cardinality(DOMAIN e.entries) + (IF e.nodePort = Zero THEN 0 ELSE 1) > 2)
  BY <1>2, <1>3
<1>5. ASSUME NEW order \in SetToSeqs(DOMAIN e.entries)
      PROVE  order = <<n>>
  <2>1. order \in [1..1 -> {n}]
    BY <1>2, <1>3 DEF SetToSeqs
  <2> QED
    BY <2>1
<1>6. <<n>> \in SetToSeqs(DOMAIN e.entries)
  <2>1. <<n>> \in [1..1 -> {n}]
    OBVIOUS
  <2> QED
    BY <1>2, <1>3, <2>1 DEF SetToSeqs
<1>7. SetToSeqs(DOMAIN e.entries) = {<<n>>}
  BY <1>5, <1>6
<1>8. PICK o : o = <<n>>
  OBVIOUS
<1>9. o # <<>> /\ Last(o) = n /\ DOMAIN o = {1} /\ o[1] = n
  BY <1>8, Segments DEF Last
<1>10. InOrder(e.entries, o) = ServicePortInit(Blank, text).p
  BY <1>2, <1>9, InOrderOne
<1>11. InitFromMap(e) = {KubePort(n, ServicePortInit(Blank, text).p, p.nodePort)}
  <2>1. InitFromMap(e) =
          {KubePort(IF x = <<>> THEN Empty ELSE Last(x), InOrder(e.entries, x), e.nodePort) : x \in {o}}
    BY <1>4, <1>7, <1>8 DEF InitFromMap
  <2>2. InitFromMap(e) = {KubePort(IF o = <<>> THEN Empty ELSE Last(o), InOrder(e.entries, o), e.nodePort)}
    BY <2>1
  <2> QED
    BY <2>2, <1>2, <1>9, <1>10
<1>12. KubePort(n, ServicePortInit(Blank, text).p, p.nodePort) = PortBack(p)
  <2>1. ServicePortInit(Blank, text).p = [protocol |-> ShortProtocol(p.protocol), port |-> p.port, target |-> p.target]
    BY <1>1, ServicePortTrip
  <2>2. Upper(ShortProtocol(p.protocol)) = KubeProtocol(p.protocol)
    BY ProtocolsComeBack DEF FitsText, AcceptablePort
  <2> QED
    BY <1>1, <2>1, <2>2 DEF KubePort, PortBack
<1> QED
  BY <1>1, <1>11, <1>12

\* The port without a name, likewise.
LEMMA UnnamedPortTrip ==
  ASSUME NEW p, FitsText(p), p.name = Empty
  PROVE  /\ ServicePortInit(Blank, ServicePortString(p)).ok
         /\ KubePort(Empty, ServicePortInit(Blank, ServicePortString(p)).p, p.nodePort) = PortBack(p)
<1>1. ServicePortInit(Blank, ServicePortString(p)) =
        [ok |-> TRUE, p |-> [protocol |-> ShortProtocol(p.protocol), port |-> p.port, target |-> p.target]]
  BY ServicePortTrip
<1>2. Upper(ShortProtocol(p.protocol)) = KubeProtocol(p.protocol)
  BY ProtocolsComeBack DEF FitsText, AcceptablePort
<1> QED
  BY <1>1, <1>2 DEF KubePort, PortBack

\* Whatever the text, the port is a number, and a protocol is set.
LEMMA ServicePortInitType ==
  ASSUME NEW p, p.port \in PortNumber, NEW text
  PROVE  ServicePortInit(p, text).p.port \in PortNumber /\ ServicePortInit(p, text).p.protocol \in {"tcp", "udp"}
<1>1. ProtocolOf(text) \in {"tcp", "udp"}
  BY DEF ProtocolOf, MatchesProtocol
<1>2. PICK segs : segs = Split(text)
  OBVIOUS
<1>3. ServicePortInit(p, text).p.protocol = ProtocolOf(text)
  BY DEF ServicePortInit
<1>4. ServicePortInit(p, text).p.port = IF Len(segs) <= 2 /\ IsNumber(segs[1]) THEN segs[1] ELSE p.port
  BY <1>2 DEF ServicePortInit
<1>5. IsNumber(segs[1]) => segs[1] \in PortNumber
  BY DEF IsNumber, PortNumber
<1> QED
  BY <1>1, <1>3, <1>4, <1>5

\* A port without a protocol is one that the API server refuses.
PortNormal(p) == IsServicePort(p) /\ (p.protocol = Empty => p.port = Zero)

LEMMA KubePortNormal ==
  ASSUME NEW name, NEW p, NEW nodePort \in PortNumber, p.port \in PortNumber, p.protocol \in {"tcp", "udp"}
  PROVE  PortNormal(KubePort(name, p, nodePort))
<1>1. Upper(p.protocol) # Empty
  BY Protocols, WordsAssumption
<1> QED
  BY <1>1 DEF PortNormal, IsServicePort, KubePort

LEMMA InitFromMapNormal ==
  ASSUME NEW e, IsFiniteSet(DOMAIN e.entries), e.nodePort \in PortNumber, NEW q \in InitFromMap(e)
  PROVE  PortNormal(q)
<1>1. PICK c : c = Cardinality(DOMAIN e.entries)
  OBVIOUS
<1>2. c \in Nat
  BY <1>1, FS_CardinalityType
<1>3. ~(c + (IF e.nodePort = Zero THEN 0 ELSE 1) > 2)
  BY <1>1 DEF InitFromMap
<1>4. c \in {0, 1, 2}
  BY <1>2, <1>3
<1>5. PICK order \in SetToSeqs(DOMAIN e.entries) :
        q = KubePort(IF order = <<>> THEN Empty ELSE Last(order), InOrder(e.entries, order), e.nodePort)
  BY <1>1, <1>3 DEF InitFromMap
<1>6. order \in [1..c -> DOMAIN e.entries]
  BY <1>1, <1>5 DEF SetToSeqs
<1>7. PICK name : name = IF order = <<>> THEN Empty ELSE Last(order)
  OBVIOUS
<1>8. PICK p : p = InOrder(e.entries, order)
  OBVIOUS
<1>9. q = KubePort(name, p, e.nodePort)
  BY <1>5, <1>7, <1>8
<1>10. Zero \in PortNumber /\ Blank.port = Zero /\ Blank.protocol = Empty
  BY DEF PortNumber, Blank
<1>11. CASE c = 0
  <2>1. DOMAIN order = {}
    BY <1>6, <1>11
  <2>2. p = Blank
    BY <1>8, <2>1, InOrderNone
  <2> QED
    BY <1>9, <1>10, <2>2 DEF PortNormal, IsServicePort, KubePort
<1>12. CASE c = 1
  <2>1. DOMAIN order = {1}
    BY <1>6, <1>12
  <2>2. p.port \in PortNumber /\ p.protocol \in {"tcp", "udp"}
    BY <1>8, <1>10, <2>1, InOrderOne, ServicePortInitType
  <2> QED
    BY <1>9, <2>2, KubePortNormal
<1>13. CASE c = 2
  <2>1. DOMAIN order = {1, 2}
    BY <1>6, <1>13
  <2>2. PICK b : b = ServicePortInit(Blank, e.entries[order[1]]).p
    OBVIOUS
  <2>3. b.port \in PortNumber
    BY <1>10, <2>2, ServicePortInitType
  <2>4. p = ServicePortInit(b, e.entries[order[2]]).p
    BY <1>8, <2>1, <2>2, InOrderTwo
  <2>5. p.port \in PortNumber /\ p.protocol \in {"tcp", "udp"}
    BY <2>3, <2>4, ServicePortInitType
  <2> QED
    BY <1>9, <2>5, KubePortNormal
<1> QED
  BY <1>4, <1>11, <1>12, <1>13

PortsBack(ports) == [i \in DOMAIN ports |-> PortBack(ports[i])]

\* The ports of a service come back, whichever of the two forms they have
\* in Short.
LEMMA PortsTrip ==
  ASSUME NEW ports, IsList(ports), \A i \in DOMAIN ports : FitsText(ports[i]),
         NEW d, d.port = convertPorts(ports).port, d.nodePort = convertPorts(ports).nodePort,
         d.ports = convertPorts(ports).ports
  PROVE  Unmarshals(d) /\ revertPorts(d) = {PortsBack(ports)}
<1>0. Len(ports) \in Nat /\ DOMAIN ports = 1..Len(ports)
  BY ListDomain
<1>1. CASE Len(ports) = 1 /\ ports[1].name = Empty
  <2>1. PICK p, text : p = ports[1] /\ text = ServicePortString(p)
    OBVIOUS
  <2>2. d.port = {text} /\ d.nodePort = p.nodePort /\ d.ports = <<>>
    BY <1>1, <2>1 DEF convertPorts
  <2>3. DOMAIN ports = {1} /\ FitsText(p) /\ p.name = Empty
    BY <1>0, <1>1, <2>1
  <2>4. /\ ServicePortInit(Blank, text).ok
        /\ KubePort(Empty, ServicePortInit(Blank, text).p, p.nodePort) = PortBack(p)
    BY <2>1, <2>3, UnnamedPortTrip
  <2>5. Unmarshals(d)
    BY <2>2, <2>4 DEF Unmarshals
  <2>6. revertPorts(d) = {<<PortBack(p)>>}
    BY <2>2, <2>4 DEF revertPorts
  <2>7. PortsBack(ports) = <<PortBack(p)>>
    <3>1. PICK q : q = PortBack(p)
      OBVIOUS
    <3>2. PortsBack(ports) = [i \in {1} |-> q]
      BY <2>1, <2>3, <3>1 DEF PortsBack
    <3>3. [i \in {1} |-> q] = <<q>>
      OBVIOUS
    <3> QED
      BY <3>1, <3>2, <3>3
  <2> QED
    BY <2>5, <2>6, <2>7
<1>2. CASE ~(Len(ports) = 1 /\ ports[1].name = Empty)
  <2>1. d.port = {} /\ d.ports = [i \in DOMAIN ports |-> convertNamedPort(ports[i])]
    BY <1>2 DEF convertPorts
  <2>2. ASSUME NEW i \in DOMAIN ports
        PROVE  InitFromMap(d.ports[i]) = {PortBack(ports[i])}
    BY <2>1, <2>2, NamedPortTrip
  <2>3. Unmarshals(d)
    BY <2>1, <2>2 DEF Unmarshals
  <2> DEFINE results == [i \in DOMAIN d.ports |-> InitFromMap(d.ports[i])]
             s == PortsBack(ports)
  <2>4. DOMAIN results = DOMAIN ports /\ s = [i \in DOMAIN ports |-> s[i]]
    BY <2>1 DEF PortsBack
  <2>5. \A i \in DOMAIN results : results[i] = {s[i]}
    BY <2>1, <2>2 DEF PortsBack
  <2>6. AllOf(results) = {s}
    <3> HIDE DEF results, s
    <3> QED
      BY <2>4, <2>5, AllOfOne
  <2> QED
    BY <2>1, <2>3, <2>6 DEF revertPorts
<1> QED
  BY <1>1, <1>2

-----------------------------------------------------------------------------
(***************************************************************************)
(* Container ports                                                         *)
(***************************************************************************)
ContainerFitsText(p) == IsContainerPort(p) /\ p.containerPort # Zero /\ AcceptablePort(p) /\ p.hostIP = Empty

ContainerBack(p) ==
  [name |-> p.name, protocol |-> KubeProtocol(p.protocol), hostIP |-> p.hostIP,
   hostPort |-> p.hostPort, containerPort |-> p.containerPort]

\* A container port is parsed to what it was printed from.
LEMMA ContainerPortTrip ==
  ASSUME NEW p, ContainerFitsText(p)
  PROVE  revertExposed(convertContainerPort(p)) = {ContainerBack(p)}
<1>1. PICK h, c : h = p.hostPort /\ c = p.containerPort
  OBVIOUS
<1>2. h \in PortNumber /\ c \in Number /\ c # Zero
  BY <1>1 DEF ContainerFitsText, IsContainerPort, PortNumber
<1>3. p.protocol \in {"TCP", "UDP", Empty} /\ p.hostIP = Empty /\ Empty # Addr6
  BY SegmentsAssumption DEF ContainerFitsText, AcceptablePort
<1>4. PICK segs : segs = IF h = Zero THEN <<c>> ELSE <<h, c>>
  OBVIOUS
<1>5. /\ IsNumber(segs[1]) /\ segs[1] \notin Addr /\ \A i \in DOMAIN segs : IsNumber(segs[i])
      /\ h = Zero => Len(segs) = 1 /\ segs[1] = c
      /\ h # Zero => Len(segs) = 2 /\ segs[1] = h /\ segs[2] = c
  <2>1. CASE h = Zero
    <3>1. segs = <<c>>
      BY <1>4, <2>1
    <3> QED
      BY <1>2, <2>1, <3>1, Segments, SegmentsAssumption DEF IsNumber
  <2>2. CASE h # Zero
    <3>1. segs = <<h, c>>
      BY <1>4, <2>2
    <3>2. h \in Number
      BY <1>2, <2>2 DEF PortNumber
    <3> QED
      BY <1>2, <2>2, <3>1, <3>2, Segments, SegmentsAssumption DEF IsNumber
  <2> QED
    BY <2>1, <2>2
<1>6. NonZero(c) = c /\ IfSet(c) = <<c>> /\ IfSet(NonZero(h)) = (IF h = Zero THEN <<>> ELSE <<h>>)
  BY <1>2, SegmentsAssumption DEF NonZero, IfSet, PortNumber
<1>7. PICK text : text = Text(Prefix(Lower(p.protocol)), segs)
  OBVIOUS
<1>8. convertContainerPort(p) = [name |-> p.name, text |-> text]
  <2>1. IfSet(p.hostIP) = <<>>
    BY <1>3 DEF IfSet
  <2>2. (<<>> \o IfSet(NonZero(h))) \o IfSet(NonZero(c)) = segs
    <3>1. CASE h = Zero
      BY <1>4, <1>6, <3>1, Segments
    <3>2. CASE h # Zero
      BY <1>4, <1>6, <3>2, Segments
    <3> QED
      BY <3>1, <3>2
  <2>3. segs # <<>>
    BY <1>4, Segments
  <2>4. PortToString([protocol |-> Lower(p.protocol), hostIP |-> p.hostIP,
                      hostPort |-> NonZero(h), containerPort |-> NonZero(c)]) = text
    BY <1>3, <1>7, <2>1, <2>2, <2>3 DEF PortToString
  <2> QED
    BY <1>1, <2>4 DEF convertContainerPort
<1>9. Split(text) = segs /\ ProtocolOf(text) = ShortProtocol(p.protocol)
  <2>1. CASE p.protocol = "UDP"
    BY <1>5, <1>7, <2>1, Protocols, UDPText DEF ShortProtocol
  <2>2. CASE p.protocol # "UDP"
    <3>1. text = Text(Nil, segs)
      BY <1>3, <1>7, <2>2, ProtocolsComeBack
    <3> QED
      BY <2>2, <3>1, PlainText DEF ShortProtocol
  <2> QED
    BY <2>1, <2>2
<1>10. PICK n : n = Len(segs)
  OBVIOUS
<1>11. n \in {1, 2}
  BY <1>5, <1>10
<1>12. PICK port : port = [protocol |-> ShortProtocol(p.protocol), hostIP |-> Empty,
                           hostPort |-> IF n = 2 THEN segs[1] ELSE Empty, containerPort |-> segs[n]]
  OBVIOUS
<1>13. PortInitFromString(text) = {port}
  BY <1>5, <1>9, <1>10, <1>11, <1>12 DEF PortInitFromString, Last
<1>14. PortInt(port.hostPort) = {h} /\ PortInt(port.containerPort) = {c}
  <2>1. port.containerPort = c /\ port.hostPort = IF h = Zero THEN Empty ELSE h
    BY <1>5, <1>10, <1>12
  <2> QED
    BY <1>2, <2>1, SegmentsAssumption DEF PortInt, PortNumber, IsNumber
<1>15. Upper(port.protocol) = KubeProtocol(p.protocol)
  BY <1>3, <1>12, ProtocolsComeBack
<1>16. revertExposed([name |-> p.name, text |-> text]) =
         {[name |-> p.name, protocol |-> Upper(port.protocol), hostIP |-> Empty, hostPort |-> h, containerPort |-> c]}
  BY <1>13, <1>14 DEF revertExposed
<1> QED
  BY <1>1, <1>3, <1>8, <1>15, <1>16 DEF ContainerBack

\* Whatever the text, the ports are numbers and a protocol is set.
LEMMA ExposedNormal ==
  ASSUME NEW e, NEW q \in revertExposed(e)
  PROVE  IsContainerPort(q) /\ q.protocol # Empty
<1>1. PICK p \in PortInitFromString(e.text) : \E h \in PortInt(p.hostPort), c \in PortInt(p.containerPort) :
        q = [name |-> e.name, protocol |-> Upper(p.protocol), hostIP |-> Empty, hostPort |-> h, containerPort |-> c]
  BY DEF revertExposed
<1>2. PICK h \in PortInt(p.hostPort), c \in PortInt(p.containerPort) :
        q = [name |-> e.name, protocol |-> Upper(p.protocol), hostIP |-> Empty, hostPort |-> h, containerPort |-> c]
  BY <1>1
<1>3. h \in PortNumber /\ c \in PortNumber
  BY DEF PortInt, PortNumber, IsNumber
<1>4. p.protocol \in {"tcp", "udp"}
  <2>1. p.protocol = ProtocolOf(e.text)
    BY DEF PortInitFromString
  <2> QED
    BY <2>1 DEF ProtocolOf, MatchesProtocol
<1>5. Upper(p.protocol) # Empty
  BY <1>4, Protocols, WordsAssumption
<1> QED
  BY <1>2, <1>3, <1>5 DEF IsContainerPort

-----------------------------------------------------------------------------
(***************************************************************************)
(* Ports of Endpoints                                                      *)
(***************************************************************************)
EndpointBack(p) == [name |-> p.name, protocol |-> KubeProtocol(p.protocol), port |-> p.port]

LEMMA EndpointPortTrip ==
  ASSUME NEW p, IsEndpointPort(p), AcceptablePort(p)
  PROVE  revertEndpointPort(convertEndpointPort(p)) = {EndpointBack(p)}
<1>1. PICK segs, n : segs = (IF p.name = Empty THEN <<p.port>> ELSE <<p.port, p.name>>) /\ n = Len(segs)
  OBVIOUS
<1>2. /\ segs[1] = p.port
      /\ n = 1 \/ n = 2
      /\ (IF n = 2 THEN segs[2] ELSE Empty) = p.name
  BY <1>1, Segments
<1>3. PICK prefix : prefix = ShortProtocol(p.protocol)
  OBVIOUS
<1>4. convertEndpointPort(p) = Text(prefix, segs)
  <2>1. <<p.port>> \o IfSet(p.name) = segs
    <3>1. CASE p.name = Empty
      BY <1>1, <3>1, Segments DEF IfSet
    <3>2. CASE p.name # Empty
      BY <1>1, <3>2, Segments DEF IfSet
    <3> QED
      BY <3>1, <3>2
  <2>2. (IF p.protocol = Empty THEN "tcp" ELSE Lower(p.protocol)) = prefix
    BY <1>3, Protocols, WordsAssumption DEF AcceptablePort, ShortProtocol
  <2> QED
    BY <2>1, <2>2 DEF convertEndpointPort
<1>5. Lower(prefix) = prefix /\ prefix \in {"tcp", "udp"} /\ Upper(prefix) = KubeProtocol(p.protocol)
  BY <1>3, Protocols, ProtocolsComeBack DEF ShortProtocol, AcceptablePort
<1>6. IsNumber(segs[1]) /\ ~(n > 2)
  BY <1>2 DEF IsEndpointPort, PortNumber, IsNumber
<1>7. PICK text : text = Text(prefix, segs)
  OBVIOUS
<1>8. text.prefix = prefix /\ text.segs = segs
  BY <1>7 DEF Text
<1>9. revertEndpointPort(text) =
        {[protocol |-> Upper(prefix), port |-> segs[1], name |-> IF n = 2 THEN segs[2] ELSE Empty]}
  BY <1>1, <1>5, <1>6, <1>8 DEF revertEndpointPort
<1> QED
  BY <1>2, <1>4, <1>5, <1>7, <1>9 DEF EndpointBack

LEMMA EndpointNormal ==
  ASSUME NEW text, NEW q \in revertEndpointPort(text)
  PROVE  IsEndpointPort(q) /\ q.protocol # Empty
<1>1. Lower(text.prefix) \in {"tcp", "udp"} /\ IsNumber(text.segs[1])
  BY DEF revertEndpointPort
<1>2. PICK name : q = [protocol |-> Upper(Lower(text.prefix)), port |-> text.segs[1], name |-> name]
  BY DEF revertEndpointPort
<1>3. Upper(Lower(text.prefix)) # Empty
  BY <1>1, Protocols, WordsAssumption
<1> QED
  BY <1>1, <1>2, <1>3 DEF IsEndpointPort, IsNumber, PortNumber

SubsetBack(s) == [addrs |-> s.addrs, ports |-> [i \in DOMAIN s.ports |-> EndpointBack(s.ports[i])]]

LEMMA SubsetTrip ==
  ASSUME NEW s, IsSubset(s), \A i \in DOMAIN s.ports : AcceptablePort(s.ports[i])
  PROVE  RevertSubset(ConvertSubset(s)) = {SubsetBack(s)}
<1>1. PICK k : k = ConvertSubset(s)
  OBVIOUS
<1>2. k.addrs = s.addrs /\ k.ports = [i \in DOMAIN s.ports |-> convertEndpointPort(s.ports[i])]
  BY <1>1 DEF ConvertSubset
<1>3. ASSUME NEW i \in DOMAIN s.ports
      PROVE  revertEndpointPort(k.ports[i]) = {EndpointBack(s.ports[i])}
  <2>1. IsEndpointPort(s.ports[i])
    BY DEF IsSubset
  <2> QED
    BY <1>2, <2>1, EndpointPortTrip
<1> DEFINE results == [i \in DOMAIN k.ports |-> revertEndpointPort(k.ports[i])]
           t == [i \in DOMAIN s.ports |-> EndpointBack(s.ports[i])]
<1>4. DOMAIN results = DOMAIN s.ports /\ t = [i \in DOMAIN s.ports |-> t[i]]
  BY <1>2
<1>5. \A i \in DOMAIN results : results[i] = {t[i]}
  BY <1>2, <1>3
<1>6. AllOf(results) = {t}
  <2> HIDE DEF results, t
  <2> QED
    BY <1>4, <1>5, AllOfOne
<1>7. RevertSubset(k) = {[addrs |-> s.addrs, ports |-> t]}
  BY <1>2, <1>6 DEF RevertSubset
<1> QED
  BY <1>1, <1>7 DEF SubsetBack

SubsetNormal(s) == IsSubset(s) /\ \A i \in DOMAIN s.ports : s.ports[i].protocol # Empty

LEMMA RevertSubsetNormal ==
  ASSUME NEW k, IsList(k.ports), NEW s \in RevertSubset(k)
  PROVE  SubsetNormal(s)
<1> DEFINE results == [i \in DOMAIN k.ports |-> revertEndpointPort(k.ports[i])]
<1>1. PICK ports \in AllOf(results) : s = [addrs |-> k.addrs, ports |-> ports]
  BY DEF RevertSubset
<1>2. DOMAIN results = DOMAIN k.ports /\ \A i \in DOMAIN k.ports : results[i] = revertEndpointPort(k.ports[i])
  OBVIOUS
<1> HIDE DEF results
<1>3. ports = [i \in DOMAIN k.ports |-> ports[i]] /\ \A i \in DOMAIN k.ports : ports[i] \in results[i]
  BY <1>1, <1>2, AllOfEach
<1>4. IsList(ports) /\ DOMAIN ports = DOMAIN k.ports
  BY <1>3, Mapped
<1>5. \A i \in DOMAIN ports : IsEndpointPort(ports[i]) /\ ports[i].protocol # Empty
  BY <1>2, <1>3, <1>4, EndpointNormal
<1> QED
  BY <1>1, <1>4, <1>5 DEF SubsetNormal, IsSubset

-----------------------------------------------------------------------------
(***************************************************************************)
(* Services                                                                *)
(***************************************************************************)
\* The types of a service, and the policies, are those of the two tables.
LEMMA ServiceTypeTrip ==
  ASSUME NEW type \in {Empty, "ClusterIP", "NodePort", "LoadBalancer"}
  PROVE  \E k : /\ convertServiceType(type) = {k}
                /\ revertServiceType(k) = {IF type = Empty THEN "ClusterIP" ELSE type}
                /\ k = "load-balancer" <=> type = "LoadBalancer"
<1>0. /\ DOMAIN KokiTypes = {"ClusterIP", "NodePort", "LoadBalancer"}
      /\ KokiTypes["ClusterIP"] = "cluster-ip" /\ KokiTypes["NodePort"] = "node-port"
      /\ KokiTypes["LoadBalancer"] = "load-balancer"
  BY DEF KokiTypes
<1>1. CASE type = Empty
  <2>1. convertServiceType(type) = {Empty} /\ revertServiceType(Empty) = {"ClusterIP"}
    BY <1>1 DEF convertServiceType, revertServiceType
  <2> QED
    BY <1>1, <2>1, WordsAssumption
<1>2. CASE type = "ClusterIP"
  <2>1. convertServiceType(type) = {"cluster-ip"}
    BY <1>0, <1>2, WordsAssumption DEF convertServiceType
  <2>2. revertServiceType("cluster-ip") = {"ClusterIP"}
    BY <1>0, WordsAssumption DEF revertServiceType
  <2> QED
    BY <1>2, <2>1, <2>2, WordsAssumption
<1>3. CASE type = "NodePort"
  <2>1. convertServiceType(type) = {"node-port"}
    BY <1>0, <1>3, WordsAssumption DEF convertServiceType
  <2>2. revertServiceType("node-port") = {"NodePort"}
    BY <1>0, WordsAssumption DEF revertServiceType
  <2> QED
    BY <1>3, <2>1, <2>2, WordsAssumption
<1>4. CASE type = "LoadBalancer"
  <2>1. convertServiceType(type) = {"load-balancer"}
    BY <1>0, <1>4, WordsAssumption DEF convertServiceType
  <2>2. revertServiceType("load-balancer") = {"LoadBalancer"}
    BY <1>0, WordsAssumption DEF revertServiceType
  <2> QED
    BY <1>4, <2>1, <2>2, WordsAssumption
<1> QED
  BY <1>1, <1>2, <1>3, <1>4

LEMMA PolicyTrip ==
  ASSUME NEW policy \in {Empty, "Local", "Cluster"}
  PROVE  \E k : convertExternalTrafficPolicy(policy) = {k} /\ revertExternalTrafficPolicy(k) = {policy}
<1>0. /\ DOMAIN KokiPolicies = {"Local", "Cluster"}
      /\ KokiPolicies["Local"] = "node-local" /\ KokiPolicies["Cluster"] = "cluster-wide"
  BY DEF KokiPolicies
<1>1. CASE policy = Empty
  BY <1>1 DEF convertExternalTrafficPolicy, revertExternalTrafficPolicy
<1>2. CASE policy = "Local"
  <2>1. convertExternalTrafficPolicy(policy) = {"node-local"}
    BY <1>0, <1>2, WordsAssumption DEF convertExternalTrafficPolicy
  <2>2. revertExternalTrafficPolicy("node-local") = {"Local"}
    BY <1>0, WordsAssumption DEF revertExternalTrafficPolicy
  <2> QED
    BY <1>2, <2>1, <2>2
<1>3. CASE policy = "Cluster"
  <2>1. convertExternalTrafficPolicy(policy) = {"cluster-wide"}
    BY <1>0, <1>3, WordsAssumption DEF convertExternalTrafficPolicy
  <2>2. revertExternalTrafficPolicy("cluster-wide") = {"Cluster"}
    BY <1>0, WordsAssumption DEF revertExternalTrafficPolicy
  <2> QED
    BY <1>3, <2>1, <2>2
<1> QED
  BY <1>1, <1>2, <1>3

AffinityBack(d) == [affinity |-> IF d.affinity = "ClientIP" THEN "ClientIP" ELSE Empty, timeout |-> d.timeout]

LEMMA AffinityTrip ==
  ASSUME NEW d, d.timeout # Nil => d.affinity = "ClientIP", d.timeout \notin {"true", "false"}
  PROVE  revertSessionAffinity(convertSessionAffinity(d)) = AffinityBack(d)
<1>1. Nil \notin {"true", "false"}
  BY WordsAssumption
<1>2. CASE d.affinity # "ClientIP"
  BY <1>1, <1>2 DEF revertSessionAffinity, convertSessionAffinity, AffinityBack
<1>3. CASE d.affinity = "ClientIP" /\ d.timeout = Nil
  BY <1>1, <1>3 DEF revertSessionAffinity, convertSessionAffinity, AffinityBack
<1>4. CASE d.affinity = "ClientIP" /\ d.timeout # Nil
  BY <1>1, <1>4 DEF revertSessionAffinity, convertSessionAffinity, AffinityBack
<1> QED
  BY <1>2, <1>3, <1>4

LEMMA IngressTrip ==
  ASSUME NEW g, IsIngress(g), (g.ip = Empty) # (g.hostname = Empty),
         g.ip \in Addr \cup {Addr6, Empty}, g.hostname \notin Addr \cup {Addr6}
  PROVE  IngressInitFromString(IngressString(g)) = g
<1>1. CASE g.ip = Empty
  BY <1>1, SegmentsAssumption DEF IngressInitFromString, IngressString, IsIngress
<1>2. CASE g.ip # Empty
  BY <1>2, SegmentsAssumption DEF IngressInitFromString, IngressString, IsIngress
<1> QED
  BY <1>1, <1>2

ServiceBack(d) ==
  KubeService(IF d.type = Empty THEN "ClusterIP" ELSE d.type, d.cname, d.fixed, AffinityBack(d), d.policy,
              PortsBack(d.ports), d.lb, d.ingress)

ServiceFitsText(d) ==
  /\ IsKube(d) /\ d.kind = "service" /\ AcceptableService(d)
  /\ \A i \in DOMAIN d.ports : d.ports[i].protocol = "UDP" => IsNumber(d.ports[i].target)

\* What is left of an ExternalName service is its name.
LEMMA ExternalNameTrip ==
  ASSUME NEW d, ServiceFitsText(d), d.type = "ExternalName"
  PROVE  \E k : ConvertService(d) = {k} /\ k.kind = "service" /\ RevertService(k) = {ServiceBack(d)}
<1>1. PICK k : k = KokiService(Empty, d.cname, {}, Nil, Empty, convertPorts(<<>>), {}, <<>>)
  OBVIOUS
<1>2. ConvertService(d) = {k}
  BY <1>1 DEF ConvertService
<1>3. convertPorts(<<>>) = [port |-> {}, nodePort |-> Zero, ports |-> <<>>]
  BY DEF convertPorts
<1>4. k.cname = d.cname /\ k.port = {} /\ k.ports = <<>> /\ k.kind = "service"
  BY <1>1, <1>3 DEF KokiService
<1>5. Unmarshals(k)
  BY <1>4 DEF Unmarshals
<1>6. /\ d.cname # Empty /\ d.fixed = {} /\ d.ports = <<>> /\ d.affinity # "ClientIP" /\ d.policy = Empty
      /\ d.lb = {} /\ d.ingress = <<>> /\ d.timeout = Nil
  BY DEF ServiceFitsText, AcceptableService
<1>7. revertSessionAffinity(Nil) = AffinityBack(d)
  BY <1>6 DEF revertSessionAffinity, AffinityBack
<1>8. PortsBack(<<>>) = <<>>
  BY DEF PortsBack
<1>9. RevertService(k) = {KubeService("ExternalName", d.cname, {}, revertSessionAffinity(Nil), Empty, <<>>, {}, <<>>)}
  BY <1>4, <1>5, <1>6 DEF RevertService
<1>10. ServiceBack(d) = KubeService("ExternalName", d.cname, {}, AffinityBack(d), Empty, <<>>, {}, <<>>)
  BY <1>6, <1>8, WordsAssumption DEF ServiceBack
<1> QED
  BY <1>2, <1>4, <1>7, <1>9, <1>10

\* Every other service comes back with its type, ports, policy and affinity.
LEMMA ServiceTrip ==
  ASSUME NEW d, ServiceFitsText(d), d.type # "ExternalName"
  PROVE  \E k : ConvertService(d) = {k} /\ k.kind = "service" /\ RevertService(k) = {ServiceBack(d)}
<1>1. /\ d.type \in {Empty, "ClusterIP", "NodePort", "LoadBalancer"} /\ d.policy \in {Empty, "Local", "Cluster"}
      /\ d.cname = Empty
  <2>1. DOMAIN KokiTypes = {"ClusterIP", "NodePort", "LoadBalancer"} /\ DOMAIN KokiPolicies = {"Local", "Cluster"}
    BY DEF KokiTypes, KokiPolicies
  <2> QED
    BY <2>1 DEF ServiceFitsText, AcceptableService
<1>2. PICK type : /\ convertServiceType(d.type) = {type}
                  /\ revertServiceType(type) = {IF d.type = Empty THEN "ClusterIP" ELSE d.type}
                  /\ type = "load-balancer" <=> d.type = "LoadBalancer"
  BY <1>1, ServiceTypeTrip
<1>3. PICK policy : convertExternalTrafficPolicy(d.policy) = {policy} /\ revertExternalTrafficPolicy(policy) = {d.policy}
  BY <1>1, PolicyTrip
<1>4. PICK ingress : ingress = [i \in DOMAIN d.ingress |-> IngressString(d.ingress[i])]
  OBVIOUS
<1>5. /\ IsList(d.ports) /\ \A i \in DOMAIN d.ports : FitsText(d.ports[i])
      /\ IsList(d.ingress) /\ \A i \in DOMAIN d.ingress : IsIngress(d.ingress[i])
      /\ d.timeout \notin {"true", "false"}
  BY DEF ServiceFitsText, IsKube, FitsText, AcceptableService
<1>6. /\ \A i \in DOMAIN d.ingress :
           /\ (d.ingress[i].ip = Empty) # (d.ingress[i].hostname = Empty)
           /\ d.ingress[i].ip \in Addr \cup {Addr6, Empty}
           /\ d.ingress[i].hostname \notin Addr \cup {Addr6}
      /\ d.timeout # Nil => d.affinity = "ClientIP"
      /\ d.type # "LoadBalancer" => d.lb = {} /\ d.ingress = <<>>
  BY DEF ServiceFitsText, AcceptableService
<1>7. PICK k : k = KokiService(type, Empty, d.fixed, convertSessionAffinity(d), policy, convertPorts(d.ports), d.lb, ingress)
  OBVIOUS
<1>8. ConvertService(d) = {k}
  <2>1. PICK mine : mine = IF d.type = "LoadBalancer" THEN d.ingress ELSE <<>>
    OBVIOUS
  <2>2. mine = d.ingress /\ (IF d.type = "LoadBalancer" THEN d.lb ELSE {}) = d.lb
    BY <1>6, <2>1
  <2>3. ~(\E i \in DOMAIN mine : mine[i].ip \notin Addr \cup {Addr6, Empty})
    BY <1>6, <2>2
  <2>4. ConvertService(d) =
          {KokiService(t, Empty, d.fixed, convertSessionAffinity(d), p, convertPorts(d.ports),
                       IF d.type = "LoadBalancer" THEN d.lb ELSE {}, [i \in DOMAIN mine |-> IngressString(mine[i])]) :
             t \in convertServiceType(d.type), p \in convertExternalTrafficPolicy(d.policy)}
    BY <2>1, <2>3 DEF ConvertService
  <2>5. ConvertService(d) = {KokiService(t, Empty, d.fixed, convertSessionAffinity(d), p, convertPorts(d.ports),
                                         d.lb, ingress) : t \in {type}, p \in {policy}}
    BY <2>4, <2>2, <1>2, <1>3, <1>4
  <2> QED
    BY <2>5, <1>7
<1>9. /\ k.type = type /\ k.cname = Empty /\ k.fixed = d.fixed /\ k.stickiness = convertSessionAffinity(d)
      /\ k.policy = policy /\ k.lb = d.lb /\ k.ingress = ingress /\ k.kind = "service"
      /\ k.port = convertPorts(d.ports).port /\ k.nodePort = convertPorts(d.ports).nodePort
      /\ k.ports = convertPorts(d.ports).ports
  BY <1>7 DEF KokiService
<1>10. Unmarshals(k) /\ revertPorts(k) = {PortsBack(d.ports)}
  BY <1>5, <1>9, PortsTrip
<1>11. revertSessionAffinity(k.stickiness) = AffinityBack(d)
  BY <1>5, <1>6, <1>9, AffinityTrip
<1>12. [i \in DOMAIN k.ingress |-> IngressInitFromString(k.ingress[i])] = d.ingress
  <2>1. DOMAIN ingress = DOMAIN d.ingress
    BY <1>4
  <2>2. \A i \in DOMAIN d.ingress : IngressInitFromString(ingress[i]) = d.ingress[i]
    BY <1>4, <1>5, <1>6, IngressTrip
  <2>3. [i \in DOMAIN ingress |-> IngressInitFromString(ingress[i])] = [i \in DOMAIN d.ingress |-> d.ingress[i]]
    BY <2>1, <2>2
  <2>4. d.ingress = [i \in DOMAIN d.ingress |-> d.ingress[i]]
    BY <1>5, ListDomain DEF IsList
  <2> QED
    BY <1>9, <2>3, <2>4
<1>13. RevertService(k) = {ServiceBack(d)}
  <2>1. PICK theirs : theirs = [i \in DOMAIN k.ingress |-> IngressInitFromString(k.ingress[i])]
    OBVIOUS
  <2>2. RevertService(k) =
          {KubeService(t, Empty, k.fixed, revertSessionAffinity(k.stickiness), p, ports,
                       IF k.type = "load-balancer" THEN k.lb ELSE {}, IF k.type = "load-balancer" THEN theirs ELSE <<>>) :
             t \in revertServiceType(k.type), p \in revertExternalTrafficPolicy(k.policy), ports \in revertPorts(k)}
    BY <1>9, <1>10, <2>1 DEF RevertService
  <2>3. /\ (IF k.type = "load-balancer" THEN k.lb ELSE {}) = d.lb
        /\ (IF k.type = "load-balancer" THEN theirs ELSE <<>>) = d.ingress
    BY <1>2, <1>6, <1>9, <1>12, <2>1
  <2>4. RevertService(k) =
          {KubeService(t, Empty, d.fixed, AffinityBack(d), p, ports, d.lb, d.ingress) :
             t \in {IF d.type = Empty THEN "ClusterIP" ELSE d.type}, p \in {d.policy}, ports \in {PortsBack(d.ports)}}
    BY <2>2, <2>3, <1>2, <1>3, <1>9, <1>10, <1>11
  <2> QED
    BY <1>1, <2>4 DEF ServiceBack
<1> QED
  BY <1>8, <1>9, <1>13

-----------------------------------------------------------------------------
(***************************************************************************)
(* The defaults of the API server                                          *)
(***************************************************************************)
\* A default is given once.
LEMMA KubeProtocolOnce ==
  ASSUME NEW protocol
  PROVE  KubeProtocol(KubeProtocol(protocol)) = KubeProtocol(protocol)
BY WordsAssumption DEF KubeProtocol

LEMMA ServicePortsDefaulted ==
  ASSUME NEW ports, \A i \in DOMAIN ports : IsServicePort(ports[i])
  PROVE  WithTCP(ports) = PortsBack(ports) /\ WithTCP(PortsBack(ports)) = PortsBack(ports)
<1>1. ASSUME NEW p, IsServicePort(p)
      PROVE  [p EXCEPT !.protocol = IF @ = Empty THEN "TCP" ELSE @] = PortBack(p)
  <2>1. PICK name, protocol, port, target, nodePort :
          p = [name |-> name, protocol |-> protocol, port |-> port, target |-> target, nodePort |-> nodePort]
    BY <1>1 DEF IsServicePort
  <2> QED
    BY <2>1 DEF PortBack, KubeProtocol
<1>2. ASSUME NEW p
      PROVE  [PortBack(p) EXCEPT !.protocol = IF @ = Empty THEN "TCP" ELSE @] = PortBack(p)
  <2>1. PICK protocol : protocol = KubeProtocol(p.protocol)
    OBVIOUS
  <2>2. KubeProtocol(protocol) = protocol
    BY <2>1, KubeProtocolOnce
  <2> QED
    BY <2>1, <2>2 DEF PortBack, KubeProtocol
<1>3. WithTCP(ports) = PortsBack(ports)
  BY <1>1 DEF WithTCP, PortsBack
<1>4. WithTCP(PortsBack(ports)) = PortsBack(ports)
  BY <1>2 DEF WithTCP, PortsBack
<1> QED
  BY <1>3, <1>4

ContainersBack(ports) == [i \in DOMAIN ports |-> ContainerBack(ports[i])]

LEMMA ContainerPortsDefaulted ==
  ASSUME NEW ports, \A i \in DOMAIN ports : IsContainerPort(ports[i])
  PROVE  WithTCP(ports) = ContainersBack(ports) /\ WithTCP(ContainersBack(ports)) = ContainersBack(ports)
<1>1. ASSUME NEW p, IsContainerPort(p)
      PROVE  [p EXCEPT !.protocol = IF @ = Empty THEN "TCP" ELSE @] = ContainerBack(p)
  <2>1. PICK name, protocol, hostIP, hostPort, containerPort :
          p = [name |-> name, protocol |-> protocol, hostIP |-> hostIP, hostPort |-> hostPort, containerPort |-> containerPort]
    BY <1>1 DEF IsContainerPort
  <2> QED
    BY <2>1 DEF ContainerBack, KubeProtocol
<1>2. ASSUME NEW p
      PROVE  [ContainerBack(p) EXCEPT !.protocol = IF @ = Empty THEN "TCP" ELSE @] = ContainerBack(p)
  <2>1. PICK protocol : protocol = KubeProtocol(p.protocol)
    OBVIOUS
  <2>2. KubeProtocol(protocol) = protocol
    BY <2>1, KubeProtocolOnce
  <2> QED
    BY <2>1, <2>2 DEF ContainerBack, KubeProtocol
<1>3. WithTCP(ports) = ContainersBack(ports)
  BY <1>1 DEF WithTCP, ContainersBack
<1>4. WithTCP(ContainersBack(ports)) = ContainersBack(ports)
  BY <1>2 DEF WithTCP, ContainersBack
<1> QED
  BY <1>3, <1>4

LEMMA SubsetDefaulted ==
  ASSUME NEW s, IsSubset(s)
  PROVE  /\ SubsetWithTCP(s) = SubsetBack(s)
         /\ SubsetWithTCP(SubsetBack(s)) = SubsetBack(s)
<1> DEFINE Back(ports) == [i \in DOMAIN ports |-> EndpointBack(ports[i])]
<1>1. ASSUME NEW p, IsEndpointPort(p)
      PROVE  [p EXCEPT !.protocol = IF @ = Empty THEN "TCP" ELSE @] = EndpointBack(p)
  <2>1. PICK name, protocol, port : p = [name |-> name, protocol |-> protocol, port |-> port]
    BY <1>1 DEF IsEndpointPort
  <2> QED
    BY <2>1 DEF EndpointBack, KubeProtocol
<1>2. ASSUME NEW p
      PROVE  [EndpointBack(p) EXCEPT !.protocol = IF @ = Empty THEN "TCP" ELSE @] = EndpointBack(p)
  <2>1. PICK protocol : protocol = KubeProtocol(p.protocol)
    OBVIOUS
  <2>2. KubeProtocol(protocol) = protocol
    BY <2>1, KubeProtocolOnce
  <2> QED
    BY <2>1, <2>2 DEF EndpointBack, KubeProtocol
<1>3. PICK addrs, ports : s = [addrs |-> addrs, ports |-> ports]
  BY DEF IsSubset
<1>4. \A i \in DOMAIN ports : IsEndpointPort(ports[i])
  BY <1>3 DEF IsSubset
<1>5. WithTCP(ports) = Back(ports)
  BY <1>1, <1>4 DEF WithTCP
<1>6. WithTCP(Back(ports)) = Back(ports)
  BY <1>2 DEF WithTCP
<1>7. SubsetBack(s) = [addrs |-> addrs, ports |-> Back(ports)]
  BY <1>3 DEF SubsetBack
<1> HIDE DEF Back
<1> QED
  BY <1>3, <1>5, <1>6, <1>7 DEF SubsetWithTCP

-----------------------------------------------------------------------------
(***************************************************************************)
(* Documents.  Back(d) is what comes back for d.                           *)
(***************************************************************************)
PodBack(d) == [syntax |-> "kube", kind |-> "pod", ports |-> ContainersBack(d.ports)]
SubsetsBack(subsets) == [i \in DOMAIN subsets |-> SubsetBack(subsets[i])]
EndpointsBack(d) == [syntax |-> "kube", kind |-> "endpoints", subsets |-> SubsetsBack(d.subsets)]

Back(d) ==
  CASE d.kind = "service" -> ServiceBack(d) [] d.kind = "pod" -> PodBack(d) [] d.kind = "endpoints" -> EndpointsBack(d)

Fits(d) == IsKube(d) /\ Acceptable(d) /\ Expressible(d)

LEMMA KindOfKube ==
  ASSUME NEW d, IsKube(d)
  PROVE  d.kind \in {"service", "pod", "endpoints"}
BY DEF IsKube

LEMMA PodTrip ==
  ASSUME NEW d, Fits(d), d.kind = "pod"
  PROVE  \E k : Convert(d) = {k} /\ Revert(k) = {PodBack(d)}
<1>1. PICK expose : expose = [i \in DOMAIN d.ports |-> convertContainerPort(d.ports[i])]
  OBVIOUS
<1>2. PICK k : k = [syntax |-> "koki", kind |-> "pod", expose |-> expose]
  OBVIOUS
<1>3. Convert(d) = {k}
  BY <1>1, <1>2 DEF Fits, Convert, ConvertPod
<1>4. \A i \in DOMAIN d.ports : ContainerFitsText(d.ports[i])
  BY DEF Fits, IsKube, Acceptable, Expressible, ContainerFitsText
<1> DEFINE results == [i \in DOMAIN expose |-> revertExposed(expose[i])]
           s == ContainersBack(d.ports)
<1>5. DOMAIN results = DOMAIN d.ports /\ s = [i \in DOMAIN d.ports |-> s[i]]
  BY <1>1 DEF ContainersBack
<1>6. \A i \in DOMAIN results : results[i] = {s[i]}
  BY <1>1, <1>4, ContainerPortTrip DEF ContainersBack
<1>7. AllOf(results) = {s}
  <2> HIDE DEF results, s
  <2> QED
    BY <1>5, <1>6, AllOfOne
<1>8. k.kind = "pod" /\ k.expose = expose
  BY <1>2
<1>9. Revert(k) = {[syntax |-> "kube", kind |-> "pod", ports |-> ports] : ports \in AllOf(results)}
  BY <1>8 DEF Revert, RevertPod
<1>10. Revert(k) = {PodBack(d)}
  BY <1>7, <1>9 DEF PodBack
<1> QED
  BY <1>3, <1>10

LEMMA EndpointsTrip ==
  ASSUME NEW d, Fits(d), d.kind = "endpoints"
  PROVE  \E k : Convert(d) = {k} /\ Revert(k) = {EndpointsBack(d)}
<1>1. PICK subsets : subsets = [i \in DOMAIN d.subsets |-> ConvertSubset(d.subsets[i])]
  OBVIOUS
<1>2. PICK k : k = [syntax |-> "koki", kind |-> "endpoints", subsets |-> subsets]
  OBVIOUS
<1>3. Convert(d) = {k}
  BY <1>1, <1>2 DEF Fits, Convert, ConvertEndpoints
<1>4. \A i \in DOMAIN d.subsets :
        IsSubset(d.subsets[i]) /\ \A j \in DOMAIN d.subsets[i].ports : AcceptablePort(d.subsets[i].ports[j])
  BY DEF Fits, IsKube, Acceptable
<1> DEFINE results == [i \in DOMAIN subsets |-> RevertSubset(subsets[i])]
           s == SubsetsBack(d.subsets)
<1>5. DOMAIN results = DOMAIN d.subsets /\ s = [i \in DOMAIN d.subsets |-> s[i]]
  BY <1>1 DEF SubsetsBack
<1>6. \A i \in DOMAIN results : results[i] = {s[i]}
  BY <1>1, <1>4, SubsetTrip DEF SubsetsBack
<1>7. AllOf(results) = {s}
  <2> HIDE DEF results, s
  <2> QED
    BY <1>5, <1>6, AllOfOne
<1>8. k.kind = "endpoints" /\ k.subsets = subsets
  BY <1>2
<1>9. Revert(k) = {[syntax |-> "kube", kind |-> "endpoints", subsets |-> x] : x \in AllOf(results)}
  BY <1>8 DEF Revert, RevertEndpoints
<1>10. Revert(k) = {EndpointsBack(d)}
  BY <1>7, <1>9 DEF EndpointsBack
<1> QED
  BY <1>3, <1>10

\* A trip to Short and back succeeds, in one way.
LEMMA Trip ==
  ASSUME NEW d, Fits(d)
  PROVE  \E k : Convert(d) = {k} /\ Revert(k) = {Back(d)}
<1>1. CASE d.kind = "service"
  <2>1. ServiceFitsText(d)
    BY <1>1 DEF Fits, ServiceFitsText, Acceptable, Expressible
  <2>2. PICK k : ConvertService(d) = {k} /\ k.kind = "service" /\ RevertService(k) = {ServiceBack(d)}
    BY <2>1, ServiceTrip, ExternalNameTrip
  <2>3. Convert(d) = {k}
    BY <1>1, <2>2 DEF Convert
  <2>4. Revert(k) = {ServiceBack(d)}
    BY <2>2 DEF Revert
  <2>5. Back(d) = ServiceBack(d)
    BY <1>1 DEF Back
  <2> QED
    BY <2>3, <2>4, <2>5
<1>2. CASE d.kind = "pod"
  <2>1. Back(d) = PodBack(d)
    BY <1>2 DEF Back
  <2> QED
    BY <1>2, <2>1, PodTrip
<1>3. CASE d.kind = "endpoints"
  <2>1. Back(d) = EndpointsBack(d)
    BY <1>3 DEF Back
  <2> QED
    BY <1>3, <2>1, EndpointsTrip
<1> QED
  BY <1>1, <1>2, <1>3, KindOfKube DEF Fits

\* What comes back means the same to the API server.
LEMMA BackMeansTheSame ==
  ASSUME NEW d, Fits(d)
  PROVE  Defaulted(Back(d)) = Defaulted(d)
<1>1. CASE d.kind = "service"
  <2>1. PICK type, cname, fixed, affinity, timeout, policy, ports, lb, ingress :
          d = KubeService(type, cname, fixed, [affinity |-> affinity, timeout |-> timeout], policy, ports, lb, ingress)
    BY <1>1 DEF Fits, IsKube
  <2>2. d.ports = ports /\ d.type = type /\ d.affinity = affinity /\ d.timeout = timeout /\ d.cname = cname
        /\ d.fixed = fixed /\ d.policy = policy /\ d.lb = lb /\ d.ingress = ingress
    BY <2>1 DEF KubeService
  <2>3. \A i \in DOMAIN ports : IsServicePort(ports[i])
    BY <1>1, <2>2 DEF Fits, IsKube
  <2>4. WithTCP(ports) = PortsBack(ports) /\ WithTCP(PortsBack(ports)) = PortsBack(ports)
    BY <2>3, ServicePortsDefaulted
  <2>5. affinity \in {Empty, "None", "ClientIP"}
    BY <1>1, <2>2 DEF Fits, Acceptable, AcceptableService
  <2>6. PICK t, a, q : /\ t = IF type = Empty THEN "ClusterIP" ELSE type
                       /\ a = IF affinity = "ClientIP" THEN "ClientIP" ELSE Empty
                       /\ q = PortsBack(ports)
    OBVIOUS
  <2>7. (IF t = Empty THEN "ClusterIP" ELSE t) = t /\ (IF a = Empty THEN "None" ELSE a) = (IF affinity = Empty THEN "None" ELSE affinity)
    BY <2>5, <2>6, WordsAssumption
  <2>8. PICK b : b = Back(d)
    OBVIOUS
  <2>9. b = KubeService(t, cname, fixed, [affinity |-> a, timeout |-> timeout], policy, q, lb, ingress)
    BY <1>1, <2>2, <2>6, <2>8 DEF Back, ServiceBack, AffinityBack
  <2>10. b.kind = "service"
    BY <2>9 DEF KubeService
  <2>11. ASSUME NEW e, NEW u, NEW v, NEW w, NEW x, NEW y, NEW z,
                e = KubeService(u, cname, fixed, [affinity |-> v, timeout |-> timeout], policy, w, lb, ingress),
                x = (IF u = Empty THEN "ClusterIP" ELSE u), y = (IF v = Empty THEN "None" ELSE v), z = WithTCP(w)
         PROVE  Defaulted(e) = KubeService(x, cname, fixed, [affinity |-> y, timeout |-> timeout], policy, z, lb, ingress)
    <3>1. e.kind = "service" /\ e.type = u /\ e.affinity = v /\ e.ports = w
      BY <2>11 DEF KubeService
    <3>2. Defaulted(e) = [e EXCEPT !.type = x, !.affinity = y, !.ports = z]
      BY <2>11, <3>1 DEF Defaulted
    <3> DEFINE Rec(tp, af, ps) ==
                 [syntax |-> "kube", kind |-> "service", type |-> tp, cname |-> cname, fixed |-> fixed,
                  affinity |-> af, timeout |-> timeout, policy |-> policy,
                  ports |-> ps, lb |-> lb, ingress |-> ingress]
    <3>3. ASSUME NEW p, NEW g, NEW r
          PROVE  KubeService(p, cname, fixed, [affinity |-> g, timeout |-> timeout], policy, r, lb, ingress) = Rec(p, g, r)
      BY DEF KubeService
    <3>4. e = Rec(u, v, w)
      BY <2>11, <3>3
    <3>5. PICK r : r = [e EXCEPT !.type = x]
      OBVIOUS
    <3>6. PICK s : s = [r EXCEPT !.affinity = y]
      OBVIOUS
    <3>7. [e EXCEPT !.type = x, !.affinity = y, !.ports = z] = [s EXCEPT !.ports = z]
      BY <3>5, <3>6
    <3>8. r = Rec(x, v, w)
      BY <3>4, <3>5
    <3>9. s = Rec(x, y, w)
      BY <3>6, <3>8
    <3>10. [s EXCEPT !.ports = z] = Rec(x, y, z)
      BY <3>9
    <3> HIDE DEF Rec
    <3> QED
      BY <3>2, <3>3, <3>7, <3>10
  <2>12. PICK n : n = IF affinity = Empty THEN "None" ELSE affinity
    OBVIOUS
  <2>13. Defaulted(b) = KubeService(t, cname, fixed, [affinity |-> n, timeout |-> timeout], policy, q, lb, ingress)
    BY <2>4, <2>6, <2>7, <2>9, <2>11, <2>12
  <2>14. Defaulted(d) = KubeService(t, cname, fixed, [affinity |-> n, timeout |-> timeout], policy, q, lb, ingress)
    BY <2>1, <2>4, <2>6, <2>11, <2>12
  <2> QED
    BY <2>8, <2>13, <2>14
<1>2. CASE d.kind = "pod"
  <2>1. PICK ports : d = [syntax |-> "kube", kind |-> "pod", ports |-> ports]
    BY <1>2 DEF Fits, IsKube
  <2>2. \A i \in DOMAIN ports : IsContainerPort(ports[i])
    BY <1>2, <2>1 DEF Fits, IsKube
  <2>3. PICK q : q = ContainersBack(ports)
    OBVIOUS
  <2>4. WithTCP(ports) = q /\ WithTCP(q) = q
    BY <2>2, <2>3, ContainerPortsDefaulted
  <2>5. Back(d) = [syntax |-> "kube", kind |-> "pod", ports |-> q]
    BY <2>1, <2>3 DEF Back, PodBack
  <2>6. ASSUME NEW e, NEW x, NEW y, e = [syntax |-> "kube", kind |-> "pod", ports |-> x], y = WithTCP(x)
        PROVE  Defaulted(e) = [syntax |-> "kube", kind |-> "pod", ports |-> y]
    <3>1. e.kind = "pod" /\ e.ports = x
      BY <2>6
    <3>2. Defaulted(e) = [e EXCEPT !.ports = y]
      BY <2>6, <3>1 DEF Defaulted
    <3> QED
      BY <2>6, <3>2
  <2> QED
    BY <2>1, <2>4, <2>5, <2>6
<1>3. CASE d.kind = "endpoints"
  <2>1. PICK subsets : d = [syntax |-> "kube", kind |-> "endpoints", subsets |-> subsets]
    BY <1>3 DEF Fits, IsKube
  <2>2. \A i \in DOMAIN subsets : IsSubset(subsets[i])
    BY <1>3, <2>1 DEF Fits, IsKube
  <2>3. PICK q : q = SubsetsBack(subsets)
    OBVIOUS
  <2>4. [i \in DOMAIN subsets |-> SubsetWithTCP(subsets[i])] = q
    BY <2>2, <2>3, SubsetDefaulted DEF SubsetsBack
  <2>5. [i \in DOMAIN q |-> SubsetWithTCP(q[i])] = q
    BY <2>2, <2>3, SubsetDefaulted DEF SubsetsBack
  <2>6. PICK b : b = Back(d)
    OBVIOUS
  <2>7. b = [syntax |-> "kube", kind |-> "endpoints", subsets |-> q]
    BY <2>1, <2>3, <2>6 DEF Back, EndpointsBack
  <2>8. ASSUME NEW e, NEW x, NEW y, e = [syntax |-> "kube", kind |-> "endpoints", subsets |-> x],
               y = [i \in DOMAIN x |-> SubsetWithTCP(x[i])]
        PROVE  Defaulted(e) = [syntax |-> "kube", kind |-> "endpoints", subsets |-> y]
    <3>1. e.kind = "endpoints" /\ e.subsets = x
      BY <2>8
    <3>2. Defaulted(e) = [e EXCEPT !.subsets = y]
      BY <2>8, <3>1 DEF Defaulted
    <3> QED
      BY <2>8, <3>2
  <2>10. Defaulted(b) = [syntax |-> "kube", kind |-> "endpoints", subsets |-> q]
    BY <2>5, <2>7, <2>8
  <2>11. Defaulted(d) = [syntax |-> "kube", kind |-> "endpoints", subsets |-> q]
    BY <2>1, <2>4, <2>8
  <2> QED
    BY <2>6, <2>10, <2>11
<1> QED
  BY <1>1, <1>2, <1>3, KindOfKube DEF Fits

\* What short writes: nothing is left to a default.
Normal(d) ==
  /\ IsKube(d)
  /\ d.kind = "service" => /\ d.type # Empty /\ d.affinity \in {Empty, "ClientIP"}
                           /\ \A i \in DOMAIN d.ports : PortNormal(d.ports[i])
  /\ d.kind = "pod" => \A i \in DOMAIN d.ports : d.ports[i].protocol # Empty
  /\ d.kind = "endpoints" => \A i \in DOMAIN d.subsets : SubsetNormal(d.subsets[i])

\* A list is equal to one that has the same items.
LEMMA SameItems ==
  ASSUME NEW s, IsList(s), NEW t, t = [i \in DOMAIN s |-> t[i]], \A i \in DOMAIN s : t[i] = s[i]
  PROVE  t = s
BY ListDomain DEF IsList

LEMMA BackIsTheSame ==
  ASSUME NEW d, Fits(d), Normal(d)
  PROVE  Back(d) = d
<1>1. CASE d.kind = "service"
  <2>1. /\ IsList(d.ports) /\ d.type # Empty /\ d.affinity \in {Empty, "ClientIP"}
        /\ \A i \in DOMAIN d.ports : PortNormal(d.ports[i]) /\ d.ports[i].port # Zero
        /\ d = KubeService(d.type, d.cname, d.fixed, [affinity |-> d.affinity, timeout |-> d.timeout], d.policy,
                           d.ports, d.lb, d.ingress)
    BY <1>1 DEF Fits, Acceptable, AcceptableService, Normal, IsKube
  <2>2. ASSUME NEW i \in DOMAIN d.ports
        PROVE  PortBack(d.ports[i]) = d.ports[i]
    BY <2>1 DEF PortNormal, IsServicePort, PortBack, KubeProtocol
  <2>3. PortsBack(d.ports) = d.ports
    BY <2>1, <2>2, SameItems DEF PortsBack
  <2>4. AffinityBack(d) = [affinity |-> d.affinity, timeout |-> d.timeout]
    BY <2>1, WordsAssumption DEF AffinityBack
  <2>5. (IF d.type = Empty THEN "ClusterIP" ELSE d.type) = d.type
    BY <2>1
  <2>6. ServiceBack(d) = d
    BY <2>1, <2>3, <2>4, <2>5 DEF ServiceBack
  <2> QED
    BY <1>1, <2>6 DEF Back
<1>2. CASE d.kind = "pod"
  <2>1. /\ IsList(d.ports) /\ d = [syntax |-> "kube", kind |-> "pod", ports |-> d.ports]
        /\ \A i \in DOMAIN d.ports : d.ports[i].protocol # Empty /\ IsContainerPort(d.ports[i])
    BY <1>2 DEF Normal, IsKube
  <2>2. ASSUME NEW i \in DOMAIN d.ports
        PROVE  ContainerBack(d.ports[i]) = d.ports[i]
    BY <2>1 DEF IsContainerPort, ContainerBack, KubeProtocol
  <2>3. ContainersBack(d.ports) = d.ports
    <3>1. PICK t : t = ContainersBack(d.ports)
      OBVIOUS
    <3>2. t = [i \in DOMAIN d.ports |-> t[i]] /\ \A i \in DOMAIN d.ports : t[i] = d.ports[i]
      BY <2>1, <2>2, <3>1 DEF ContainersBack
    <3> QED
      BY <2>1, <3>1, <3>2, SameItems
  <2> QED
    BY <1>2, <2>1, <2>3 DEF Back, PodBack
<1>3. CASE d.kind = "endpoints"
  <2>1. /\ IsList(d.subsets) /\ d = [syntax |-> "kube", kind |-> "endpoints", subsets |-> d.subsets]
        /\ \A i \in DOMAIN d.subsets : SubsetNormal(d.subsets[i])
    BY <1>3 DEF Normal, IsKube
  <2>2. ASSUME NEW s, SubsetNormal(s)
        PROVE  SubsetBack(s) = s
    <3>1. /\ s = [addrs |-> s.addrs, ports |-> s.ports] /\ IsList(s.ports)
          /\ \A i \in DOMAIN s.ports : s.ports[i].protocol # Empty /\ IsEndpointPort(s.ports[i])
      BY <2>2 DEF SubsetNormal, IsSubset
    <3>2. ASSUME NEW i \in DOMAIN s.ports
          PROVE  EndpointBack(s.ports[i]) = s.ports[i]
      BY <3>1 DEF IsEndpointPort, EndpointBack, KubeProtocol
    <3>3. PICK t : t = [i \in DOMAIN s.ports |-> EndpointBack(s.ports[i])]
      OBVIOUS
    <3>4. t = s.ports
      BY <3>1, <3>2, <3>3, SameItems
    <3> QED
      BY <3>1, <3>3, <3>4 DEF SubsetBack
  <2>3. SubsetsBack(d.subsets) = d.subsets
    <3>1. PICK t : t = SubsetsBack(d.subsets)
      OBVIOUS
    <3>2. t = [i \in DOMAIN d.subsets |-> t[i]] /\ \A i \in DOMAIN d.subsets : t[i] = d.subsets[i]
      BY <2>1, <2>2, <3>1 DEF SubsetsBack
    <3> QED
      BY <2>1, <3>1, <3>2, SameItems
  <2> QED
    BY <1>3, <2>1, <2>3 DEF Back, EndpointsBack
<1> QED
  BY <1>1, <1>2, <1>3, KindOfKube DEF Fits

\* The ports of a service that has been parsed.
LEMMA RevertPortsNormal ==
  ASSUME NEW d, IsKoki(d), d.kind = "service", NEW ports \in revertPorts(d)
  PROVE  IsList(ports) /\ \A i \in DOMAIN ports : PortNormal(ports[i])
<1>1. CASE d.port # {}
  <2>1. PICK text \in d.port : ports = <<KubePort(Empty, ServicePortInit(Blank, text).p, d.nodePort)>>
    BY <1>1 DEF revertPorts
  <2>2. PICK p : p = KubePort(Empty, ServicePortInit(Blank, text).p, d.nodePort)
    OBVIOUS
  <2>3. PortNormal(p)
    <3>1. Blank.port \in PortNumber /\ d.nodePort \in PortNumber
      BY DEF Blank, PortNumber, IsKoki
    <3>2. PICK q : q = ServicePortInit(Blank, text).p
      OBVIOUS
    <3>3. q.port \in PortNumber /\ q.protocol \in {"tcp", "udp"}
      BY <3>1, <3>2, ServicePortInitType
    <3> QED
      BY <2>2, <3>1, <3>2, <3>3, KubePortNormal
  <2>4. ports = <<p>> /\ Len(ports) = 1 /\ DOMAIN ports = {1} /\ ports[1] = p
    BY <2>1, <2>2
  <2>5. ports = [i \in 1..1 |-> ports[i]]
    BY <2>4
  <2> QED
    BY <2>3, <2>4, <2>5, Listing
<1>2. CASE d.port = {}
  <2> DEFINE results == [i \in DOMAIN d.ports |-> InitFromMap(d.ports[i])]
  <2>1. /\ ports \in AllOf(results) /\ DOMAIN results = DOMAIN d.ports
        /\ \A i \in DOMAIN d.ports : results[i] = InitFromMap(d.ports[i])
    BY <1>2 DEF revertPorts
  <2> HIDE DEF results
  <2>2. ports = [i \in DOMAIN d.ports |-> ports[i]] /\ \A i \in DOMAIN d.ports : ports[i] \in results[i]
    BY <2>1, AllOfEach
  <2>3. /\ IsList(d.ports)
        /\ \A i \in DOMAIN d.ports : IsFiniteSet(DOMAIN d.ports[i].entries) /\ d.ports[i].nodePort \in PortNumber
    BY DEF IsKoki
  <2>4. IsList(ports) /\ DOMAIN ports = DOMAIN d.ports
    BY <2>2, <2>3, Mapped
  <2>5. ASSUME NEW i \in DOMAIN ports
        PROVE  PortNormal(ports[i])
    BY <2>1, <2>2, <2>3, <2>4, InitFromMapNormal
  <2> QED
    BY <2>4, <2>5
<1> QED
  BY <1>1, <1>2

LEMMA RevertServiceNormal ==
  ASSUME NEW d, IsKoki(d), d.kind = "service", NEW r \in RevertService(d)
  PROVE  Normal(r)
<1>0. IsList(<<>>) /\ DOMAIN <<>> = {}
  BY DEF IsList
<1>1. ASSUME NEW type, NEW cname, NEW fixed, NEW stickiness, NEW policy, NEW ports, NEW lb, NEW ingress,
             r = KubeService(type, cname, fixed, revertSessionAffinity(stickiness), policy, ports, lb, ingress),
             type # Empty, IsList(ports), \A i \in DOMAIN ports : PortNormal(ports[i]),
             IsList(ingress), \A i \in DOMAIN ingress : IsIngress(ingress[i])
      PROVE  Normal(r)
  <2>1. PICK affinity, timeout : /\ affinity \in {Empty, "ClientIP"} /\ timeout \notin {"true", "false"}
                                 /\ revertSessionAffinity(stickiness) = [affinity |-> affinity, timeout |-> timeout]
    BY WordsAssumption DEF revertSessionAffinity
  <2>2. r = KubeService(type, cname, fixed, [affinity |-> affinity, timeout |-> timeout], policy, ports, lb, ingress)
    BY <1>1, <2>1
  <2>3. /\ r.type = type /\ r.cname = cname /\ r.fixed = fixed /\ r.affinity = affinity /\ r.timeout = timeout
        /\ r.policy = policy /\ r.ports = ports /\ r.lb = lb /\ r.ingress = ingress
        /\ r.kind = "service" /\ r.syntax = "kube"
    BY <2>2 DEF KubeService
  <2>4. \A i \in DOMAIN ports : IsServicePort(ports[i])
    BY <1>1 DEF PortNormal
  <2>5. IsKube(r)
    BY <1>1, <2>1, <2>2, <2>3, <2>4 DEF IsKube
  <2> QED
    BY <1>1, <2>1, <2>3, <2>5 DEF Normal
<1>2. CASE d.cname # Empty
  <2>1. r = KubeService("ExternalName", d.cname, {}, revertSessionAffinity(Nil), Empty, <<>>, {}, <<>>)
    BY <1>2 DEF RevertService
  <2>2. "ExternalName" # Empty
    BY WordsAssumption
  <2> QED
    BY <1>0, <1>1, <2>1, <2>2
<1>3. CASE d.cname = Empty
  <2>1. PICK given : given = [i \in DOMAIN d.ingress |-> IngressInitFromString(d.ingress[i])]
    OBVIOUS
  <2>2. PICK type \in revertServiceType(d.type), policy \in revertExternalTrafficPolicy(d.policy), ports \in revertPorts(d) :
          r = KubeService(type, Empty, d.fixed, revertSessionAffinity(d.stickiness), policy, ports,
                          IF d.type = "load-balancer" THEN d.lb ELSE {}, IF d.type = "load-balancer" THEN given ELSE <<>>)
    BY <1>3, <2>1 DEF RevertService
  <2>3. type # Empty
    BY <2>2, WordsAssumption DEF revertServiceType, KokiTypes
  <2>4. IsList(ports) /\ \A i \in DOMAIN ports : PortNormal(ports[i])
    BY <2>2, RevertPortsNormal
  <2>5. IsList(given) /\ \A i \in DOMAIN given : IsIngress(given[i])
    <3>1. IsList(d.ingress) /\ given = [i \in DOMAIN d.ingress |-> given[i]]
      BY <2>1 DEF IsKoki
    <3>2. \A i \in DOMAIN d.ingress : IsIngress(given[i])
      BY <2>1 DEF IsIngress, IngressInitFromString
    <3> QED
      BY <3>1, <3>2, Mapped
  <2>6. PICK ingress : ingress = IF d.type = "load-balancer" THEN given ELSE <<>>
    OBVIOUS
  <2>7. IsList(ingress) /\ \A i \in DOMAIN ingress : IsIngress(ingress[i])
    BY <1>0, <2>5, <2>6
  <2> QED
    BY <1>1, <2>2, <2>3, <2>4, <2>6, <2>7
<1> QED
  BY <1>2, <1>3

\* What short writes has been parsed and given its defaults.
LEMMA RevertNormal ==
  ASSUME NEW d, IsKoki(d), NEW r \in Revert(d)
  PROVE  Normal(r)
<1>1. CASE d.kind = "service"
  BY <1>1, RevertServiceNormal DEF Revert
<1>2. CASE d.kind = "pod"
  <2> DEFINE results == [i \in DOMAIN d.expose |-> revertExposed(d.expose[i])]
  <2>1. PICK ports \in AllOf(results) : r = [syntax |-> "kube", kind |-> "pod", ports |-> ports]
    BY <1>2 DEF Revert, RevertPod
  <2>2. DOMAIN results = DOMAIN d.expose /\ \A i \in DOMAIN d.expose : results[i] = revertExposed(d.expose[i])
    OBVIOUS
  <2> HIDE DEF results
  <2>3. ports = [i \in DOMAIN d.expose |-> ports[i]] /\ \A i \in DOMAIN d.expose : ports[i] \in results[i]
    BY <2>1, <2>2, AllOfEach
  <2>4. IsList(d.expose)
    BY <1>2 DEF IsKoki
  <2>5. IsList(ports) /\ DOMAIN ports = DOMAIN d.expose
    BY <2>3, <2>4, Mapped
  <2>6. \A i \in DOMAIN ports : IsContainerPort(ports[i]) /\ ports[i].protocol # Empty
    BY <2>2, <2>3, <2>5, ExposedNormal
  <2> QED
    BY <2>1, <2>5, <2>6 DEF Normal, IsKube
<1>3. CASE d.kind = "endpoints"
  <2> DEFINE results == [i \in DOMAIN d.subsets |-> RevertSubset(d.subsets[i])]
  <2>1. PICK subsets \in AllOf(results) : r = [syntax |-> "kube", kind |-> "endpoints", subsets |-> subsets]
    BY <1>3 DEF Revert, RevertEndpoints
  <2>2. DOMAIN results = DOMAIN d.subsets /\ \A i \in DOMAIN d.subsets : results[i] = RevertSubset(d.subsets[i])
    OBVIOUS
  <2> HIDE DEF results
  <2>3. subsets = [i \in DOMAIN d.subsets |-> subsets[i]] /\ \A i \in DOMAIN d.subsets : subsets[i] \in results[i]
    BY <2>1, <2>2, AllOfEach
  <2>4. IsList(d.subsets) /\ \A i \in DOMAIN d.subsets : IsList(d.subsets[i].ports)
    BY <1>3 DEF IsKoki
  <2>5. IsList(subsets) /\ DOMAIN subsets = DOMAIN d.subsets
    BY <2>3, <2>4, Mapped
  <2>6. \A i \in DOMAIN subsets : SubsetNormal(subsets[i])
    BY <2>2, <2>3, <2>4, <2>5, RevertSubsetNormal
  <2> QED
    BY <2>1, <2>5, <2>6 DEF Normal, IsKube, SubsetNormal
<1> QED
  BY <1>1, <1>2, <1>3 DEF IsKoki

LEMMA ConvertServiceKoki ==
  ASSUME NEW d, IsKube(d), d.kind = "service", NEW k \in ConvertService(d)
  PROVE  IsKoki(k) /\ k.kind = "service"
<1>0. IsList(<<>>) /\ DOMAIN <<>> = {} /\ Zero \in PortNumber
  BY DEF IsList, PortNumber
<1>1. ASSUME NEW ports, IsList(ports), \A i \in DOMAIN ports : IsServicePort(ports[i])
      PROVE  /\ convertPorts(ports).nodePort \in PortNumber
             /\ IsList(convertPorts(ports).ports)
             /\ \A i \in DOMAIN convertPorts(ports).ports :
                  /\ IsFiniteSet(DOMAIN convertPorts(ports).ports[i].entries)
                  /\ convertPorts(ports).ports[i].nodePort \in PortNumber
  <2>1. PICK c : c = convertPorts(ports)
    OBVIOUS
  <2>2. CASE Len(ports) = 1 /\ ports[1].name = Empty
    <3>1. c.nodePort = ports[1].nodePort /\ c.ports = <<>>
      BY <2>1, <2>2 DEF convertPorts
    <3>2. 1 \in DOMAIN ports
      BY <1>1, <2>2, ListDomain
    <3>3. ports[1].nodePort \in PortNumber
      BY <1>1, <3>2 DEF IsServicePort
    <3> QED
      BY <1>0, <2>1, <3>1, <3>3
  <2>3. CASE ~(Len(ports) = 1 /\ ports[1].name = Empty)
    <3>1. c.nodePort = Zero /\ c.ports = [i \in DOMAIN ports |-> convertNamedPort(ports[i])]
      BY <2>1, <2>3 DEF convertPorts
    <3>2. PICK t : t = c.ports
      OBVIOUS
    <3>3. t = [i \in DOMAIN ports |-> t[i]]
      BY <3>1, <3>2
    <3>4. IsList(t) /\ DOMAIN t = DOMAIN ports
      BY <1>1, <3>3, Mapped
    <3>5. ASSUME NEW i \in DOMAIN ports
          PROVE  IsFiniteSet(DOMAIN t[i].entries) /\ t[i].nodePort \in PortNumber
      <4>1. t[i] = convertNamedPort(ports[i]) /\ IsServicePort(ports[i])
        BY <1>1, <3>1, <3>2
      <4>2. DOMAIN t[i].entries = {ports[i].name} /\ t[i].nodePort = ports[i].nodePort
        BY <4>1 DEF convertNamedPort
      <4>3. IsFiniteSet({ports[i].name})
        BY FS_Singleton
      <4> QED
        BY <4>1, <4>2, <4>3 DEF IsServicePort
    <3> QED
      BY <1>0, <2>1, <3>1, <3>2, <3>4, <3>5
  <2> QED
    BY <2>2, <2>3
<1>2. ASSUME NEW type, NEW cname, NEW fixed, NEW stickiness, NEW policy, NEW ports, NEW lb, NEW ingress,
             k = KokiService(type, cname, fixed, stickiness, policy, convertPorts(ports), lb, ingress),
             IsList(ports), \A i \in DOMAIN ports : IsServicePort(ports[i]), IsList(ingress)
      PROVE  IsKoki(k) /\ k.kind = "service"
  <2>1. /\ k.syntax = "koki" /\ k.kind = "service" /\ k.nodePort = convertPorts(ports).nodePort
        /\ k.ports = convertPorts(ports).ports /\ k.ingress = ingress
    BY <1>2 DEF KokiService
  <2> QED
    BY <1>1, <1>2, <2>1 DEF IsKoki
<1>3. /\ IsList(d.ports) /\ \A i \in DOMAIN d.ports : IsServicePort(d.ports[i])
      /\ IsList(d.ingress)
  BY DEF IsKube
<1>4. CASE d.type = "ExternalName"
  <2>1. k = KokiService(Empty, d.cname, {}, Nil, Empty, convertPorts(<<>>), {}, <<>>)
    BY <1>4 DEF ConvertService
  <2> QED
    BY <1>0, <1>2, <2>1
<1>5. CASE d.type # "ExternalName"
  <2>1. PICK mine : mine = IF d.type = "LoadBalancer" THEN d.ingress ELSE <<>>
    OBVIOUS
  <2>2. PICK ingress : ingress = [i \in DOMAIN mine |-> IngressString(mine[i])]
    OBVIOUS
  <2>3. IsList(mine)
    BY <1>0, <1>3, <2>1
  <2>4. ingress = [i \in DOMAIN mine |-> ingress[i]]
    BY <2>2
  <2>5. IsList(ingress)
    BY <2>3, <2>4, Mapped
  <2>6. PICK type \in convertServiceType(d.type), policy \in convertExternalTrafficPolicy(d.policy) :
          k = KokiService(type, Empty, d.fixed, convertSessionAffinity(d), policy, convertPorts(d.ports),
                          IF d.type = "LoadBalancer" THEN d.lb ELSE {}, ingress)
    BY <1>5, <2>1, <2>2 DEF ConvertService
  <2> QED
    BY <1>2, <1>3, <2>5, <2>6
<1> QED
  BY <1>4, <1>5

\* What short writes in Short it can be given.
LEMMA ConvertKoki ==
  ASSUME NEW d, IsKube(d), NEW k \in Convert(d)
  PROVE  IsKoki(k)
<1>1. CASE d.kind = "service"
  BY <1>1, ConvertServiceKoki DEF Convert
<1>2. CASE d.kind = "pod"
  <2>1. PICK expose : expose = [i \in DOMAIN d.ports |-> convertContainerPort(d.ports[i])]
    OBVIOUS
  <2>2. k = [syntax |-> "koki", kind |-> "pod", expose |-> expose]
    BY <1>2, <2>1 DEF Convert, ConvertPod
  <2>3. IsList(d.ports) /\ expose = [i \in DOMAIN d.ports |-> expose[i]]
    BY <1>2, <2>1 DEF IsKube
  <2>4. IsList(expose)
    BY <2>3, Mapped
  <2> QED
    BY <2>2, <2>4 DEF IsKoki
<1>3. CASE d.kind = "endpoints"
  <2>1. PICK subsets : subsets = [i \in DOMAIN d.subsets |-> ConvertSubset(d.subsets[i])]
    OBVIOUS
  <2>2. k = [syntax |-> "koki", kind |-> "endpoints", subsets |-> subsets]
    BY <1>3, <2>1 DEF Convert, ConvertEndpoints
  <2>3. /\ IsList(d.subsets) /\ subsets = [i \in DOMAIN d.subsets |-> subsets[i]]
        /\ \A i \in DOMAIN d.subsets : IsSubset(d.subsets[i])
    BY <1>3, <2>1 DEF IsKube
  <2>4. IsList(subsets) /\ DOMAIN subsets = DOMAIN d.subsets
    BY <2>3, Mapped
  <2>5. ASSUME NEW i \in DOMAIN subsets
        PROVE  IsList(subsets[i].ports)
    <3>1. PICK s : s = d.subsets[i]
      OBVIOUS
    <3>2. PICK t : t = [j \in DOMAIN s.ports |-> convertEndpointPort(s.ports[j])]
      OBVIOUS
    <3>3. subsets[i].ports = t
      BY <2>1, <2>4, <3>1, <3>2 DEF ConvertSubset
    <3>4. IsList(s.ports) /\ t = [j \in DOMAIN s.ports |-> t[j]]
      BY <2>3, <2>4, <3>1, <3>2 DEF IsSubset
    <3>5. IsList(t)
      BY <3>4, Mapped
    <3> QED
      BY <3>3, <3>5
  <2> QED
    BY <2>2, <2>4, <2>5 DEF IsKoki
<1> QED
  BY <1>1, <1>2, <1>3, KindOfKube

-----------------------------------------------------------------------------
(***************************************************************************)
(* The runs of short.  History ties the documents to each other: the one   *)
(* in Short is made of the one in kube, and the one after it of that.      *)
(***************************************************************************)
DocsInv ==
  /\ IsKube(doc) \/ IsKoki(doc)
  /\ doc.syntax = "kube" => doc = first \/ Normal(doc)
  /\ kube # Nil => IsKube(kube) /\ (kube = first \/ Normal(kube))

History ==
  /\ doc.syntax = "koki" /\ kube # Nil => doc \in Convert(kube)
  /\ doc.syntax = "kube" /\ kube # Nil => doc = kube \/ \E k \in Convert(kube) : doc \in Revert(k)
  /\ refused => \/ doc.syntax = "kube" /\ kube = doc /\ Convert(doc) = {}
                \/ doc.syntax = "koki" /\ Revert(doc) = {}

ServicesInv == DocsInv /\ History

LEMMA SyntaxOf ==
  ASSUME NEW d
  PROVE  (IsKube(d) => d.syntax = "kube") /\ (IsKoki(d) => d.syntax = "koki")
BY DEF IsKube, IsKoki

LEMMA InitServices == Init => ServicesInv
<1> SUFFICES ASSUME Init PROVE ServicesInv
  OBVIOUS
<1>1. IsKube(doc) \/ IsKoki(doc)
  BY DocsAssumption DEF Init
<1> QED
  BY <1>1 DEF Init, ServicesInv, DocsInv, History

LEMMA ToKokiServices == ServicesInv /\ ToKoki => ServicesInv'
<1> SUFFICES ASSUME ServicesInv, ToKoki PROVE ServicesInv'
  OBVIOUS
<1>1. IsKube(doc) /\ (doc = first \/ Normal(doc)) /\ kube' = doc /\ first' = first /\ ~refused
  BY SyntaxOf DEF ServicesInv, DocsInv, ToKoki, Becomes
<1>2. CASE \E d \in Convert(doc) : doc' = d /\ UNCHANGED refused
  <2>1. doc' \in Convert(doc) /\ ~refused'
    BY <1>1, <1>2
  <2>2. IsKoki(doc') /\ doc'.syntax = "koki"
    BY <1>1, <2>1, ConvertKoki, SyntaxOf
  <2> QED
    BY <1>1, <2>1, <2>2 DEF ServicesInv, DocsInv, History
<1>3. CASE Convert(doc) = {} /\ UNCHANGED doc
  <2>1. doc' = doc /\ kube' = doc' /\ doc'.syntax = "kube" /\ Convert(doc') = {}
    BY <1>1, <1>3, SyntaxOf
  <2> QED
    BY <1>1, <2>1 DEF ServicesInv, DocsInv, History
<1> QED
  BY <1>2, <1>3 DEF ToKoki, Becomes

LEMMA ToKubeServices == ServicesInv /\ ToKube => ServicesInv'
<1> SUFFICES ASSUME ServicesInv, ToKube PROVE ServicesInv'
  OBVIOUS
<1>1. IsKoki(doc) /\ doc.syntax = "koki" /\ kube' = kube /\ first' = first /\ ~refused
  BY SyntaxOf DEF ServicesInv, DocsInv, ToKube, Becomes
<1>2. CASE \E d \in Revert(doc) : doc' = d /\ UNCHANGED refused
  <2>1. doc' \in Revert(doc) /\ ~refused'
    BY <1>1, <1>2
  <2>2. Normal(doc')
    BY <1>1, <2>1, RevertNormal
  <2>3. IsKube(doc') /\ doc'.syntax = "kube"
    BY <2>2, SyntaxOf DEF Normal
  <2> QED
    BY <1>1, <2>1, <2>2, <2>3 DEF ServicesInv, DocsInv, History
<1>3. CASE Revert(doc) = {} /\ UNCHANGED doc
  <2>1. doc' = doc /\ Revert(doc') = {} /\ doc'.syntax = "koki"
    BY <1>1, <1>3
  <2> QED
    BY <1>1, <2>1 DEF ServicesInv, DocsInv, History
<1> QED
  BY <1>2, <1>3 DEF ToKube, Becomes

\* ServicesInv is an invariant of the runs.
THEOREM ServicesInvariant == Spec => []ServicesInv
<1>1. ServicesInv /\ UNCHANGED vars => ServicesInv'
  BY DEF vars, ServicesInv, DocsInv, History
<1>2. ServicesInv /\ [Next]_vars => ServicesInv'
  BY <1>1, ToKokiServices, ToKubeServices DEF Next
<1> QED
  BY <1>2, InitServices, PTL DEF Spec

\* A manifest with any number of ports comes back from Short the same to the
\* API server.
THEOREM ServicesKeepTheirMeaning == Spec => []KeepsMeaning
<1>1. ServicesInv => KeepsMeaning
  <2> SUFFICES ASSUME ServicesInv, doc.syntax = "kube", kube # Nil, Acceptable(kube), Expressible(kube), doc # kube
               PROVE  Defaulted(doc) = Defaulted(kube)
    BY DEF KeepsMeaning
  <2>1. Fits(kube)
    BY DEF ServicesInv, DocsInv, Fits
  <2>2. PICK k : Convert(kube) = {k} /\ Revert(k) = {Back(kube)}
    BY <2>1, Trip
  <2>3. doc = Back(kube)
    BY <2>2 DEF ServicesInv, History
  <2> QED
    BY <2>1, <2>3, BackMeansTheSame
<1> QED
  BY <1>1, ServicesInvariant, PTL

\* And it does come back: neither trip is refused.
THEOREM ServicesComeBack == Spec => []ComesBack
<1>1. ServicesInv => ComesBack
  <2> SUFFICES ASSUME ServicesInv, refused, kube # Nil, Acceptable(kube), Expressible(kube)
               PROVE  FALSE
    BY DEF ComesBack
  <2>1. Fits(kube)
    BY DEF ServicesInv, DocsInv, Fits
  <2>2. PICK k : Convert(kube) = {k} /\ Revert(k) = {Back(kube)}
    BY <2>1, Trip
  <2> QED
    BY <2>2 DEF ServicesInv, History
<1> QED
  BY <1>1, ServicesInvariant, PTL

\* What short has written once it reproduces exactly, however often.
THEOREM ServicesSettle == Spec => []Settles
<1>1. ServicesInv => Settles
  <2> SUFFICES ASSUME ServicesInv, doc.syntax = "kube", kube # Nil, kube # first,
                      Acceptable(kube), Expressible(kube), doc # kube
               PROVE  doc = kube
    BY DEF Settles
  <2>1. Fits(kube) /\ Normal(kube)
    BY DEF ServicesInv, DocsInv, Fits
  <2>2. PICK k : Convert(kube) = {k} /\ Revert(k) = {Back(kube)}
    BY <2>1, Trip
  <2>3. doc = Back(kube)
    BY <2>2 DEF ServicesInv, History
  <2> QED
    BY <2>1, <2>3, BackIsTheSame
<1> QED
  BY <1>1, ServicesInvariant, PTL
=============================================================================
