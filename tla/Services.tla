------------------------------ MODULE Services ------------------------------
(***************************************************************************)
(* Ports, in the three places where Short writes them as text: the expose  *)
(* list of a container, the ports of a Service and those of Endpoints; and *)
(* the rest of a Service and of Endpoints.  A step is a run of short on    *)
(* what the last one wrote: a converter, followed by the marshaller or     *)
(* preceded by the unmarshaller of the Short types.                        *)
(*                                                                         *)
(* A text is a prefix, before "://", if it has one, and the segments       *)
(* between colons.  A segment is a number, a name, an address or empty.    *)
(* Numbers are their decimal digits, in both syntaxes.                     *)
(***************************************************************************)
EXTENDS Integers, Sequences, FiniteSets, SequencesExt

CONSTANTS
  Number,        \* positive port numbers
  Addr,          \* IPv4 addresses
  Addr6,         \* the IPv6 address ::
  Empty, Zero,   \* the empty string and the number 0
  Nil,
  FirstDocs      \* the documents short may be given first

ASSUME SegmentsAssumption ==
  /\ Empty \notin Number \cup Addr /\ Zero \notin Number \cup Addr /\ Empty # Zero
  /\ Number \cap Addr = {} /\ Addr6 # Empty

\* Neither is a word of the two syntaxes.
ASSUME WordsAssumption ==
  {Empty, Nil} \cap {"tcp", "udp", "TCP", "UDP", "SCTP", "ClusterIP", "NodePort", "LoadBalancer", "ExternalName", "ClientIP",
                     "cluster-ip", "node-port", "load-balancer", "Local", "Cluster", "node-local", "cluster-wide",
                     "true", "false"} = {}

VARIABLES first, doc, kube, koki, refused

vars == <<first, doc, kube, koki, refused>>

-----------------------------------------------------------------------------
(***************************************************************************)
(* Text                                                                    *)
(***************************************************************************)
Text(prefix, segs) == [prefix |-> prefix, segs |-> segs]

IsNumber(seg) == seg \in Number \cup {Zero}

Lower(protocol) ==
  CASE protocol \in {"TCP", "tcp"} -> "tcp" [] protocol \in {"UDP", "udp"} -> "udp"
    [] protocol = "SCTP" -> "sctp" [] OTHER -> protocol
Upper(protocol) == CASE protocol = "tcp" -> "TCP" [] protocol = "udp" -> "UDP" [] OTHER -> protocol

\* ^(udp|tcp)://([0-9.:]*)$
MatchesProtocol(text) ==
  /\ text.prefix \in {"udp", "tcp"}
  /\ \A i \in DOMAIN text.segs : IsNumber(text.segs[i]) \/ text.segs[i] \in Addr \cup {Empty}

ProtocolOf(text) == IF MatchesProtocol(text) THEN text.prefix ELSE "tcp"

\* A prefix that is not recognised is a segment, and its slashes make one
\* that is neither number nor address of the next.
Split(text) ==
  IF text.prefix = Nil \/ MatchesProtocol(text) THEN text.segs
  ELSE <<text.prefix, "//">> \o Tail(text.segs)

Prefix(protocol) == IF protocol \in {Empty, "tcp"} THEN Nil ELSE protocol

IfSet(seg) == IF seg = Empty THEN <<>> ELSE <<seg>>

-----------------------------------------------------------------------------
(***************************************************************************)
(* Container ports.  The operators return the set of results, which is     *)
(* empty for an error.                                                     *)
(***************************************************************************)
PortToString(p) ==
  LET ip   == IF p.hostIP = Addr6 THEN <<Empty, Empty, Empty>> ELSE IfSet(p.hostIP)
      segs == ip \o IfSet(p.hostPort) \o IfSet(p.containerPort)
  IN  Text(Prefix(p.protocol), IF segs = <<>> THEN <<Empty>> ELSE segs)

PortInitFromString(text) ==
  LET segs == Split(text)
      ip   == segs[1] \in Addr
      rest == IF ip THEN Tail(segs) ELSE segs
  IN  IF Len(rest) \notin {1, 2} THEN {}
      ELSE {[protocol |-> ProtocolOf(text), hostIP |-> IF ip THEN segs[1] ELSE Empty,
             hostPort |-> IF Len(rest) = 2 THEN rest[1] ELSE Empty, containerPort |-> Last(rest)]}

NonZero(n) == IF n = Zero THEN Empty ELSE n

convertContainerPort(p) ==
  [name |-> p.name,
   text |-> PortToString([protocol |-> Lower(p.protocol), hostIP |-> p.hostIP,
                          hostPort |-> NonZero(p.hostPort), containerPort |-> NonZero(p.containerPort)])]

PortInt(seg) == IF seg = Empty THEN {Zero} ELSE IF IsNumber(seg) THEN {seg} ELSE {}

\* The address is not copied.
revertExposed(e) ==
  UNION {{[name |-> e.name, protocol |-> Upper(p.protocol), hostIP |-> Empty,
           hostPort |-> h, containerPort |-> c] : h \in PortInt(p.hostPort), c \in PortInt(p.containerPort)} :
         p \in PortInitFromString(e.text)}

\* The lists made of the results for each item; one error is an error of
\* the whole.
AllOf(results) ==
  {s \in [DOMAIN results -> UNION {results[i] : i \in DOMAIN results}] : \A i \in DOMAIN results : s[i] \in results[i]}

-----------------------------------------------------------------------------
(***************************************************************************)
(* Service ports                                                           *)
(***************************************************************************)
\* A variant: so is a target that is equal to the port.
ServicePortStringShorter(p) ==
  Text(Prefix(Lower(p.protocol)), <<p.port>> \o (IF p.target \in {Zero, p.port} THEN <<>> ELSE <<p.target>>))

\* A target of zero is left out.
ServicePortString(p) ==
  Text(Prefix(Lower(p.protocol)), <<p.port>> \o (IF p.target = Zero THEN <<>> ELSE <<p.target>>))

Blank == [protocol |-> Empty, port |-> Zero, target |-> Zero]

\* What is left in p by InitFromString, which may have set the protocol when
\* it returns an error.
ServicePortInit(p, text) ==
  LET segs == Split(text)
      ok   == Len(segs) <= 2 /\ IsNumber(segs[1])
  IN  [ok |-> ok,
       p  |-> [protocol |-> ProtocolOf(text),
               port     |-> IF ok THEN segs[1] ELSE p.port,
               target   |-> IF ok /\ Len(segs) = 2 THEN segs[2] ELSE p.target]]

convertNamedPort(p) ==
  [entries |-> [n \in {p.name} |-> ServicePortString(p)], nodePort |-> p.nodePort]

\* A variant: a single port needs no name.
convertPortsUnnamed(ports) ==
  IF Len(ports) = 1
  THEN [port |-> {ServicePortString(ports[1])}, nodePort |-> ports[1].nodePort, ports |-> <<>>]
  ELSE [port |-> {}, nodePort |-> Zero, ports |-> [i \in DOMAIN ports |-> convertNamedPort(ports[i])]]

\* The unnamed port if there is one, its node port and the list of the named
\* ones.
convertPorts(ports) ==
  IF Len(ports) = 1 /\ ports[1].name = Empty
  THEN [port |-> {ServicePortString(ports[1])}, nodePort |-> ports[1].nodePort, ports |-> <<>>]
  ELSE [port |-> {}, nodePort |-> Zero, ports |-> [i \in DOMAIN ports |-> convertNamedPort(ports[i])]]

KubePort(name, p, nodePort) ==
  [name |-> name, protocol |-> Upper(p.protocol), port |-> p.port, target |-> p.target, nodePort |-> nodePort]

\* The entries of the map are applied to one port, in any order, and errors
\* are ignored.
InOrder(entries, order) == FoldLeft(LAMBDA p, n : ServicePortInit(p, entries[n]).p, Blank, order)

InitFromMap(e) ==
  LET name(order) == IF order = <<>> THEN Empty ELSE Last(order)
  IN  IF Cardinality(DOMAIN e.entries) + (IF e.nodePort = Zero THEN 0 ELSE 1) > 2 THEN {}
      ELSE {KubePort(name(order), InOrder(e.entries, order), e.nodePort) : order \in SetToSeqs(DOMAIN e.entries)}

revertPorts(d) ==
  IF d.port # {} THEN {<<KubePort(Empty, ServicePortInit(Blank, text).p, d.nodePort)>> : text \in d.port}
  ELSE AllOf([i \in DOMAIN d.ports |-> InitFromMap(d.ports[i])])

\* The document is parsed before any of it is converted.
Unmarshals(d) ==
  /\ \A text \in d.port : ServicePortInit(Blank, text).ok
  /\ \A i \in DOMAIN d.ports : InitFromMap(d.ports[i]) # {}

-----------------------------------------------------------------------------
(***************************************************************************)
(* Services.  fixed and lb are the sets of the other fields that are set:  *)
(* those of any service, and those of a load balancer.                     *)
(***************************************************************************)
KokiTypes == [ClusterIP |-> "cluster-ip", NodePort |-> "node-port", LoadBalancer |-> "load-balancer"]
KokiPolicies == [Local |-> "node-local", Cluster |-> "cluster-wide"]

convertServiceType(type) ==
  IF type = Empty THEN {Empty} ELSE {KokiTypes[t] : t \in DOMAIN KokiTypes \cap {type}}
revertServiceType(type) ==
  IF type = Empty THEN {"ClusterIP"} ELSE {t \in DOMAIN KokiTypes : KokiTypes[t] = type}

convertExternalTrafficPolicy(policy) ==
  IF policy = Empty THEN {Empty} ELSE {KokiPolicies[p] : p \in DOMAIN KokiPolicies \cap {policy}}
revertExternalTrafficPolicy(policy) ==
  IF policy = Empty THEN {Empty} ELSE {p \in DOMAIN KokiPolicies : KokiPolicies[p] = policy}

convertSessionAffinity(d) ==
  IF d.affinity # "ClientIP" THEN Nil ELSE IF d.timeout = Nil THEN "true" ELSE d.timeout

revertSessionAffinity(stickiness) ==
  [affinity |-> IF stickiness \in {Nil, "false"} THEN Empty ELSE "ClientIP",
   timeout |-> IF stickiness \in {Nil, "false", "true"} THEN Nil ELSE stickiness]

\* An address is preferred to a host name; a text that is an address is one.
IngressString(i) == IF i.ip # Empty THEN i.ip ELSE i.hostname
IngressInitFromString(s) ==
  IF s \in Addr \cup {Addr6} THEN [ip |-> s, hostname |-> Empty] ELSE [ip |-> Empty, hostname |-> s]

KokiService(type, cname, fixed, stickiness, policy, ports, lb, ingress) ==
  [syntax |-> "koki", kind |-> "service", type |-> type, cname |-> cname, fixed |-> fixed,
   stickiness |-> stickiness, policy |-> policy, port |-> ports.port, nodePort |-> ports.nodePort,
   ports |-> ports.ports, lb |-> lb, ingress |-> ingress]

KubeService(type, cname, fixed, affinity, policy, ports, lb, ingress) ==
  [syntax |-> "kube", kind |-> "service", type |-> type, cname |-> cname, fixed |-> fixed,
   affinity |-> affinity.affinity, timeout |-> affinity.timeout, policy |-> policy,
   ports |-> ports, lb |-> lb, ingress |-> ingress]

ConvertService(d) ==
  LET balanced == d.type = "LoadBalancer"
      ingress  == IF balanced THEN d.ingress ELSE <<>>
  IN  IF d.type = "ExternalName" THEN {KokiService(Empty, d.cname, {}, Nil, Empty, convertPorts(<<>>), {}, <<>>)}
      ELSE IF \E i \in DOMAIN ingress : ingress[i].ip \notin Addr \cup {Addr6, Empty} THEN {}
      ELSE {KokiService(type, Empty, d.fixed, convertSessionAffinity(d), policy, convertPorts(d.ports),
                        IF balanced THEN d.lb ELSE {}, [i \in DOMAIN ingress |-> IngressString(ingress[i])]) :
              type \in convertServiceType(d.type), policy \in convertExternalTrafficPolicy(d.policy)}

RevertService(d) ==
  LET balanced == d.type = "load-balancer"
      ingress  == [i \in DOMAIN d.ingress |-> IngressInitFromString(d.ingress[i])]
  IN  IF ~Unmarshals(d) THEN {}
      ELSE IF d.cname # Empty
      THEN {KubeService("ExternalName", d.cname, {}, revertSessionAffinity(Nil), Empty, <<>>, {}, <<>>)}
      ELSE {KubeService(type, Empty, d.fixed, revertSessionAffinity(d.stickiness), policy, ports,
                        IF balanced THEN d.lb ELSE {}, IF balanced THEN ingress ELSE <<>>) :
              type \in revertServiceType(d.type), policy \in revertExternalTrafficPolicy(d.policy),
              ports \in revertPorts(d)}

-----------------------------------------------------------------------------
(***************************************************************************)
(* Endpoints: subsets of ports.  The addresses are copied.                 *)
(***************************************************************************)
convertEndpointPort(p) ==
  Text(IF p.protocol = Empty THEN "tcp" ELSE Lower(p.protocol), <<p.port>> \o IfSet(p.name))

\* A variant: the name is required.
revertEndpointPortNamed(text) ==
  IF Len(text.segs) # 2 \/ text.prefix = Nil \/ ~IsNumber(text.segs[1]) THEN {}
  ELSE {[protocol |-> Upper(Lower(text.prefix)), port |-> text.segs[1], name |-> text.segs[2]]}

\* The text has two or three fields, the first of which is the protocol.
revertEndpointPort(text) ==
  IF \/ Lower(text.prefix) \notin {"tcp", "udp"}
     \/ ~IsNumber(text.segs[1])
     \/ Len(text.segs) > 2
  THEN {}
  ELSE {[protocol |-> Upper(Lower(text.prefix)), port |-> text.segs[1],
         name |-> IF Len(text.segs) = 2 THEN text.segs[2] ELSE Empty]}

ConvertSubset(s) == [addrs |-> s.addrs, ports |-> [i \in DOMAIN s.ports |-> convertEndpointPort(s.ports[i])]]
RevertSubset(s) == {[addrs |-> s.addrs, ports |-> ports] : ports \in AllOf([i \in DOMAIN s.ports |-> revertEndpointPort(s.ports[i])])}

-----------------------------------------------------------------------------
(***************************************************************************)
(* Documents, as the types of either syntax let them be.                   *)
(***************************************************************************)
PortNumber == Number \cup {Zero}
IsList(s) == Len(s) \in Nat /\ s = [i \in 1..Len(s) |-> s[i]]

IsContainerPort(p) ==
  /\ p = [name |-> p.name, protocol |-> p.protocol, hostIP |-> p.hostIP, hostPort |-> p.hostPort, containerPort |-> p.containerPort]
  /\ {p.hostPort, p.containerPort} \subseteq PortNumber

IsServicePort(p) ==
  /\ p = [name |-> p.name, protocol |-> p.protocol, port |-> p.port, target |-> p.target, nodePort |-> p.nodePort]
  /\ {p.port, p.nodePort} \subseteq PortNumber

IsIngress(g) == g = [ip |-> g.ip, hostname |-> g.hostname]

IsEndpointPort(p) == p = [name |-> p.name, protocol |-> p.protocol, port |-> p.port] /\ p.port \in PortNumber

IsSubset(s) ==
  /\ s = [addrs |-> s.addrs, ports |-> s.ports]
  /\ IsList(s.ports) /\ \A i \in DOMAIN s.ports : IsEndpointPort(s.ports[i])

IsKube(d) ==
  /\ d.syntax = "kube"
  /\ \/ /\ d.kind = "service"
        /\ d = KubeService(d.type, d.cname, d.fixed, [affinity |-> d.affinity, timeout |-> d.timeout], d.policy,
                           d.ports, d.lb, d.ingress)
        /\ d.timeout \notin {"true", "false"}
        /\ IsList(d.ports) /\ \A i \in DOMAIN d.ports : IsServicePort(d.ports[i])
        /\ IsList(d.ingress) /\ \A i \in DOMAIN d.ingress : IsIngress(d.ingress[i])
     \/ /\ d.kind = "pod"
        /\ d = [syntax |-> "kube", kind |-> "pod", ports |-> d.ports]
        /\ IsList(d.ports) /\ \A i \in DOMAIN d.ports : IsContainerPort(d.ports[i])
     \/ /\ d.kind = "endpoints"
        /\ d = [syntax |-> "kube", kind |-> "endpoints", subsets |-> d.subsets]
        /\ IsList(d.subsets) /\ \A i \in DOMAIN d.subsets : IsSubset(d.subsets[i])

IsKoki(d) ==
  /\ d.syntax = "koki"
  /\ \/ /\ d.kind = "service"
        /\ d.nodePort \in PortNumber
        /\ IsList(d.ports)
        /\ \A i \in DOMAIN d.ports : IsFiniteSet(DOMAIN d.ports[i].entries) /\ d.ports[i].nodePort \in PortNumber
        /\ IsList(d.ingress)
     \/ d.kind = "pod" /\ IsList(d.expose)
     \/ /\ d.kind = "endpoints"
        /\ IsList(d.subsets) /\ \A i \in DOMAIN d.subsets : IsList(d.subsets[i].ports)

ASSUME DocsAssumption == \A d \in FirstDocs : IsKube(d) \/ IsKoki(d)

-----------------------------------------------------------------------------
Init ==
  /\ first \in FirstDocs
  /\ doc = first
  /\ kube = Nil
  /\ koki = Nil
  /\ refused = FALSE

Becomes(results) ==
  /\ \/ \E d \in results : doc' = d /\ UNCHANGED refused
     \/ results = {} /\ refused' = TRUE /\ UNCHANGED doc
  /\ UNCHANGED first

ConvertPod(d) ==
  {[syntax |-> "koki", kind |-> "pod", expose |-> [i \in DOMAIN d.ports |-> convertContainerPort(d.ports[i])]]}
RevertPod(d) ==
  {[syntax |-> "kube", kind |-> "pod", ports |-> ports] :
     ports \in AllOf([i \in DOMAIN d.expose |-> revertExposed(d.expose[i])])}

ConvertEndpoints(d) ==
  {[syntax |-> "koki", kind |-> "endpoints", subsets |-> [i \in DOMAIN d.subsets |-> ConvertSubset(d.subsets[i])]]}
RevertEndpoints(d) ==
  {[syntax |-> "kube", kind |-> "endpoints", subsets |-> subsets] :
     subsets \in AllOf([i \in DOMAIN d.subsets |-> RevertSubset(d.subsets[i])])}

Convert(d) ==
  CASE d.kind = "service" -> ConvertService(d)
    [] d.kind = "pod" -> ConvertPod(d)
    [] d.kind = "endpoints" -> ConvertEndpoints(d)

Revert(d) ==
  CASE d.kind = "service" -> RevertService(d)
    [] d.kind = "pod" -> RevertPod(d)
    [] d.kind = "endpoints" -> RevertEndpoints(d)

ToKoki ==
  /\ ~refused
  /\ doc.syntax = "kube"
  /\ Becomes(Convert(doc))
  /\ kube' = doc
  /\ UNCHANGED koki

ToKube ==
  /\ ~refused
  /\ doc.syntax = "koki"
  /\ Becomes(Revert(doc))
  /\ koki' = doc
  /\ UNCHANGED kube

Next == ToKoki \/ ToKube

Spec == Init /\ [][Next]_vars

-----------------------------------------------------------------------------
(***************************************************************************)
(* Properties                                                              *)
(***************************************************************************)
\* What the API server accepts, of what matters here.
AcceptablePort(p) == p.protocol \in {"TCP", "UDP", Empty}

AcceptableService(d) ==
  /\ d.type \in DOMAIN KokiTypes \cup {Empty, "ExternalName"}
  /\ d.policy \in DOMAIN KokiPolicies \cup {Empty}
  /\ d.affinity \in {Empty, "None", "ClientIP"}
  /\ d.timeout # Nil => d.affinity = "ClientIP"
  /\ d.type = "ExternalName" <=> d.cname # Empty
  /\ d.type = "ExternalName" => d.fixed = {} /\ d.ports = <<>> /\ d.affinity # "ClientIP" /\ d.policy = Empty
  /\ d.type # "LoadBalancer" => d.lb = {} /\ d.ingress = <<>>
  /\ \A i \in DOMAIN d.ports : d.ports[i].port # Zero /\ AcceptablePort(d.ports[i])
  /\ Len(d.ports) > 1 => \A i \in DOMAIN d.ports : d.ports[i].name # Empty
  /\ \A i \in DOMAIN d.ingress : (d.ingress[i].ip = Empty) # (d.ingress[i].hostname = Empty)
  /\ \A i \in DOMAIN d.ingress : d.ingress[i].ip \in Addr \cup {Addr6, Empty} /\ d.ingress[i].hostname \notin Addr \cup {Addr6}

Acceptable(d) ==
  CASE d.kind = "service" -> AcceptableService(d)
    [] d.kind = "pod" -> \A i \in DOMAIN d.ports : d.ports[i].containerPort # Zero /\ AcceptablePort(d.ports[i])
    [] d.kind = "endpoints" -> \A i \in DOMAIN d.subsets : \A j \in DOMAIN d.subsets[i].ports : AcceptablePort(d.subsets[i].ports[j])

\* What a port in Short keeps: not a UDP port with a target that is a name,
\* whose text is not parsed, nor the address of a host, which is parsed and
\* then not copied (revertExpose).
Expressible(d) ==
  CASE d.kind = "service" -> \A i \in DOMAIN d.ports : d.ports[i].protocol = "UDP" => IsNumber(d.ports[i].target)
    [] d.kind = "pod" -> \A i \in DOMAIN d.ports : d.ports[i].hostIP = Empty
    [] d.kind = "endpoints" -> TRUE

\* A manifest with the defaults of the API server.
WithTCP(ports) == [i \in DOMAIN ports |-> [ports[i] EXCEPT !.protocol = IF @ = Empty THEN "TCP" ELSE @]]
SubsetWithTCP(s) == [s EXCEPT !.ports = WithTCP(@)]

Defaulted(d) ==
  CASE d.kind = "service" -> [d EXCEPT !.type = IF @ = Empty THEN "ClusterIP" ELSE @,
                                       !.affinity = IF @ = Empty THEN "None" ELSE @, !.ports = WithTCP(@)]
    [] d.kind = "pod" -> [d EXCEPT !.ports = WithTCP(@)]
    [] d.kind = "endpoints" -> [d EXCEPT !.subsets = [i \in DOMAIN d.subsets |-> SubsetWithTCP(d.subsets[i])]]

\* A manifest that is converted to Short and back is the same to the API
\* server: no port, target, protocol, address or policy is lost, swapped with
\* another or made up when texts are printed and parsed.
KeepsMeaning ==
  (doc.syntax = "kube" /\ kube # Nil /\ Acceptable(kube) /\ Expressible(kube)) => Defaulted(doc) = Defaulted(kube)

\* And it does come back.
ComesBack == (refused /\ kube # Nil /\ Acceptable(kube)) => ~Expressible(kube)

\* What short has written from either syntax it reproduces exactly.
Settles ==
  (doc.syntax = "kube" /\ kube \notin {Nil, first} /\ Acceptable(kube) /\ Expressible(kube)) => doc = kube

\* A text that cannot be parsed, as short writes for a UDP port with a named
\* target, is an error.
\* docs/resources/service.md, of the value of a named port: "The semantics of
\* the value follow the same behavior as the `port` field in Service".
NamedPortAsPort ==
  (doc.syntax = "kube" /\ doc.kind = "service" /\ kube # Nil /\ Acceptable(kube)) =>
    \A i \in DOMAIN koki.ports : \A n \in DOMAIN koki.ports[i].entries :
      ServicePortInit(Blank, koki.ports[i].entries[n]).ok
=============================================================================
