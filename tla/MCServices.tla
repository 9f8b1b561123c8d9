----------------------------- MODULE MCServices -----------------------------
(***************************************************************************)
(* Module Services for two port numbers: containers and Endpoints with up  *)
(* to two ports in every form, Services with up to two ports in every form *)
(* and otherwise plain, and Services with one port and everything else.    *)
(***************************************************************************)
EXTENDS Services

MCNumber == {"53", "80"}
MCAddr == {"10.0.0.1"}

UpToTwo(S) == {<<>>} \cup {<<a>> : a \in S} \cup {<<a, b>> : a, b \in S}

PlainService(ports) ==
  KubeService("NodePort", Empty, {"selector"}, revertSessionAffinity(Nil), Empty, ports, {}, <<>>)

ContainerPorts ==
  [name : {Empty, "web"}, protocol : {Empty, "TCP", "UDP", "SCTP"}, hostIP : MCAddr \cup {Empty, Addr6},
   hostPort : {Zero, "53"}, containerPort : {Zero, "80"}]
FewContainerPorts ==
  [name : {"web"}, protocol : {"TCP", "UDP"}, hostIP : {Empty}, hostPort : {Zero, "53"}, containerPort : {"80"}]

ServicePorts ==
  [name : {Empty, "web"}, protocol : {Empty, "TCP", "UDP", "SCTP"}, port : {Zero, "80"},
   target : {Zero, "53", "80", "dns"}, nodePort : {Zero, "53"}]
FewServicePorts ==
  [name : {"web", "dns"}, protocol : {"TCP", "UDP"}, port : {"80"}, target : {Zero, "53", "dns"}, nodePort : {Zero, "53"}]

EndpointPorts == [name : {Empty, "dns"}, protocol : {Empty, "TCP", "UDP", "SCTP"}, port : {"53", "80"}]
Subset(addrs, ports) == [addrs |-> addrs, ports |-> ports]

KubeDocs ==
  {[syntax |-> "kube", kind |-> "pod", ports |-> p] : p \in UpToTwo(FewContainerPorts) \cup {<<c>> : c \in ContainerPorts}}
  \cup {PlainService(p) : p \in UpToTwo(FewServicePorts) \cup {<<c>> : c \in ServicePorts}}
  \cup {[syntax |-> "kube", kind |-> "endpoints", subsets |-> <<Subset("a", p)>>] : p \in UpToTwo(EndpointPorts)}
  \cup {[syntax |-> "kube", kind |-> "endpoints", subsets |-> <<Subset("a", <<p>>), Subset("b", <<q>>)>>] :
          p, q \in EndpointPorts}
  \cup [syntax : {"kube"}, kind : {"service"}, type : {Empty, "ClusterIP", "NodePort", "LoadBalancer", "ExternalName", "Bogus"},
        cname : {Empty, "host"}, fixed : {{}, {"selector"}}, affinity : {Empty, "None", "ClientIP"}, timeout : {Nil, "30"},
        policy : {Empty, "Local", "Cluster", "Bogus"},
        ports : {<<>>, <<[name |-> Empty, protocol |-> Empty, port |-> "80", target |-> Zero, nodePort |-> Zero]>>},
        lb : {{}, {"ip", "sources"}},
        ingress : UpToTwo([ip : {Empty, "10.0.0.1"}, hostname : {Empty, "host"}]
                          \cup [ip : {Empty}, hostname : {"10.0.0.1"}] \cup [ip : {"bogus"}, hostname : {Empty}])]

Segs == UNION {[1..n -> {"80", "dns", Empty, "10.0.0.1"}] : n \in 1..3}
Texts == [prefix : {Nil, "udp", "tcp", "UDP", "bogus"}, segs : Segs]
FewTexts == [prefix : {Nil, "udp"}, segs : {<<"80">>, <<"80", "53">>, <<"80", "dns">>, <<"dns">>}]

Entries == [{"web"} -> Texts] \cup [{"web", "dns"} -> FewTexts] \cup {<<>>, [n \in {"web", "dns", "x"} |-> Text(Nil, <<"80">>)]}

KokiPorts(port, nodePort, ports) ==
  KokiService("node-port", Empty, {}, Nil, Empty, [port |-> port, nodePort |-> nodePort, ports |-> ports], {}, <<>>)

KokiDocs ==
  {[syntax |-> "koki", kind |-> "pod", expose |-> <<[name |-> n, text |-> t]>>] : n \in {Empty, "web"}, t \in Texts}
  \cup {[syntax |-> "koki", kind |-> "endpoints", subsets |-> <<Subset("a", <<t>>)>>] : t \in Texts}
  \cup {KokiPorts({t}, n, <<>>) : t \in Texts, n \in {Zero, "53"}}
  \cup {KokiPorts(t, Zero, <<[entries |-> e, nodePort |-> n]>>) : t \in {{}, {Text(Nil, <<"80">>)}}, e \in Entries, n \in {Zero, "53"}}
  \cup {KokiService(type, cname, {"selector"}, sticky, policy, [port |-> t, nodePort |-> Zero, ports |-> <<>>], lb, ingress) :
          type \in {Empty, "cluster-ip", "load-balancer", "ClusterIP"}, cname \in {Empty, "host"},
          sticky \in {Nil, "true", "false", "30"}, policy \in {Empty, "node-local", "Local"},
          t \in {{}, {Text(Nil, <<"80">>)}, {Text(Nil, <<"dns">>)}}, lb \in {{}, {"ip"}},
          ingress \in {<<>>, <<"host">>, <<"10.0.0.1", "host">>}}

MCFirstDocs == KubeDocs \cup KokiDocs
=============================================================================
