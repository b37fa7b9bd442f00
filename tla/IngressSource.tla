--------------------------- MODULE IngressSource ---------------------------
(***************************************************************************)
(* The other sources of Kubernetes' own resources and of DNSEndpoints:     *)
(* source/ingress.go, source/node.go, source/pod.go and source/crd.go.     *)
(***************************************************************************)
EXTENDS SourceAPI

-----------------------------------------------------------------------------
(***************************************************************************)
(* Ingresses.                                                              *)
(***************************************************************************)

\* The class of the specification counts before that of the annotation.
filterByIngressClass(c, ing) ==
    c.ingressClasses = {} \/ (IF ing.className # "" THEN ing.className ELSE ing.classAnn) \in c.ingressClasses

targetsFromIngress(ing) == TargetsOr(ing, ing.lb)

endpointsFromIngress(c, ing) ==
    LET of(hosts) == EndpointsForHosts(hosts, targetsFromIngress(ing), ing, TTLFromAnnotations(ing))
        defined == of((IF c.ignoreIngressRules THEN <<>> ELSE ing.rules)
                          \o (IF c.ignoreIngressTLS THEN <<>> ELSE ing.tls))
        annotated == of(AnnotatedHosts(c, ing))
    IN  CASE ing.hostSource = "" -> defined \o annotated
          [] ing.hostSource = "defined-hosts-only" -> defined
          [] ing.hostSource = "annotation-only" -> annotated
          [] OTHER -> <<>>

IngressEndpoints(c, ing) ==
    IF ~Selected(c, ing) \/ ~filterByIngressClass(c, ing) \/ IsControllerMismatch(ing)
    THEN Ok(<<>>)
    ELSE CombineWithTemplatedEndpoints(c, ing, endpointsFromIngress(c, ing),
             EndpointsForHosts(ing.templateHosts, targetsFromIngress(ing), ing, TTLFromAnnotations(ing)))

-----------------------------------------------------------------------------
(***************************************************************************)
(* Nodes.  A node without any address is an error of the whole source.     *)
(***************************************************************************)

nodeAddresses(c, node) ==
    LET of(type) == {a.address : a \in {b \in node.addresses : b.type = type}}
        v6 == {t \in of("InternalIP") : suitableType(t) = "AAAA"}
    IN  IF of("ExternalIP") # {}
        THEN of("ExternalIP") \cup (IF c.exposeInternalIPv6 THEN v6 ELSE {})
        ELSE of("InternalIP")

\* One endpoint per name and address.
endpointsForDNSNames(c, node, names) ==
    LET targets == TargetsOr(node, nodeAddresses(c, node))
    IN  ForEach(LAMBDA n : SetToSeq({SourceEp(n, suitableType(t), {t}, TTLFromAnnotations(node), "",
                                              node.rank) : t \in targets}), names)

NodeEndpoints(c, node) ==
    LET unnamed == c.template /\ ~c.combine     \* no endpoint for the name of the node
        own == IF unnamed THEN <<>> ELSE endpointsForDNSNames(c, node, <<<<node.name>>>>)
        lost == node.targetAnn = {} /\ nodeAddresses(c, node) = {}
    IN  IF ~(c.labelSelector \subseteq node.labels) \/ ~AnnotationFilter(c, node)
              \/ IsControllerMismatch(node) \/ (node.unschedulable /\ c.excludeUnschedulable)
        THEN Ok(<<>>)
        ELSE IF lost THEN Err
        ELSE CombineWithTemplatedEndpoints(c, node, own,
                                           endpointsForDNSNames(c, node, node.templateHosts))

-----------------------------------------------------------------------------
(***************************************************************************)
(* Pods.                                                                   *)
(***************************************************************************)

\* The external addresses of the node that a pod runs on, if the node is known.
PodNodeTargets(pod, v) ==
    LET addresses == UNION {n.addresses : n \in {m \in Range(v.node) : m.name = pod.node}}
    IN  {a.address : a \in {b \in addresses :
            \/ b.type = "ExternalIP"
            \/ b.type = "InternalIP" /\ suitableType(b.address) = "AAAA"}}

\* The pairs of domain and target that the annotations of a pod ask for.
addPodEndpointsToEndpointMap(c, pod, v) ==
    LET kops == c.compatibility = "kops-dns-controller"
        domain == IF c.podDomain = <<>> THEN {} ELSE {<<pod.name>> \o c.podDomain}
    IN  IF c.ignoreNonHostNetworkPods /\ ~pod.hostNetwork THEN {}
        ELSE (Range(pod.internalHostnames) \cup domain) \X TargetsOr(pod, {pod.podIP})
                 \cup Range(pod.hostnames) \X TargetsOr(pod, PodNodeTargets(pod, v))
                 \cup (IF ~kops THEN {}
                       ELSE Range(pod.kopsInternal) \X {pod.podIP}
                                \cup Range(pod.kopsExternal) \X PodNodeTargets(pod, v))

\* One endpoint for each domain and type.
EndpointsOfPairs(pairs, ttl) ==
    LET keys == {<<p[1], suitableType(p[2])>> : p \in pairs}
        targets(k) == {p[2] : p \in {q \in pairs : <<q[1], suitableType(q[2])>> = k}}
    IN  SetToSeq({SourceEp(k[1], k[2], targets(k), ttl, "", 0) : k \in keys})

PodEndpoints(c, pod, v) ==
    LET ttl == TTLFromAnnotations(pod)
    IN  IF ~Selected(c, pod) THEN Ok(<<>>)
        ELSE CombineWithTemplatedEndpoints(c, pod,
                 EndpointsOfPairs(addPodEndpointsToEndpointMap(c, pod, v), ttl),
                 EndpointsOfPairs(Range(pod.templateHosts) \X pod.podIPs, ttl))

-----------------------------------------------------------------------------
(***************************************************************************)
(* DNSEndpoint resources carry endpoints as they are: records [name, type, *)
(* targets, ttl, set].  Names of NAPTR targets must end with a dot, others *)
(* must not; what a TXT says is free.                                      *)
(***************************************************************************)

LegalTargets(e) ==
    \/ e.type = "TXT"
    \/ \A t \in e.targets : e.type = "NAPTR" <=> t.dot

CRDEndpoints(c, o) ==
    LET legal == SelectSeq(o.endpoints, LegalTargets)
    IN  IF ~Selected(c, o) THEN Ok(<<>>)
        ELSE Ok([i \in DOMAIN legal |->
                    SourceEp(legal[i].name, legal[i].type, {t.host : t \in legal[i].targets},
                             legal[i].ttl, legal[i].set, o.rank)])

=============================================================================
