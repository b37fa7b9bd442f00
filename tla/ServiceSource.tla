--------------------------- MODULE ServiceSource ---------------------------
(***************************************************************************)
(* source/service.go and source/compatibility.go: the endpoints of         *)
(* Services, which need pods, EndpointSlices and nodes, each from an       *)
(* informer of its own.                                                    *)
(***************************************************************************)
EXTENDS SourceAPI

\* The addresses of nodes that are published as external ones.
External(c, a) ==
    \/ a.type = "ExternalIP"
    \/ c.exposeInternalIPv6 /\ a.type = "InternalIP" /\ suitableType(a.address) = "AAAA"

SelectedPods(svc, v) ==
    SelectSeq(v.pod, LAMBDA p : p.ns = svc.ns /\ svc.selector \subseteq p.labels)

NodesNamed(v, name) == {n \in Range(v.node) : n.name = name}

-----------------------------------------------------------------------------
(***************************************************************************)
(* Headless services.                                                      *)
(***************************************************************************)

\* The pod that an address of an EndpointSlice belongs to, if the pod is known.
findPodForEndpoint(e, pods) == {p \in Range(pods) : p.name = e.pod}

\* There is no node informer if the type filter leaves out NodePort.
NodesKnown(c) == c.serviceTypes = {} \/ "NodePort" \in c.serviceTypes

getTargetsForDomain(c, svc, v, pod, e) ==
    LET addresses == UNION {n.addresses : n \in NodesNamed(v, pod.node)}
    IN  IF pod.targetAnn # {} THEN pod.targetAnn
        ELSE IF svc.endpointsType = "NodeExternalIP"
        THEN {a.address : a \in {b \in addresses : NodesKnown(c) /\ External(c, b)}}
        ELSE IF svc.endpointsType = "HostIP" \/ c.publishHostIP THEN {pod.hostIP}
        ELSE Range(SubSeq(e.addresses, 1, 1))

\* The pairs of domain and target of a headless service.
processHeadlessEndpointsFromSlices(c, svc, v, host) ==
    LET publishPodIPs == svc.endpointsType \notin {"NodeExternalIP", "HostIP"} /\ ~c.publishHostIP
        slices == {s \in Range(v.endpointslice) : s.ns = svc.ns /\ s.service = svc.name}
        wanted == {<<s, e>> \in slices \X UNION {s.endpoints : s \in slices} :
                      /\ e \in s.endpoints
                      /\ e.ready \/ svc.publishNotReady \/ c.publishNotReady
                      /\ publishPodIPs => s.addressType \in {"IPv4", "IPv6"}}
        found == UNION {{<<x[2], p>> : p \in findPodForEndpoint(x[2], SelectedPods(svc, v))} :
                        x \in wanted}
        domains(p) == {host} \cup (IF p.hostname = "" THEN {} ELSE {<<p.hostname>> \o host})
    IN  UNION {domains(x[2]) \X getTargetsForDomain(c, svc, v, x[2], x[1]) : x \in found}

\* One endpoint for each domain and type.
buildHeadlessEndpoints(svc, pairs) ==
    LET keys == {<<p[1], suitableType(p[2])>> : p \in pairs}
        targets(k) == {p[2] : p \in {q \in pairs : <<q[1], suitableType(q[2])>> = k}}
    IN  SetToSeq({SourceEp(k[1], k[2], targets(k), TTLFromAnnotations(svc), svc.set, svc.rank) :
                  k \in keys})

extractHeadlessEndpoints(c, svc, v, host) ==
    buildHeadlessEndpoints(svc, processHeadlessEndpointsFromSlices(c, svc, v, host))

-----------------------------------------------------------------------------
(***************************************************************************)
(* Node ports.                                                             *)
(***************************************************************************)

\* The nodes with running pods of svc.  The first pod in the list decides about its node.
nodesExternalTrafficPolicyTypeLocal(svc, v) ==
    LET pods == SelectSeq(SelectedPods(svc, v),
                          LAMBDA p : p.phase = "Running" /\ NodesNamed(v, p.node) # {})
        judge(n) == pods[CHOOSE i \in DOMAIN pods :
                            /\ pods[i].node = n.name
                            /\ \A j \in 1..(i - 1) : pods[j].node # n.name]
        running == {n \in Range(v.node) : \E p \in Range(pods) : p.node = n.name}
        ready == {n \in running : judge(n).ready}
        staying == {n \in ready : ~judge(n).terminating}
    IN  CASE staying # {} -> staying [] staying = {} /\ ready # {} -> ready [] OTHER -> running

extractNodePortTargets(c, svc, v) ==
    LET nodes == IF svc.trafficPolicy = "Local" THEN nodesExternalTrafficPolicyTypeLocal(svc, v)
                 ELSE Range(v.node)
        used == {n \in nodes : ~(n.unschedulable /\ c.excludeUnschedulable)}
        of(type) == {a.address : a \in {b \in UNION {n.addresses : n \in used} : b.type = type}}
        v6 == {t \in of("InternalIP") : suitableType(t) = "AAAA"}
        public == of("ExternalIP") \cup (IF c.exposeInternalIPv6 THEN v6 ELSE {})
    IN  IF svc.access = "public" \/ (svc.access # "private" /\ of("ExternalIP") # {})
        THEN public ELSE of("InternalIP")

\* An SRV record for each node port.
extractNodePortEndpoints(svc, host) ==
    LET ports == SelectSeq(svc.ports, LAMBDA p : p.nodePort > 0)
    IN  [i \in DOMAIN ports |->
            SourceEp(<<svc.name, ports[i].protocol>> \o host, "SRV", {<<ports[i].nodePort, host>>},
                     TTLFromAnnotations(svc), svc.set, svc.rank)]

-----------------------------------------------------------------------------
extractServiceIps(svc) == IF svc.clusterIP = "None" THEN {} ELSE {svc.clusterIP}
extractServiceExternalName(svc) ==
    IF svc.externalIPs # {} THEN svc.externalIPs ELSE {svc.externalName}
extractLoadBalancerTargets(svc) ==
    IF svc.externalIPs # {} THEN svc.externalIPs ELSE svc.lb

\* What the type of a service gives: endpoints and targets of the host name.
generateEndpoints(c, svc, v, host, useClusterIP) ==
    LET headless == svc.type = "ClusterIP" /\ svc.clusterIP = "None"
        targets ==
            CASE svc.type = "LoadBalancer" /\ useClusterIP -> extractServiceIps(svc)
              [] svc.type = "LoadBalancer" /\ ~useClusterIP -> extractLoadBalancerTargets(svc)
              [] svc.type = "ClusterIP" /\ ~headless /\ (useClusterIP \/ c.publishInternal) ->
                     extractServiceIps(svc)
              [] svc.type = "NodePort" -> extractNodePortTargets(c, svc, v)
              [] svc.type = "ExternalName" -> extractServiceExternalName(svc)
              [] OTHER -> {}
        special ==
            CASE headless -> extractHeadlessEndpoints(c, svc, v, host)
              [] svc.type = "NodePort" -> extractNodePortEndpoints(svc, host)
              [] OTHER -> <<>>
    IN  (IF svc.targetAnn # {} THEN <<>> ELSE special)
            \o EndpointsForHostname(host, TargetsOr(svc, targets), TTLFromAnnotations(svc),
                                    svc.set, svc.rank)

endpoints(c, svc, v) ==
    IF c.ignoreHostnameAnnotation THEN <<>>
    ELSE ForEach(LAMBDA h : generateEndpoints(c, svc, v, h, FALSE), svc.hostnames)
             \o ForEach(LAMBDA h : generateEndpoints(c, svc, v, h, TRUE), svc.internalHostnames)

-----------------------------------------------------------------------------
(***************************************************************************)
(* Annotations of mate, molecule and the DNS controller of kOps, for       *)
(* services without endpoints.  One endpoint per target, without labels.   *)
(***************************************************************************)

\* typeOf gives each target its record type.
OnePerTarget(hosts, typeOf) ==
    ForEach(LAMBDA h : SetToSeq({SourceEp(h, typeOf[t], {t}, 0, "", 0) : t \in DOMAIN typeOf}), hosts)

SuitableTypes(targets) == [t \in targets |-> suitableType(t)]

\* Every address of a load balancer is taken for an A record.
LegacyTypes(targets) == [t \in targets |-> IF suitableType(t) = "CNAME" THEN "CNAME" ELSE "A"]

legacyEndpointsFromDNSControllerNodePortService(c, svc, v) ==
    LET workers == {n \in Range(v.node) : "node-role.kubernetes.io/node" \in n.labels}
        of(P(_)) == {a.address : a \in {b \in UNION {n.addresses : n \in workers} : P(b)}}
    IN  CASE svc.kopsExternal # <<>> /\ svc.kopsInternal = <<>> ->
                 OnePerTarget(svc.kopsExternal, SuitableTypes(of(LAMBDA a : External(c, a))))
          [] svc.kopsExternal = <<>> /\ svc.kopsInternal # <<>> ->
                 OnePerTarget(svc.kopsInternal, SuitableTypes(of(LAMBDA a : a.type = "InternalIP")))
          [] OTHER -> <<>>

legacyEndpointsFromService(c, svc, v) ==
    CASE c.compatibility = "mate" -> OnePerTarget(svc.mate, LegacyTypes(svc.lb))
      [] c.compatibility = "molecule" /\ "dns=route53" \in svc.labels ->
             OnePerTarget(svc.molecule, LegacyTypes(svc.lb))
      [] c.compatibility = "kops-dns-controller" /\ svc.type = "NodePort" ->
             legacyEndpointsFromDNSControllerNodePortService(c, svc, v)
      [] c.compatibility = "kops-dns-controller" /\ svc.type = "LoadBalancer" ->
             OnePerTarget(svc.kopsExternal \o svc.kopsInternal, LegacyTypes(svc.lb))
      [] OTHER -> <<>>

-----------------------------------------------------------------------------
(***************************************************************************)
(* Endpoints: one service, and what is done with those of all services.    *)
(***************************************************************************)

ServiceEndpoints(c, svc, v) ==
    LET own == endpoints(c, svc, v)
        known == IF own = <<>> THEN legacyEndpointsFromService(c, svc, v) ELSE own
        templated == ForEach(LAMBDA h : generateEndpoints(c, svc, v, h, FALSE), svc.templateHosts)
    IN  IF ~Selected(c, svc) \/ (c.serviceTypes # {} /\ svc.type \notin c.serviceTypes)
              \/ IsControllerMismatch(svc)
        THEN Ok(<<>>)
        ELSE CombineWithTemplatedEndpoints(c, svc, known, templated)

\* MUTANT: services are merged in the order in which the informer lists them.
ServiceMergeUnsorted(eps) ==
    ForEach(LAMBDA e : IF e.type = "CNAME"
                       THEN SelectSeq(eps, LAMBDA x : KeyOf(x) = KeyOf(e)) ELSE <<e>>,
            MergeBy(KeyOf, eps))

\* Services that share a name, sorted by their resource label so that the same one lends
\* its label and ttl to the record in every run.  CNAMEs are not merged.
ServiceMerge(eps) ==
    LET sorted == SortSeq(eps, LAMBDA a, b : a.resource < b.resource)
    IN  IF Len(eps) <= 1 THEN eps ELSE
        ForEach(LAMBDA e : IF e.type = "CNAME"
                           THEN SelectSeq(sorted, LAMBDA x : KeyOf(x) = KeyOf(e)) ELSE <<e>>,
                MergeBy(KeyOf, sorted))

=============================================================================
