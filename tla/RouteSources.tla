---------------------------- MODULE RouteSources ----------------------------
(***************************************************************************)
(* The sources of the resources of ingress controllers and service meshes. *)
(* Most of them read one kind of resource, whose status or annotation      *)
(* gives the targets; Ambassador, Istio and Gloo follow references to      *)
(* other resources, and differ in what a dangling one does: Ambassador and *)
(* an Istio VirtualService skip it, an Istio Gateway and Gloo fail.        *)
(*                                                                         *)
(* A resource that cannot be converted to its type is malformed, an error  *)
(* of its source.                                                          *)
(***************************************************************************)
EXTENDS SourceAPI

\* The endpoints of hosts, with the annotations of o.
Plainly(o, hosts, targets) ==
    EndpointsForHosts(hosts, targets, o, TTLFromAnnotations(o))

\* Hosts of the specification, then those of the annotation; the template.
HostsThenAnnotation(c, o, hosts, targets) ==
    CombineWithTemplatedEndpoints(c, o, Plainly(o, hosts \o AnnotatedHosts(c, o), targets),
                                  Plainly(o, o.templateHosts, targets))

-----------------------------------------------------------------------------
(***************************************************************************)
(* Contour, Skipper, Kong, Traefik, F5 and OpenShift.                      *)
(***************************************************************************)

HTTPProxyEndpoints(c, o) ==
    IF o.malformed THEN Err
    ELSE IF ~InNamespace(c, o) \/ ~AnnotationFilter(c, o) \/ IsControllerMismatch(o) THEN Ok(<<>>)
    ELSE HostsThenAnnotation(c, o, o.hosts, TargetsOr(o, o.lb))

RouteGroupEndpoints(c, o) ==
    IF ~InNamespace(c, o) \/ ~AnnotationFilter(c, o) \/ IsControllerMismatch(o) THEN Ok(<<>>)
    ELSE HostsThenAnnotation(c, o, o.hosts, TargetsOr(o, o.lb))

TCPIngressEndpoints(c, o) ==
    IF o.malformed THEN Err
    ELSE IF ~InNamespace(c, o) \/ ~AnnotationFilter(c, o) THEN Ok(<<>>)
    ELSE Ok(Plainly(o, AnnotatedHosts(c, o) \o o.hosts, TargetsOr(o, o.lb)))

\* The hosts are those of the match rules; an IngressRouteUDP has none.
TraefikEndpoints(c, o) ==
    IF o.malformed THEN Err
    ELSE IF ~InNamespace(c, o) \/ ~AnnotationFilter(c, o) THEN Ok(<<>>)
    ELSE Ok(Plainly(o, AnnotatedHosts(c, o) \o o.hosts, o.targetAnn))

\* The address of the status must be valid, even if another one is used.
F5Endpoints(c, o) ==
    LET address == IF o.specAddress # "" THEN o.specAddress ELSE o.statusAddress
    IN  IF o.malformed THEN Err
        ELSE IF ~InNamespace(c, o) \/ ~AnnotationFilter(c, o) \/ o.statusAddress \in {"", "none"}
        THEN Ok(<<>>)
        ELSE Ok(ForEach(LAMBDA h : EndpointsForHostname(h, TargetsOr(o, {address}),
                                                        TTLFromAnnotations(o), "", o.rank),
                        <<o.host>> \o o.aliases))

\* A TransportServer is a VirtualServer without aliases.
TransportServerEndpoints(c, o) == F5Endpoints(c, [aliases |-> <<>>] @@ o)

\* The first router that admitted the route, or the one that is configured.
getTargetsFromRouteStatus(c, o) ==
    SelectSeq(o.routers, LAMBDA r : r.admitted /\ r.canonical # "" /\ c.routerName \in {"", r.name})

OcpRouteEndpoints(c, o) ==
    LET routers == getTargetsFromRouteStatus(c, o)
        host == IF routers = <<>> THEN <<>> ELSE <<Head(routers).host>>
        targets == TargetsOr(o, IF routers = <<>> THEN {} ELSE {Head(routers).canonical})
    IN  IF ~Selected(c, o) \/ IsControllerMismatch(o) THEN Ok(<<>>)
        ELSE HostsThenAnnotation(c, o, SelectSeq(host, LAMBDA h : h # <<>>), targets)

-----------------------------------------------------------------------------
(***************************************************************************)
(* Ambassador: the service of the annotation is read from the API server.  *)
(***************************************************************************)

AmbassadorEndpoints(c, o, v) ==
    LET service == Named(v.apiservice, o.service[1], o.service[2])
        ofService(s) == IF s.externalIPs # {} THEN s.externalIPs ELSE s.lb
        targets == TargetsOr(o, IF service = <<>> THEN {} ELSE ofService(Head(service)))
    IN  IF o.malformed THEN Err
        ELSE IF ~Selected(c, o) \/ o.service = <<"", "">> THEN Ok(<<>>)
        ELSE Ok(Plainly(o, o.hosts, targets))

-----------------------------------------------------------------------------
(***************************************************************************)
(* Istio.                                                                  *)
(***************************************************************************)

\* The ingress that an annotation names; without a namespace, in that of its object.
\* A missing one is an error.
IngressOf(o, v) == Named(v.ingress, IF o.ingress[1] = "" THEN o.ns ELSE o.ingress[1], o.ingress[2])

\* targetsFromGateway fails if its ingress is missing.
Dangling(gw, v) ==
    gw.targetAnn = {} /\ gw.ingress # <<"", "">> /\ IngressOf(gw, v) = <<>>

targetsFromGateway(c, gw, v) ==
    IF gw.targetAnn # {} THEN gw.targetAnn
    ELSE IF gw.ingress # <<"", "">> THEN UNION {i.lb : i \in Range(IngressOf(gw, v))}
    ELSE EndpointTargetsFromServices(c, v, gw.selector)

\* A host of a server is a pair of a namespace and a host name.
hostNamesFromGateway(c, gw) ==
    LET named == SelectSeq(gw.servers, LAMBDA h : h[2] \notin {<<>>, <<"*">>})
    IN  [i \in DOMAIN named |-> named[i][2]] \o AnnotatedHosts(c, gw)

\* Gateways are listed from the API server.
IstioGatewayEndpoints(c, gw, v) ==
    LET targets == targetsFromGateway(c, gw, v)
    IN  IF ~InNamespace(c, gw) \/ ~AnnotationFilter(c, gw) \/ IsControllerMismatch(gw) THEN Ok(<<>>)
        ELSE IF Dangling(gw, v) THEN Err
        ELSE CombineWithTemplatedEndpoints(c, gw, Plainly(gw, hostNamesFromGateway(c, gw), targets),
                                           Plainly(gw, gw.templateHosts, targets))

virtualServiceBindsToGateway(vs, gw, host) ==
    /\ \/ vs.exportTo = {}
       \/ vs.exportTo \cap {"*", gw.ns} # {}
       \/ "." \in vs.exportTo /\ gw.ns = vs.ns
    /\ \E h \in Range(gw.servers) :
           /\ h[1] \in {"*", vs.ns} \/ (h[1] = "." /\ gw.ns = vs.ns)
           /\ \/ h[2] \in {<<"*">>, host}
              \/ h[2] # <<>> /\ h[2][1] = "*" /\ Len(host) >= Len(h[2]) /\ IsSuffix(Tail(h[2]), host)

\* The gateways of a VirtualService; "mesh" and missing ones are skipped.
GatewaysOf(vs, v, host) ==
    {gw \in UNION {Range(Named(v.istiogateway, IF g[1] = "" THEN vs.ns ELSE g[1], g[2])) : g \in vs.gateways} :
        virtualServiceBindsToGateway(vs, gw, host)}

targetsFromVirtualService(c, vs, v, host) ==
    UNION {targetsFromGateway(c, gw, v) : gw \in GatewaysOf(vs, v, host)}

IstioVirtualServiceEndpoints(c, vs, v) ==
    LET hosts == SelectSeq(vs.hosts, LAMBDA h : h \notin {<<>>, <<"*">>}) \o AnnotatedHosts(c, vs)
        of(host, targets) ==
            EndpointsForHostname(host, targets, TTLFromAnnotations(vs), vs.set, vs.rank)
        dangling(hs) == \E h \in Range(hs) : \E gw \in GatewaysOf(vs, v, h) : Dangling(gw, v)
        own == ForEach(LAMBDA h : of(h, TargetsOr(vs, targetsFromVirtualService(c, vs, v, h))), hosts)
        fromTemplate == ForEach(LAMBDA h : of(h, targetsFromVirtualService(c, vs, v, h)),
                                vs.templateHosts)
    IN  IF ~InNamespace(c, vs) \/ ~AnnotationFilter(c, vs) \/ IsControllerMismatch(vs) THEN Ok(<<>>)
        ELSE IF vs.targetAnn = {} /\ dangling(hosts) THEN Err
        ELSE IF c.template /\ (c.combine \/ own = <<>>) /\ dangling(vs.templateHosts) THEN Err
        ELSE CombineWithTemplatedEndpoints(c, vs, own, fromTemplate)

-----------------------------------------------------------------------------
(***************************************************************************)
(* Gloo: a Proxy refers to Gateways, VirtualServices and a Service of its  *)
(* own name.                                                               *)
(***************************************************************************)

\* The targets of the ingresses that the gateways of a proxy name, and whether one of the
\* references leads nowhere.
targetsFromGatewayIngress(p, v) ==
    LET found == [r \in p.gatewayRefs |-> Named(v.gloogateway, r[1], r[2])]
        gws == UNION {Range(found[r]) : r \in p.gatewayRefs}
        annotated == {g \in gws : g.ingress # <<"", "">>}
    IN  [err |-> \/ \E r \in p.gatewayRefs : found[r] = <<>>
                 \/ \E g \in annotated : IngressOf(g, v) = <<>>,
         targets |-> UNION {UNION {i.lb : i \in Range(IngressOf(g, v))} : g \in annotated}]

\* The service of the proxy, if its type is LoadBalancer.
proxyTargets(p, v) ==
    LET service == Named(v.service, p.ns, p.name)
    IN  [err |-> service = <<>>,
         targets |-> UNION {s.lb : s \in {x \in Range(service) : x.type = "LoadBalancer"}}]

\* The annotations of a virtual host: of the later of its VirtualServices, if it has one.
annotationsFromProxySource(vh, v) ==
    LET found == [i \in DOMAIN vh.services |-> Named(v.gloovirtualservice, vh.services[i][1],
                                                     vh.services[i][2])]
        all == FlattenSeq(found)
        set == SelectSeq(all, LAMBDA s : s.ttl # 0)
    IN  [err |-> \E i \in DOMAIN found : found[i] = <<>>,
         ttl |-> IF set = <<>> THEN 0 ELSE TTLFromAnnotations(Last(set))]

GlooEndpoints(c, p, v) ==
    LET ingress == targetsFromGatewayIngress(p, v)
        service == proxyTargets(p, v)
        useIngress == p.targetAnn = {}
        useService == useIngress /\ ingress.targets = {}
        targets == TargetsOr(p, IF useService THEN service.targets ELSE ingress.targets)
    IN  IF p.ns \notin c.glooNamespaces THEN Ok(<<>>)
        ELSE IF \/ useIngress /\ ingress.err
                \/ useService /\ service.err
                \/ \E vh \in Range(p.virtualHosts) : annotationsFromProxySource(vh, v).err
        THEN Err
        ELSE Ok(ForEach(LAMBDA vh :
                    ForEach(LAMBDA d : EndpointsForHostname(d, targets,
                                           annotationsFromProxySource(vh, v).ttl, "", 0), vh.domains),
                    p.virtualHosts))

=============================================================================
