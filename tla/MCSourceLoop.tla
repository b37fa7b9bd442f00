---------------------------- MODULE MCSourceLoop ----------------------------
(***************************************************************************)
(* Installations for SourceLoop: for each family of sources a few objects  *)
(* that depend on each other or compete for a name, and changes that       *)
(* matter.                                                                 *)
(***************************************************************************)
EXTENDS SourceLoop

Flags ==
    [namespace |-> "", labelSelector |-> {}, annotationFilter |-> {},
     ignoreHostnameAnnotation |-> FALSE, template |-> FALSE, combine |-> FALSE,
     compatibility |-> "", publishHostIP |-> FALSE, publishInternal |-> FALSE,
     publishNotReady |-> FALSE, exposeInternalIPv6 |-> FALSE, excludeUnschedulable |-> TRUE,
     listenEndpointEvents |-> FALSE, serviceTypes |-> {}, ingressClasses |-> {},
     ignoreIngressRules |-> FALSE, ignoreIngressTLS |-> FALSE, podDomain |-> <<>>,
     ignoreNonHostNetworkPods |-> FALSE, gatewayName |-> "", gatewayNamespace |-> "",
     gatewayLabels |-> {}, routerName |-> "", glooNamespaces |-> {"n1"},
     defaultTargets |-> {}, forceDefaultTargets |-> FALSE, nat64 |-> <<>>, filters |-> FALSE,
     filterNets |-> {}, excludes |-> FALSE, excludeNets |-> {}, minTTL |-> 0]

Object ==
    [ns |-> "n1", rank |-> 1, labels |-> {}, other |-> {}, hostnames |-> <<>>,
     internalHostnames |-> <<>>, targetAnn |-> {}, ttl |-> 0, controller |-> "", set |-> "",
     templateHosts |-> <<>>, templateFails |-> FALSE, lb |-> {}, malformed |-> FALSE]

A == <<"a", "org">>
B == <<"b", "org">>
Wild == <<"*", "org">>
Upper == <<"A", "org">>
Bad == <<"_", "org">>

-----------------------------------------------------------------------------
(***************************************************************************)
(* Objects.                                                                *)
(***************************************************************************)

ServiceObject ==
    [type |-> "LoadBalancer", clusterIP |-> "c1", externalIPs |-> {}, externalName |-> "name",
     selector |-> {}, ports |-> <<>>, trafficPolicy |-> "", access |-> "", endpointsType |-> "",
     publishNotReady |-> FALSE, mate |-> <<>>, molecule |-> <<>>, kopsExternal |-> <<>>,
     kopsInternal |-> <<>>] @@ Object

PodObject ==
    [hostname |-> "", node |-> "node1", hostIP |-> "h1", phase |-> "Running", ready |-> TRUE,
     terminating |-> FALSE, podIP |-> "p1", podIPs |-> {"p1"}, hostNetwork |-> FALSE,
     kopsExternal |-> <<>>, kopsInternal |-> <<>>] @@ ([labels |-> {"app"}] @@ Object)

NodeObject ==
    [unschedulable |-> FALSE,
     addresses |-> {[type |-> "ExternalIP", address |-> "x1"], [type |-> "InternalIP", address |-> "six"]}]
        @@ Object

Slice(endpoints) ==
    [name |-> "slice", ns |-> "n1", service |-> "s1", addressType |-> "IPv4", endpoints |-> endpoints]

IngressObject ==
    [className |-> "", classAnn |-> "", rules |-> <<>>, tls |-> <<>>, hostSource |-> ""] @@ Object

RouteObject ==
    [kind |-> "HTTPRoute", protocol |-> "HTTP", hosts |-> <<>>, hostSource |-> "", parentRefs |-> {},
     statusParents |-> {}] @@ Object

Listener(name, host, from) ==
    [name |-> name, hostname |-> host, protocol |-> "HTTP", port |-> 80, kinds |-> {}, from |-> from,
     nsSelector |-> {"open"}]

Put(k, o) == [kind |-> k, name |-> o.name, add |-> <<o>>]
Delete(k, name) == [kind |-> k, name |-> name, add |-> <<>>]

-----------------------------------------------------------------------------
(***************************************************************************)
(* Services.                                                               *)
(***************************************************************************)

\* A headless service, whose EndpointSlice and pods come from different informers.
Addr(pod, address) == [ready |-> TRUE, pod |-> pod, addresses |-> <<address>>]
Pod1 == [name |-> "pod1", hostname |-> "one"] @@ PodObject
Pod2 == [name |-> "pod2", podIP |-> "p2", hostname |-> "two", node |-> "node2"] @@ PodObject
Node1 == [name |-> "node1"] @@ NodeObject
Node2 == [name |-> "node2", addresses |-> {[type |-> "ExternalIP", address |-> "x2"]}] @@ NodeObject
Headless ==
    [children |-> <<"service">>,
     config |-> [Flags EXCEPT !.listenEndpointEvents = TRUE],
     objects |->
        [service |-> <<[name |-> "s1", type |-> "ClusterIP", clusterIP |-> "None", hostnames |-> <<A>>,
                        selector |-> {"app"}] @@ ServiceObject,
                       [name |-> "s2", rank |-> 2, hostnames |-> <<B>>, lb |-> {"x3"}] @@ ServiceObject>>,
         pod |-> <<Pod1>>, node |-> <<Node1, Node2>>,
         endpointslice |-> <<Slice({Addr("pod1", "p1")})>>],
     changes |->
        {Put("pod", Pod2), Delete("pod", "pod1"),
         Put("endpointslice", Slice({Addr("pod1", "p1"), Addr("pod2", "p2")}))}]

\* Services that share a name, in the order of their resources and against it.
Shared ==
    [children |-> <<"service">>, config |-> Flags,
     objects |->
        [service |-> <<[name |-> "s2", rank |-> 2, hostnames |-> <<A, B>>, lb |-> {"x2"}, ttl |-> 2]
                           @@ ServiceObject,
                       [name |-> "s1", hostnames |-> <<A>>, lb |-> {"x1", "name"}, ttl |-> 1]
                           @@ ServiceObject>>,
         pod |-> <<>>, node |-> <<>>, endpointslice |-> <<>>],
     changes |->
        {Delete("service", "s1"),
         Put("service", [name |-> "s3", rank |-> 3, hostnames |-> <<A>>, lb |-> {"x3"}, ttl |-> 9]
                            @@ ServiceObject)}]

\* Node ports on nodes that come and go with the pods of the service.
LocalPorts ==
    [children |-> <<"service">>, config |-> [Flags EXCEPT !.exposeInternalIPv6 = TRUE],
     objects |->
        [service |-> <<[name |-> "s1", type |-> "NodePort", hostnames |-> <<A>>, selector |-> {"app"},
                        trafficPolicy |-> "Local", ports |-> <<[nodePort |-> 30, protocol |-> "_tcp"]>>]
                           @@ ServiceObject>>,
         pod |-> <<Pod1, Pod2>>, node |-> <<Node1, Node2>>, endpointslice |-> <<>>],
     changes |->
        {Put("pod", [ready |-> FALSE] @@ Pod2), Put("pod", [terminating |-> TRUE] @@ Pod1),
         Put("pod", [name |-> "pod3", ready |-> FALSE] @@ PodObject),
         Put("node", [unschedulable |-> TRUE] @@ Node1)}]

\* The other types, a template, and annotations of kOps.
OtherTypes ==
    [children |-> <<"service">>,
     config |-> [Flags EXCEPT !.template = TRUE, !.publishInternal = TRUE,
                              !.compatibility = "kops-dns-controller"],
     objects |->
        [service |-> <<[name |-> "s1", type |-> "ClusterIP", hostnames |-> <<A>>] @@ ServiceObject,
                       [name |-> "s2", rank |-> 2, type |-> "ExternalName", templateHosts |-> <<B>>]
                           @@ ServiceObject>>,
         pod |-> <<>>, node |-> <<[labels |-> {"node-role.kubernetes.io/node"}] @@ Node1>>,
         endpointslice |-> <<>>],
     changes |->
        {Put("service", [name |-> "s1", type |-> "NodePort", kopsExternal |-> <<A>>] @@ ServiceObject),
         Put("service", [name |-> "s1", templateFails |-> TRUE] @@ ServiceObject),
         Delete("node", "node1")}]

-----------------------------------------------------------------------------
(***************************************************************************)
(* Ingresses, nodes, pods and DNSEndpoints.                                *)
(***************************************************************************)

\* Two sources with the same record; default targets, NAT64 and a target filter.
Ingress1 == [name |-> "i1", rules |-> <<A>>, tls |-> <<A, B>>, lb |-> {"x1"}, ttl |-> 1] @@ IngressObject
Ingress2 == [name |-> "i2", rank |-> 2, rules |-> <<A>>, lb |-> {"x1"}] @@ IngressObject
Competing ==
    [children |-> <<"ingress", "contour-httpproxy">>,
     config |-> [Flags EXCEPT !.nat64 = "six" :> "x1", !.excludes = TRUE, !.excludeNets = {"x2"},
                              !.minTTL = 3],
     objects |->
        [ingress |-> <<Ingress1, Ingress2>>,
         httpproxy |-> <<[name |-> "p1", rank |-> 4, hosts |-> <<B>>, lb |-> {"six", "x2"}] @@ Object>>],
     changes |->
        {Put("ingress", [lb |-> {"x3"}] @@ Ingress2), Delete("ingress", "i1"),
         Put("httpproxy", [name |-> "p1", rank |-> 4, hosts |-> <<A>>, lb |-> {"x1"}] @@ Object)}]

\* Classes and filters, names from annotations and from a template, forced targets.
Classes ==
    [children |-> <<"ingress">>,
     config |-> [Flags EXCEPT !.ingressClasses = {"mine"}, !.template = TRUE, !.combine = TRUE,
                              !.defaultTargets = {"x3", "six"}, !.forceDefaultTargets = TRUE],
     objects |->
        [ingress |-> <<[className |-> "mine", templateHosts |-> <<B>>] @@ Ingress1,
                       [classAnn |-> "other"] @@ Ingress2>>],
     changes |->
        {Put("ingress", [classAnn |-> "mine", hostSource |-> "annotation-only", hostnames |-> <<Wild>>]
                            @@ Ingress2),
         Put("ingress", [className |-> "mine", templateFails |-> TRUE] @@ Ingress1)}]

\* A node that has no address yet fails every run.
NodesAndPods ==
    [children |-> <<"node", "pod">>, config |-> [Flags EXCEPT !.podDomain = <<"pods">>],
     objects |->
        [node |-> <<Node1>>,
         pod |-> <<[hostnames |-> <<A>>, internalHostnames |-> <<B>>] @@ Pod1>>],
     changes |->
        {Put("node", Node2), Put("node", [addresses |-> {}] @@ Node2), Delete("node", "node2"),
         Put("pod", [hostnames |-> <<A>>] @@ Pod2), Delete("pod", "pod1")}]

\* Nodes that share the name that a template gives them: their addresses become one record.
Pool ==
    [children |-> <<"node">>, config |-> [Flags EXCEPT !.template = TRUE],
     objects |->
        [node |-> <<[templateHosts |-> <<A>>] @@ Node1, [rank |-> 2, templateHosts |-> <<A, B>>] @@ Node2>>],
     changes |->
        {Put("node", [rank |-> 2, templateHosts |-> <<A, B>>, unschedulable |-> TRUE] @@ Node2),
         Put("node", [templateHosts |-> <<A>>, ttl |-> 2] @@ Node1), Delete("node", "node1")}]

\* DNSEndpoints, whose status is written.
Given(name, type, host, ttl) ==
    [name |-> name, type |-> type, targets |-> {[host |-> host, dot |-> FALSE]}, ttl |-> ttl, set |-> ""]
Custom1 == [name |-> "e1", generation |-> 1, endpoints |-> <<Given(A, "A", "x1", 1), Given(A, "MX", <<"mail">>, 0)>>] @@ Object
Custom2 == [name |-> "e2", rank |-> 2, generation |-> 1, endpoints |-> <<Given(A, "A", "x1", 2), Given(B, "NAPTR", "x2", 0)>>] @@ Object
Customs ==
    [children |-> <<"crd">>, config |-> Flags,
     objects |-> [dnsendpoint |-> <<Custom1, Custom2>>],
     changes |->
        {Put("dnsendpoint", [generation |-> 2, endpoints |-> <<Given(B, "A", "x1", 1)>>] @@ Custom1),
         Put("dnsendpoint", [generation |-> 3, endpoints |-> <<Given(B, "A", "x2", 1)>>] @@ Custom1),
         Delete("dnsendpoint", "e2")}]

\* An AAAA with a target that is no address fails NAT64.
Sixes ==
    [children |-> <<"crd", "pod">>,
     config |-> [Flags EXCEPT !.nat64 = "six" :> "x1", !.filters = TRUE, !.filterNets = {"x1", "six"}],
     objects |-> [dnsendpoint |-> <<Custom1>>, node |-> <<Node1>>, pod |-> <<[hostnames |-> <<A>>] @@ Pod1>>],
     changes |-> {Put("dnsendpoint", [generation |-> 2, endpoints |-> <<Given(B, "AAAA", "name", 0)>>] @@ Custom1),
                  Delete("dnsendpoint", "e1")}]

-----------------------------------------------------------------------------
(***************************************************************************)
(* Routes of the Gateway API.                                              *)
(***************************************************************************)

Ref(name) == [kind |-> "Gateway", ns |-> "n1", name |-> name]
Parent(name, section) == [accepted |-> TRUE, section |-> section, port |-> 0] @@ Ref(name)
Route1 ==
    [name |-> "r1", hosts |-> <<Upper, Bad>>, parentRefs |-> {Ref("g1")}, statusParents |-> {Parent("g1", "")}]
        @@ RouteObject
Route2 ==
    [name |-> "r2", ns |-> "n2", rank |-> 2, hosts |-> <<Wild>>, parentRefs |-> {Ref("g1")},
     statusParents |-> {Parent("g1", "l2")}] @@ RouteObject
Gateway1 ==
    [name |-> "g1", statusAddresses |-> {"x1"},
     listeners |-> {Listener("l1", <<>>, "Same"), Listener("l2", B, "Selector")}] @@ Object
Namespace(labels) == [name |-> "n2", labels |-> labels]
Routes ==
    [children |-> <<"gateway-route">>, config |-> Flags,
     objects |-> [route |-> <<Route1, Route2>>, gateway |-> <<Gateway1>>, namespace |-> <<Namespace({"open"})>>],
     changes |->
        {Put("route", [hosts |-> <<B>>] @@ Route1), Put("route", [hosts |-> <<>>] @@ Route2),
         Put("gateway", [listeners |-> {Listener("l2", Wild, "All")}] @@ Gateway1),
         Put("gateway", [listeners |-> {Listener("l1", Wild, "Same")}] @@ Gateway1),
         Put("namespace", Namespace({}))}]

-----------------------------------------------------------------------------
(***************************************************************************)
(* Istio, Gloo, Ambassador and the others.                                 *)
(***************************************************************************)

IstioGateway1 ==
    [name |-> "g1", ingress |-> <<"", "">>, selector |-> {"app"}, servers |-> <<<<"*", A>>, <<".", Wild>>>>]
        @@ Object
Virtual1 ==
    [name |-> "v1", ns |-> "n2", rank |-> 2, hosts |-> <<B, A>>, gateways |-> {<<"n1", "g1">>}, exportTo |-> {}]
        @@ Object
Mesh ==
    [children |-> <<"istio-gateway", "istio-virtualservice">>, config |-> Flags,
     objects |->
        [istiogateway |-> <<IstioGateway1>>, virtualservice |-> <<Virtual1>>,
         service |-> <<[name |-> "s1", selector |-> {"app"}, lb |-> {"x1"}] @@ ServiceObject>>,
         ingress |-> <<Ingress2>>],
     changes |->
        {Put("istiogateway", [ingress |-> <<"", "i2">>] @@ IstioGateway1), Delete("ingress", "i2"),
         Delete("istiogateway", "g1"), Put("virtualservice", [exportTo |-> {"."}] @@ Virtual1)}]

Proxy1 ==
    [name |-> "s1", gatewayRefs |-> {<<"n1", "g1">>},
     virtualHosts |-> <<[domains |-> <<A>>, services |-> <<<<"n1", "v1">>>>]>>] @@ Object
Gloo ==
    [children |-> <<"gloo-proxy">>, config |-> Flags,
     objects |->
        [proxy |-> <<Proxy1>>, gloogateway |-> <<[name |-> "g1", ingress |-> <<"", "">>] @@ Object>>,
         gloovirtualservice |-> <<[name |-> "v1", ttl |-> 1] @@ Object>>,
         service |-> <<[name |-> "s1", lb |-> {"x1"}] @@ ServiceObject>>, ingress |-> <<Ingress1>>],
     changes |->
        {Put("gloogateway", [name |-> "g1", ingress |-> <<"", "i1">>] @@ Object),
         Delete("gloovirtualservice", "v1"), Delete("service", "s1"), Delete("proxy", "s1")}]

Host1 == [name |-> "h1", hosts |-> <<A>>, service |-> <<"n1", "s1">>] @@ Object
Ambassador ==
    [children |-> <<"ambassador-host">>, config |-> Flags,
     objects |->
        [host |-> <<Host1, [name |-> "h2", rank |-> 2, hosts |-> <<B>>, targetAnn |-> {"x2"}] @@ Host1>>,
         service |-> <<[name |-> "s1", lb |-> {"x1"}] @@ ServiceObject>>],
     changes |-> {Delete("service", "s1"), Put("host", [malformed |-> TRUE] @@ Host1),
                  Put("host", [ttl |-> 1] @@ Host1)}]

Resource(name, rank) == [name |-> name, rank |-> rank, hosts |-> <<A>>, lb |-> {"x1"}] @@ Object
Virtualserver == [name |-> "f1", rank |-> 4, host |-> B, aliases |-> <<Wild>>, specAddress |-> "", statusAddress |-> "x2"] @@ Object
Transportserver ==
    [name |-> "f2", rank |-> 6, host |-> A, specAddress |-> "x1", statusAddress |-> "x2"] @@ Object
Ocp == [name |-> "o1", rank |-> 5, routers |-> <<[admitted |-> TRUE, canonical |-> "name", name |-> "default", host |-> B]>>] @@ Object
Others ==
    [children |-> <<"skipper-routegroup", "kong-tcpingress", "traefik-proxy", "f5-virtualserver",
                   "f5-transportserver", "openshift-route">>,
     config |-> Flags,
     objects |->
        [routegroup |-> <<Resource("a1", 1)>>, tcpingress |-> <<Resource("t1", 2)>>,
         ingressroute |-> <<[targetAnn |-> {"x3"}] @@ Resource("p1", 3)>>,
         virtualserver |-> <<Virtualserver>>, transportserver |-> <<Transportserver>>, ocproute |-> <<Ocp>>],
     changes |->
        {Delete("routegroup", "a1"), Put("transportserver", [specAddress |-> ""] @@ Transportserver),
         Put("virtualserver", [statusAddress |-> "none"] @@ Virtualserver),
         Put("ingressroute", [malformed |-> TRUE] @@ Resource("p1", 3)),
         Put("ocproute", [routers |-> <<>>] @@ Ocp)}]

-----------------------------------------------------------------------------
All ==
    [headless |-> Headless, shared |-> Shared, ports |-> LocalPorts, types |-> OtherTypes,
     competing |-> Competing, classes |-> Classes, nodes |-> NodesAndPods, pool |-> Pool, customs |-> Customs,
     sixes |-> Sixes, routes |-> Routes, mesh |-> Mesh, gloo |-> Gloo, ambassador |-> Ambassador,
     others |-> Others]

MCWorlds == DOMAIN All
MCConfig == [w \in MCWorlds |-> All[w].config]
MCChildren == [w \in MCWorlds |-> All[w].children]
MCObjects == [w \in MCWorlds |-> All[w].objects]
MCChanges == [w \in MCWorlds |-> All[w].changes]
MCMalformed == {<<"mail">>}
MCLowerCase == "A" :> "a"
=============================================================================
