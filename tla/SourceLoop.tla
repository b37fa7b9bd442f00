---------------------------- MODULE SourceLoop ----------------------------
(***************************************************************************)
(* Reading the sources.  A run of the controller asks one source after the *)
(* other; a source lists the objects of its kind and makes endpoints of    *)
(* them one at a time, looking up objects of other kinds on the way.  What *)
(* it sees of a kind is the cache of an informer, which follows the API    *)
(* server at a pace of its own, while some lists and lookups go to the API *)
(* server itself.  So a run may see a mixture of states that never was.    *)
(*                                                                         *)
(* An error of a source is not a soft one: the run fails and the process   *)
(* exits, to be started again with caches up to date.                      *)
(*                                                                         *)
(* The caches of different kinds are independent, so reading several of    *)
(* them in one step reads nothing that separate steps could not.           *)
(***************************************************************************)
EXTENDS SourceAPI

CONSTANTS
    Malformed,              \* see SourceWrappers
    BadLabels, LowerCase,   \* see GatewaySource
    Worlds,         \* the installations that are looked at
    Config,         \* of a world: the flags
    Children,       \* of a world: its sources, in order
    Objects,        \* of a world: for each kind, the list of objects at first
    Changes,        \* of a world: what may happen to its objects
    MaxChanges,     \* how often that happens
    MaxFaults       \* requests to the API server that fail

VARIABLES
    world,
    history,    \* for each kind, its lists of objects so far
    seen,       \* for each kind, how many of them the informer has caught up with
    pc,         \* "idle", "listing", "processing" or "exited"
    todo,       \* the sources that are left
    objs,       \* the objects of the first of them that are left
    listed,     \* how far the informers were when these were listed
    eps,        \* the endpoints of this source so far
    found,      \* those of the sources before it
    start,      \* how far the informers were at the start of the run
    swallowed,  \* a source has gone on after a failed request
    published,  \* the endpoints of the last run that succeeded
    observed,   \* of DNSEndpoints: the generation in the status
    event,      \* an event handler has asked for a run
    changes, faults

vars == <<world, history, seen, pc, todo, objs, listed, eps, found, start, swallowed,
          published, observed, event, changes, faults>>

Service == INSTANCE ServiceSource
Ingress == INSTANCE IngressSource
Gateway == INSTANCE GatewaySource
Route == INSTANCE RouteSources
Wrappers == INSTANCE SourceWrappers

Kinds == DOMAIN Objects[world]
c == Config[world]

-----------------------------------------------------------------------------
(***************************************************************************)
(* The sources.                                                            *)
(***************************************************************************)

\* The kind of object that a source lists.
Primary(s) ==
    CASE s = "gateway-route" -> "route"
      [] s = "istio-gateway" -> "istiogateway"
      [] s = "istio-virtualservice" -> "virtualservice"
      [] s = "gloo-proxy" -> "proxy"
      [] s = "ambassador-host" -> "host"
      [] s = "crd" -> "dnsendpoint"
      [] s = "contour-httpproxy" -> "httpproxy"
      [] s = "skipper-routegroup" -> "routegroup"
      [] s = "kong-tcpingress" -> "tcpingress"
      [] s = "traefik-proxy" -> "ingressroute"
      [] s = "f5-virtualserver" -> "virtualserver"
      [] s = "f5-transportserver" -> "transportserver"
      [] s = "openshift-route" -> "ocproute"
      [] OTHER -> s

\* The sources that list from the API server.
Direct(s) == s \in {"crd", "istio-gateway", "skipper-routegroup"}

\* The kinds whose events ask for a run.
Handled(s) ==
    CASE s = "gateway-route" -> {"route", "gateway", "namespace"}
      [] s = "service" /\ c.listenEndpointEvents -> {"service", "endpointslice"}
      [] s \in {"gloo-proxy", "ambassador-host", "skipper-routegroup"} -> {}
      [] OTHER -> {Primary(s)}

HandledKinds == UNION {Handled(s) : s \in Range(Children[world])}

\* What source s makes of object o when it sees v.
EndpointsOf(s, o, v) ==
    CASE s = "service" -> Service!ServiceEndpoints(c, o, v)
      [] s = "ingress" -> Ingress!IngressEndpoints(c, o)
      [] s = "node" -> Ingress!NodeEndpoints(c, o)
      [] s = "pod" -> Ingress!PodEndpoints(c, o, v)
      [] s = "crd" -> Ingress!CRDEndpoints(c, o)
      [] s = "gateway-route" -> Gateway!RouteEndpoints(c, o, v)
      [] s = "istio-gateway" -> Route!IstioGatewayEndpoints(c, o, v)
      [] s = "istio-virtualservice" -> Route!IstioVirtualServiceEndpoints(c, o, v)
      [] s = "gloo-proxy" -> Route!GlooEndpoints(c, o, v)
      [] s = "ambassador-host" -> Route!AmbassadorEndpoints(c, o, v)
      [] s = "contour-httpproxy" -> Route!HTTPProxyEndpoints(c, o)
      [] s = "skipper-routegroup" -> Route!RouteGroupEndpoints(c, o)
      [] s = "kong-tcpingress" -> Route!TCPIngressEndpoints(c, o)
      [] s = "traefik-proxy" -> Route!TraefikEndpoints(c, o)
      [] s = "f5-virtualserver" -> Route!F5Endpoints(c, o)
      [] s = "f5-transportserver" -> Route!TransportServerEndpoints(c, o)
      [] s = "openshift-route" -> Route!OcpRouteEndpoints(c, o)

\* Pods are listed by their keys and read one by one; one that has gone is skipped.
Fetched(s, o, v) ==
    LET now == IF s = "pod" THEN Named(v.pod, o.ns, o.name) ELSE <<o>>
    IN  IF now = <<>> THEN Ok(<<>>) ELSE EndpointsOf(s, Head(now), v)

\* What a source does with the endpoints of all its objects.
Merged(s, list) ==
    CASE s = "service" -> Service!ServiceMerge(list)
      [] s \in {"node", "pod"} -> MergeEndpoints(list)
      [] OTHER -> list

-----------------------------------------------------------------------------
(***************************************************************************)
(* What is seen.                                                           *)
(***************************************************************************)

Orders(s) == {[i \in DOMAIN s |-> s[f[i]]] : f \in Bijection(DOMAIN s, DOMAIN s)}

ViewAt(h, at) == [k \in DOMAIN h |-> h[k][at[k]]]
Now == [k \in Kinds |-> Last(history[k])]

\* The caches, and the services that a lookup finds.  The order of a list of pods is
\* different every time.
View(at, services) ==
    {[k \in Kinds \cup {"pod", "apiservice"} |->
        CASE k = "apiservice" -> services
          [] k = "pod" -> pods
          [] OTHER -> ViewAt(history, at)[k]] :
     pods \in IF "pod" \in Kinds THEN Orders(ViewAt(history, at).pod) ELSE {<<>>}}

Services == IF "service" \in Kinds THEN Now.service ELSE <<>>

-----------------------------------------------------------------------------
(***************************************************************************)
(* The cluster and the informers.                                          *)
(***************************************************************************)

Init ==
    /\ world \in Worlds
    /\ history = [k \in Kinds |-> <<Objects[world][k]>>]
    /\ seen = [k \in Kinds |-> 1]
    /\ pc = "idle"
    /\ todo = <<>> /\ objs = <<>> /\ eps = <<>> /\ found = <<>>
    /\ listed = seen /\ start = seen
    /\ swallowed = FALSE
    /\ published = {}
    /\ observed = <<>>
    /\ event = TRUE
    /\ changes = 0 /\ faults = 0

\* An object is created, replaced or removed.
Change(ch) ==
    LET old == Last(history[ch.kind])
        left == SelectSeq(old, LAMBDA o : ch.name # o.name)
    IN  /\ changes < MaxChanges
        /\ left \o ch.add # old
        /\ history' = [history EXCEPT ![ch.kind] = Append(@, left \o ch.add)]
        /\ changes' = changes + 1
        /\ observed' = IF ch.kind = "dnsendpoint" /\ ch.add = <<>>
                       THEN Restrict(observed, DOMAIN observed \ {ch.name}) ELSE observed
        /\ UNCHANGED <<world, seen, pc, todo, objs, listed, eps, found, start, swallowed,
                       published, event, faults>>

\* An informer takes in one event and calls the handlers.
Observe(k) ==
    /\ seen[k] < Len(history[k])
    /\ seen' = [seen EXCEPT ![k] = @ + 1]
    /\ event' = (event \/ k \in HandledKinds)
    /\ UNCHANGED <<world, history, pc, todo, objs, listed, eps, found, start, swallowed,
                   published, observed, changes, faults>>

-----------------------------------------------------------------------------
(***************************************************************************)
(* A run.                                                                  *)
(***************************************************************************)

\* By an event or by the interval.
Begin ==
    /\ pc = "idle"
    /\ pc' = "listing"
    /\ todo' = Children[world]
    /\ start' = seen
    /\ found' = <<>> /\ eps' = <<>> /\ objs' = <<>>
    /\ swallowed' = FALSE
    /\ event' = FALSE
    /\ UNCHANGED <<world, history, seen, listed, published, observed, changes, faults>>

\* The order in which an informer lists is different every time.
List ==
    /\ pc = "listing" /\ todo # <<>>
    /\ LET k == Primary(Head(todo))
       IN  objs' \in IF Direct(Head(todo)) THEN {Now[k]} ELSE Orders(history[k][seen[k]])
    /\ listed' = seen
    /\ pc' = "processing"
    /\ UNCHANGED <<world, history, seen, todo, eps, found, start, swallowed, published, observed,
                   event, changes, faults>>

\* A list that the API server does not answer fails the run.
ListFails ==
    /\ pc = "listing" /\ todo # <<>> /\ Direct(Head(todo))
    /\ faults < MaxFaults
    /\ faults' = faults + 1
    /\ pc' = "exited"
    /\ UNCHANGED <<world, history, seen, todo, objs, listed, eps, found, start, swallowed,
                   published, observed, event, changes>>

ObservedGeneration(o) == IF o.name \in DOMAIN observed THEN observed[o.name] ELSE 0

\* MUTANT: the generation is written whether or not it is there.
UpdateStatusAlways(o) ==
    \/ /\ Selected(c, o) /\ o \in Range(Now.dnsendpoint)
       /\ observed' = (o.name :> o.generation) @@ observed
       /\ event' = TRUE
       /\ UNCHANGED faults
    \/ /\ o \notin Range(Now.dnsendpoint)
       /\ UNCHANGED <<observed, event, faults>>

\* The generation of a DNSEndpoint is written to its status, which is another event.  The
\* request is refused if the object has changed since it was listed, and may get lost.
UpdateStatus(o) ==
    LET due == Selected(c, o) /\ ObservedGeneration(o) # o.generation
    IN  \/ /\ due /\ o \in Range(Now.dnsendpoint)
           /\ observed' = (o.name :> o.generation) @@ observed
           /\ event' = TRUE
           /\ UNCHANGED faults
        \/ /\ due /\ faults < MaxFaults
           /\ faults' = faults + 1
           /\ UNCHANGED <<observed, event>>
        \/ /\ due => o \notin Range(Now.dnsendpoint)
           /\ UNCHANGED <<observed, event, faults>>

\* MUTANT: a source that fails is left out.
ProcessOthers ==
    /\ pc = "processing" /\ objs # <<>>
    /\ \E v \in View(IF Head(todo) = "gateway-route" THEN listed ELSE seen, Services) :
           \E r \in {Fetched(Head(todo), Head(objs), v)} :
               /\ eps' = IF r.err THEN <<>> ELSE eps \o r.eps
               /\ objs' = IF r.err THEN <<>> ELSE Tail(objs)
    /\ IF Head(todo) = "crd" THEN UpdateStatus(Head(objs)) ELSE UNCHANGED <<observed, event, faults>>
    /\ UNCHANGED <<world, history, seen, pc, todo, listed, found, start, swallowed, published, changes>>

\* The next object.  Routes of the Gateway API are compared with lists made before.
Process ==
    /\ pc = "processing" /\ objs # <<>>
    /\ \E v \in View(IF Head(todo) = "gateway-route" THEN listed ELSE seen, Services) :
           \E r \in {Fetched(Head(todo), Head(objs), v)} :
               /\ eps' = eps \o r.eps
               /\ pc' = IF r.err THEN "exited" ELSE "processing"
    /\ objs' = Tail(objs)
    /\ IF Head(todo) = "crd" THEN UpdateStatus(Head(objs)) ELSE UNCHANGED <<observed, event, faults>>
    /\ UNCHANGED <<world, history, seen, todo, listed, found, start, swallowed, published, changes>>

\* A lookup of a service that the API server does not answer counts as finding none.
LookupFails ==
    /\ pc = "processing" /\ objs # <<>> /\ Head(todo) = "ambassador-host"
    /\ LET o == Head(objs)
       IN  ~o.malformed /\ Selected(c, o) /\ o.service # <<"", "">> /\ o.targetAnn = {}
    /\ faults < MaxFaults
    /\ faults' = faults + 1
    /\ swallowed' = TRUE
    /\ objs' = Tail(objs)
    /\ UNCHANGED <<world, history, seen, pc, todo, listed, eps, found, start, published, observed,
                   event, changes>>

\* A source is done.
Collect ==
    /\ pc = "processing" /\ objs = <<>>
    /\ found' = found \o Wrappers!multiSource(c, Merged(Head(todo), eps))
    /\ eps' = <<>>
    /\ todo' = Tail(todo)
    /\ pc' = "listing"
    /\ UNCHANGED <<world, history, seen, objs, listed, start, swallowed, published, observed,
                   event, changes, faults>>

\* All sources are done.
Publish ==
    /\ pc = "listing" /\ todo = <<>>
    /\ \E r \in {Wrappers!WrapSources(c, found)} :
           /\ pc' = IF r.err THEN "exited" ELSE "idle"
           /\ published' = IF r.err THEN published ELSE Range(r.eps)
    /\ found' = <<>>
    /\ UNCHANGED <<world, history, seen, todo, objs, listed, eps, start, swallowed, observed,
                   event, changes, faults>>

\* The process is started again, and waits for its caches.  Objects that are there are
\* events, too.
Restart ==
    /\ pc = "exited"
    /\ pc' = "idle"
    /\ seen' = [k \in Kinds |-> Len(history[k])]
    /\ todo' = <<>> /\ objs' = <<>> /\ eps' = <<>> /\ found' = <<>>
    /\ event' = TRUE
    /\ UNCHANGED <<world, history, listed, start, swallowed, published, observed, changes, faults>>

-----------------------------------------------------------------------------
Next ==
    \/ \E ch \in Changes[world] : Change(ch)
    \/ \E k \in Kinds : Observe(k)
    \/ Begin \/ List \/ ListFails \/ Process \/ LookupFails \/ Collect \/ Publish
    \/ Restart

Work == Begin \/ List \/ Process \/ Collect \/ Publish \/ Restart

\* Watches deliver in the end, and the controller keeps running; nothing is assumed of
\* changes and of failing requests.
Fairness ==
    /\ \A w \in Worlds : \A k \in DOMAIN Objects[w] : WF_vars(world = w /\ Observe(k))
    /\ WF_vars(Work)

Spec == Init /\ [][Next]_vars /\ Fairness

-----------------------------------------------------------------------------
(***************************************************************************)
(* Properties.                                                             *)
(***************************************************************************)

EndpointOK(e) ==
    e.ttl \in 0..TTLMax /\ e.type \in {"A", "AAAA", "CNAME", "SRV", "MX", "TXT", "NAPTR"}

\* The variables have their types, an endpoint a ttl that fits, and no informer is ahead of the API server.
TypeOK ==
    /\ world \in Worlds
    /\ \A k \in Kinds : start[k] <= seen[k] /\ listed[k] <= seen[k] /\ seen[k] <= Len(history[k])
    /\ pc \in {"idle", "listing", "processing", "exited"}
    /\ IsSuffix(todo, Children[world])
    /\ \A e \in Range(eps) \cup Range(found) \cup published : EndpointOK(e)
    /\ swallowed \in BOOLEAN /\ event \in BOOLEAN
    /\ changes \in 0..MaxChanges /\ faults \in 0..MaxFaults

\* What a run would publish that saw v from beginning to end, and the names that are
\* contested: several objects give the same record with another ttl or resource, and
\* dedupSource keeps the first of them, or several nodes or pods give targets of one
\* record, and MergeEndpoints keeps the resource of the first.
Reference(v) ==
    LET results(s) == [i \in DOMAIN v[Primary(s)] |-> EndpointsOf(s, v[Primary(s)][i], v)]
        given(s) == LET r == results(s) IN FlattenSeq([i \in DOMAIN r |-> r[i].eps])
        all == ForEach(LAMBDA s : Wrappers!multiSource(c, Merged(s, given(s))), Children[world])
        wrapped == Wrappers!WrapSources(c, all)
        joined == UNION {Range(given(s)) \X Range(given(s)) :
                            s \in Range(Children[world]) \cap {"node", "pod"}}
        rivals == {p \in Range(all) \X Range(all) :
                      /\ Wrappers!SameRecord(p[1]) = Wrappers!SameRecord(p[2])
                      /\ p[1] # p[2]}
                  \cup {p \in joined :
                      /\ p[1].name = p[2].name /\ p[1].type = p[2].type /\ p[1].ttl = p[2].ttl
                      /\ p[1].resource # p[2].resource}
    IN  [err |-> wrapped.err \/ \E s \in Range(Children[world]) :
                                    \E r \in Range(results(s)) : r.err,
         eps |-> Range(wrapped.eps),
         contested |-> {p[1].name : p \in rivals}]

\* The endpoints of name n; of a contested one ttl and resource do not count.
OfName(set, n, contested) ==
    LET those == {e \in set : e.name = n}
    IN  IF n \in contested THEN {Wrappers!SameRecord(e) : e \in those} ELSE those

\* What a run could have seen since it began.
Mixtures ==
    LET ats == {at \in [Kinds -> 1..(MaxChanges + 1)] :
                   \A k \in Kinds : at[k] \in start[k]..Len(history[k])}
    IN  UNION {View(at, IF "service" \in Kinds THEN ViewAt(history, at).service ELSE <<>>) : at \in ats}

Publishes == pc = "listing" /\ pc' = "idle"

\* Whatever the informers, the order of lists and changes meanwhile do to a run, a name
\* on which all that it could have seen agrees is published just so: a change of one
\* object never disturbs the names of others, and the same objects give the same types,
\* sets and targets for each name in every run (source/service.go sorts, merges and sorts
\* again; source/wrappers removes duplicates).  They give the same ttl and resource, too,
\* unless the name is contested: ingresses, for one, are not sorted, and the informer that
\* lists another object first gives the record its ttl and its resource (source/ingress.go,
\* wrappers/dedupsource.go, MergeEndpoints in source/utils.go), which may alternate from
\* run to run.  A failed lookup that a source goes on after is excepted.
Undisturbed ==
    [][Publishes /\ ~swallowed =>
        LET results == {Reference(v) : v \in Mixtures}
            contested == UNION {r.contested : r \in results}
            names == {e.name : e \in published' \cup UNION {r.eps : r \in results}}
        IN  \A n \in names :
                LET said == {OfName(r.eps, n, contested) : r \in results}
                IN  (Cardinality(said) = 1 /\ ~\E r \in results : r.err)
                        => OfName(published', n, contested) \in said]_vars

\* A run whose sources cannot all be read publishes nothing, for what is missing would be
\* deleted from the zones; and a run fails only if an object it could have seen or a
\* request gave it a reason to.
AllOrNothing ==
    [][/\ Publishes => \E v \in Mixtures : ~Reference(v).err
       /\ pc' = "exited" /\ pc # "exited" => faults' > faults \/ \E v \in Mixtures : Reference(v).err]_vars

\* An object stands in the way of every run.
Blocked == \A v \in View([k \in Kinds |-> Len(history[k])], Services) : Reference(v).err

\* What is published is what the objects of the API server say, and every DNSEndpoint
\* that is selected has been acknowledged in its status.
Settled ==
    /\ \E v \in View([k \in Kinds |-> Len(history[k])], Services) :
          LET r == Reference(v)
          IN  \A n \in {e.name : e \in published \cup r.eps} :
                  OfName(published, n, r.contested) = OfName(r.eps, n, r.contested)
    /\ "dnsendpoint" \in Kinds =>
           \A o \in Range(Now.dnsendpoint) :
               Selected(c, o) => ObservedGeneration(o) = o.generation

\* Once nothing changes any more the caches, the runs and the status of DNSEndpoints
\* settle, in spite of lost requests and restarts, unless an object makes every run fail.
\* As in Undisturbed, the ttl and the resource of contested names are left open.
Settles == <>[](Blocked \/ Settled)

\* The controller's own writes to the status of a DNSEndpoint are events that ask for
\* another run; this comes to an end (source/crd.go compares the generations first).
QuietInTheEnd == <>[](Blocked \/ ~event)

-----------------------------------------------------------------------------
(***************************************************************************)
(* Routes of the Gateway API, by the names that requests are for.          *)
(***************************************************************************)

Covers(host, name) ==
    LET h == Gateway!toLowerCaseASCII(host)
    IN  \/ h = <<>>
        \/ h = name
        \/ h[1] = "*" /\ Len(name) >= Len(h) /\ \A i \in 0..(Len(h) - 2) : name[Len(name) - i] = h[Len(h) - i]

\* A name that requests may be for, which host stands for.
Example(host) ==
    LET h == Gateway!toLowerCaseASCII(host)
    IN  IF h # <<>> /\ h[1] = "*" THEN <<"any">> \o Tail(h) ELSE h

\* A listener of gateway gw takes in routes of the namespace of rt.
OpenTo(gw, l, rt, v) ==
    \/ l.from = "All"
    \/ l.from = "Same" /\ gw.ns = rt.ns
    \/ l.from = "Selector" /\ \E n \in Range(v.namespace) : n.name = rt.ns /\ l.nsSelector \subseteq n.labels

\* Requests for name reach route rt through a gateway that has accepted it.
Reaches(rt, v, name) ==
    \E p \in rt.statusParents, gw \in Range(v.gateway) :
        /\ p.accepted /\ p.ns = gw.ns /\ p.name = gw.name
        /\ \E q \in rt.parentRefs : q.ns = p.ns /\ q.name = p.name
        /\ TargetsOr(gw, gw.statusAddresses) # {}
        /\ \E l \in gw.listeners, h \in Range(Gateway!hosts(c, rt)) :
               /\ p.section \in {"", l.name} /\ p.port \in {0, l.port}
               /\ Gateway!gwProtocolMatches(rt.protocol, l.protocol)
               /\ OpenTo(gw, l, rt, v)
               /\ Covers(l.hostname, name) /\ Covers(h, name)
               /\ l.hostname # <<>> \/ h # <<>>

\* In a world of routes alone, only names are published for which requests reach a route,
\* and every name for which they do is published or covered by a wildcard.
RoutesServed ==
    [][Publishes /\ Children[world] = <<"gateway-route">> =>
        LET reached(name) == {v \in Mixtures : \E rt \in Range(v.route) : Reaches(rt, v, name)}
            listeners == UNION {UNION {gw.listeners : gw \in Range(v.gateway)} : v \in Mixtures}
            candidates == {Example(h) : h \in
                {l.hostname : l \in listeners}
                    \cup UNION {UNION {Range(rt.hosts) : rt \in Range(v.route)} : v \in Mixtures}}
        IN  /\ \A e \in published' : reached(Example(e.name)) # {}
            /\ \A name \in candidates \ {<<>>} :
                   /\ reached(name) = Mixtures
                   /\ Range(name) \cap BadLabels = {}
                   => \E e \in published' : Covers(e.name, name)]_vars
=============================================================================
