--------------------------- MODULE GatewaySource ---------------------------
(***************************************************************************)
(* source/gateway.go: routes of the Gateway API.  Which host names of a    *)
(* route are served by which listener of which gateway.                    *)
(*                                                                         *)
(* A host is a sequence of labels, the first of which may be the wildcard  *)
(* "*"; the empty host matches everything.                                 *)
(***************************************************************************)
EXTENDS SourceAPI

CONSTANTS
    BadLabels,      \* labels that RFC 1123 does not allow
    LowerCase       \* labels with capital letters and what they become

AnyHost == <<>>
IsWildcard(h) == h # <<>> /\ h[1] = "*"

\* The number of characters, dots included.
Length(h) == IF h = <<>> THEN 0 ELSE FoldFunction(LAMBDA l, n : n + 1 + Len(l), 0, h) - 1

toLowerCaseASCII(h) == [i \in DOMAIN h |-> IF h[i] \in DOMAIN LowerCase THEN LowerCase[h[i]] ELSE h[i]]

isDNS1123Domain(h) == Range(IF IsWildcard(h) THEN Tail(h) ELSE h) \cap BadLabels = {}

\* The longer of two hosts, if it is the same, the other is empty or a wildcard above it.
Specific(short, long) ==
    CASE short = long \/ short = AnyHost -> {long}
      [] short # long /\ IsWildcard(short) ->
             {h \in {long} : Len(h) >= Len(short) /\ IsSuffix(Tail(short), h)}
      [] OTHER -> {}

\* MUTANT: of two hosts of the same length the wildcard is not put first.
gwMatchingHostUnswapped(g, r) ==
    LET a == toLowerCaseASCII(g)
        b == toLowerCaseASCII(r)
    IN  IF ~isDNS1123Domain(g) \/ ~isDNS1123Domain(r) THEN {}
        ELSE IF Length(b) < Length(a) THEN Specific(b, a) ELSE Specific(a, b)

\* The most specific host that both the listener and the route match: one or none.
gwMatchingHost(g, r) ==
    LET a == toLowerCaseASCII(g)
        b == toLowerCaseASCII(r)
        swap == Length(b) < Length(a) \/ (Length(a) = Length(b) /\ IsWildcard(b))
    IN  IF ~isDNS1123Domain(g) \/ ~isDNS1123Domain(r) THEN {}
        ELSE IF swap THEN Specific(b, a) ELSE Specific(a, b)

gwProtocolMatches(route, listener) ==
    LET http(p) == IF p = "HTTPS" THEN "HTTP" ELSE p
    IN  \/ http(route) = http(listener)
        \/ route = "TCP" /\ listener = "TLS"

routeIsAllowed(gw, lis, rt, v) ==
    /\ CASE lis.from = "All" -> TRUE
         [] lis.from = "Same" -> gw.ns = rt.ns
         [] lis.from = "Selector" ->
                \E n \in Range(v.namespace) : n.name = rt.ns /\ lis.nsSelector \subseteq n.labels
         [] OTHER -> FALSE
    /\ lis.kinds = {} \/ rt.kind \in lis.kinds

\* A parent of the status counts if the specification still names its gateway.  Section
\* and port are not compared.
gwRouteHasParentRef(rt, ref) ==
    \E p \in rt.parentRefs : p.kind = ref.kind /\ p.ns = ref.ns /\ p.name = ref.name

\* The hosts of a route; AnyHost stands for those of the listeners.
hosts(c, rt) ==
    LET templated == c.template /\ (rt.hosts = <<>> \/ c.combine)
        defined == rt.hosts \o (IF templated THEN rt.templateHosts ELSE <<>>)
        annotated == AnnotatedHosts(c, rt)
    IN  CASE rt.hostSource = "annotation-only" -> annotated
          [] rt.hostSource = "defined-hosts-only" -> defined
          [] OTHER -> defined \o (IF rt.hosts = <<>> THEN <<AnyHost>> ELSE <<>>) \o annotated

\* The pairs of host and target that gateway gw serves for parent ref of the status.
ServedBy(c, rt, ref, gw, v) ==
    LET open == {l \in gw.listeners :
                    /\ ref.section \in {"", l.name}
                    /\ gwProtocolMatches(rt.protocol, l.protocol)
                    /\ ref.port \in {0, l.port}
                    /\ routeIsAllowed(gw, l, rt, v)}
        matching == UNION {gwMatchingHost(l.hostname, h) : l \in open, h \in Range(hosts(c, rt))}
    IN  (matching \ {AnyHost}) \X TargetsOr(gw, gw.statusAddresses)

\* The pairs of host and target of a route: every gateway that has accepted it, although
\* perhaps an earlier version of it, and is selected.
resolve(c, rt, v) ==
    LET refs == {r \in rt.statusParents :
                    /\ gwRouteHasParentRef(rt, r)
                    /\ r.kind = "Gateway"
                    /\ r.accepted}
        gateways(r) == {g \in Range(v.gateway) :
                           /\ g.ns = r.ns /\ g.name = r.name
                           /\ c.gatewayNamespace \in {"", g.ns}
                           /\ c.gatewayLabels \subseteq g.labels
                           /\ c.gatewayName \in {"", g.name}}
    IN  UNION {UNION {ServedBy(c, rt, r, g, v) : g \in gateways(r)} : r \in refs}

RouteEndpoints(c, rt, v) ==
    LET pairs == resolve(c, rt, v)
        served == SetToSeq({p[1] : p \in pairs})
        targets(h) == {p[2] : p \in {q \in pairs : q[1] = h}}
        templated == c.template /\ (rt.hosts = <<>> \/ c.combine)
    IN  IF ~Selected(c, rt) \/ IsControllerMismatch(rt) THEN Ok(<<>>)
        ELSE IF templated /\ rt.templateFails THEN Err
        ELSE Ok(ForEach(LAMBDA h : EndpointsForHostname(h, targets(h), TTLFromAnnotations(rt),
                                                        rt.set, rt.rank), served))

=============================================================================
