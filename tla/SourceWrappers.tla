-------------------------- MODULE SourceWrappers --------------------------
(***************************************************************************)
(* source/wrappers: what becomes of the endpoints of all sources before    *)
(* the controller sees them.  The configuration c gives defaultTargets and *)
(* forceDefaultTargets, nat64 (what the IPv6 addresses in the prefixes     *)
(* stand for), filterNets and excludeNets (the addresses in the networks,  *)
(* and whether such networks are given) and minTTL.                        *)
(***************************************************************************)
EXTENDS SourceAPI

CONSTANT
    Malformed       \* targets that an MX or SRV record cannot have

\* The endpoints of one source; the default targets take the place of none, or of any.
multiSource(c, eps) ==
    IF c.defaultTargets = {} THEN eps
    ELSE ForEach(LAMBDA e : IF c.forceDefaultTargets \/ e.targets = {}
                            THEN EndpointsForHostname(e.name, c.defaultTargets, e.ttl, e.set, e.resource)
                            ELSE <<e>>, eps)

CheckEndpoint(e) == e.type \in {"MX", "SRV"} => e.targets \cap Malformed = {}

SameRecord(e) == <<e.type, e.name, e.set, e.targets>>

\* MUTANT: targets are not part of the identity of an endpoint.
dedupSourceByKey(eps) ==
    LET valid == SelectSeq(eps, CheckEndpoint)
        firsts == SelectSeq([i \in DOMAIN valid |-> i],
                            LAMBDA i : \A j \in 1..(i - 1) : KeyOf(valid[j]) # KeyOf(valid[i]))
    IN  [i \in DOMAIN firsts |-> valid[firsts[i]]]

\* Of endpoints that agree in all but ttl and labels the first is kept.
dedupSource(eps) ==
    LET valid == SelectSeq(eps, CheckEndpoint)
        firsts == SelectSeq([i \in DOMAIN valid |-> i],
                            LAMBDA i : \A j \in 1..(i - 1) : SameRecord(valid[j]) # SameRecord(valid[i]))
    IN  [i \in DOMAIN firsts |-> valid[firsts[i]]]

\* Every AAAA with addresses in the prefixes gets an A with what these stand for.
nat64Source(c, eps) ==
    LET v4(e) == {c.nat64[t] : t \in e.targets \cap DOMAIN c.nat64}
        six == SelectSeq(eps, LAMBDA e : e.type = "AAAA" /\ v4(e) # {})
    IN  eps \o [i \in DOMAIN six |-> [six[i] EXCEPT !.type = "A", !.targets = v4(six[i])]]

\* An AAAA whose target is no address is an error, if there are prefixes at all.
nat64Fails(c, eps) ==
    /\ DOMAIN c.nat64 # {}
    /\ \E e \in Range(eps) : e.type = "AAAA" /\ ~(e.targets \subseteq IPv4 \cup IPv6)

\* Names are in no network: a filter drops them, an exclusion does not.
Match(c, e, t) ==
    LET in(nets) == e.type \in {"A", "AAAA"} /\ t \in nets
    IN  /\ c.filters => in(c.filterNets)
        /\ c.excludes => ~in(c.excludeNets)

targetFilterSource(c, eps) ==
    LET kept == [i \in DOMAIN eps |->
                    [eps[i] EXCEPT !.targets = {t \in eps[i].targets : Match(c, eps[i], t)}]]
    IN  IF ~c.filters /\ ~c.excludes THEN eps
        ELSE SelectSeq(kept, LAMBDA e : e.targets # {})

\* The ttl of an endpoint that has none.
postProcessor(c, eps) ==
    [i \in DOMAIN eps |-> IF eps[i].ttl = 0 THEN [eps[i] EXCEPT !.ttl = c.minTTL] ELSE eps[i]]

\* The order of the wrappers.
WrapSources(c, eps) ==
    LET unique == dedupSource(eps)
    IN  IF nat64Fails(c, unique) THEN Err
        ELSE Ok(postProcessor(c, targetFilterSource(c, nat64Source(c, unique))))

=============================================================================
