----------------------------- MODULE SourceAPI -----------------------------
(***************************************************************************)
(* What the models of the sources share: Kubernetes objects, the endpoints *)
(* made of them, and the helpers of source/endpoints.go, source/utils.go,  *)
(* source/annotations and source/fqdn.                                     *)
(*                                                                         *)
(* A DNS name is a sequence of labels.  An object is a record with kind,   *)
(* ns, name, the order of its resource label among all (rank), labels,     *)
(* and its annotations: hostnames and internalHostnames (lists),           *)
(* targetAnn (a set), ttl, controller, set and other (the rest, as a set). *)
(* A view gives for every kind the list of objects that a reader sees.     *)
(* Targets are sets: lists of them are sorted and freed of duplicates      *)
(* before they are compared.                                               *)
(***************************************************************************)
EXTENDS Naturals, Sequences, SequencesExt, FiniteSetsExt, Functions

CONSTANTS
    IPv4, IPv6,     \* the targets that are addresses
    TTLMax          \* the largest ttl that is accepted

suitableType(t) == IF t \in IPv4 THEN "A" ELSE IF t \in IPv6 THEN "AAAA" ELSE "CNAME"

-----------------------------------------------------------------------------
(***************************************************************************)
(* Endpoints.                                                              *)
(***************************************************************************)

\* resource is the rank of the resource label, 0 without one.
SourceEp(name, type, targets, ttl, set, resource) ==
    [name |-> name, type |-> type, targets |-> targets, ttl |-> ttl, set |-> set,
     resource |-> resource]

KeyOf(e) == <<e.name, e.type, e.set>>

\* One endpoint for each type that a target has.
EndpointsForHostname(host, targets, ttl, set, resource) ==
    LET of(type) == {t \in targets : suitableType(t) = type}
        used == SelectSeq(<<"A", "AAAA", "CNAME">>, LAMBDA type : of(type) # {})
    IN  [i \in DOMAIN used |-> SourceEp(host, used[i], of(used[i]), ttl, set, resource)]

\* The lists F(x), for the members x of the list s, one after the other.
ForEach(F(_), s) == FlattenSeq([i \in DOMAIN s |-> F(s[i])])

\* The endpoints of several hosts with the annotations of object o.
EndpointsForHosts(hosts, targets, o, ttl) ==
    ForEach(LAMBDA h : EndpointsForHostname(h, targets, ttl, o.set, o.rank), hosts)

\* The endpoints of eps that agree in f become one, with the targets of all.
MergeBy(f(_), eps) ==
    LET firsts == SelectSeq([i \in DOMAIN eps |-> i],
                            LAMBDA i : \A j \in 1..(i - 1) : f(eps[j]) # f(eps[i]))
        all(e) == UNION {x.targets : x \in {y \in Range(eps) : f(y) = f(e)}}
    IN  [i \in DOMAIN firsts |-> [eps[firsts[i]] EXCEPT !.targets = all(eps[firsts[i]])]]

MergeEndpoints(eps) == MergeBy(LAMBDA e : <<e.name, e.type, e.ttl>>, eps)

-----------------------------------------------------------------------------
(***************************************************************************)
(* The outcome of a source for one object.                                 *)
(***************************************************************************)

Ok(eps) == [err |-> FALSE, eps |-> eps]
Err == [err |-> TRUE, eps |-> <<>>]

-----------------------------------------------------------------------------
(***************************************************************************)
(* Annotations, selectors and templates.                                   *)
(***************************************************************************)

\* MUTANT: a ttl that is out of range is taken all the same.
TTLUnchecked(o) == o.ttl

\* A ttl that is out of range counts as none.
TTLFromAnnotations(o) == IF o.ttl \in 1..TTLMax THEN o.ttl ELSE 0

IsControllerMismatch(o) == o.controller \notin {"", "dns-controller"}

\* The namespace, the label selector and the annotation filter; empty ones select
\* everything.
InNamespace(c, o) == c.namespace \in {"", o.ns}
AnnotationFilter(c, o) == c.annotationFilter \subseteq o.other
Selected(c, o) == InNamespace(c, o) /\ c.labelSelector \subseteq o.labels /\ AnnotationFilter(c, o)

\* The hostnames of the annotation, unless they are to be ignored.
AnnotatedHosts(c, o) == IF c.ignoreHostnameAnnotation THEN <<>> ELSE o.hostnames

\* The targets of the annotation, or else the given ones.
TargetsOr(o, targets) == IF o.targetAnn # {} THEN o.targetAnn ELSE targets

\* The endpoints of o, those of the template added to them or in their place.  The
\* template applied to o fails or gives o.templateHosts.
CombineWithTemplatedEndpoints(c, o, eps, templated) ==
    IF ~c.template \/ (~c.combine /\ eps # <<>>) THEN Ok(eps)
    ELSE IF o.templateFails THEN Err
    ELSE Ok(IF c.combine THEN eps \o templated ELSE templated)

\* The objects of a list with this namespace and name: one or none.
Named(list, ns, name) == SelectSeq(list, LAMBDA o : o.ns = ns /\ o.name = name)

\* All pairs of selector are among those of svcSelector.
MatchesServiceSelector(selector, svcSelector) == selector \subseteq svcSelector

EndpointTargetsFromServices(c, v, selector) ==
    LET services == {s \in Range(v.service) :
                        InNamespace(c, s) /\ MatchesServiceSelector(selector, s.selector)}
    IN  UNION {IF s.externalIPs # {} THEN s.externalIPs ELSE s.lb :
               s \in services}

=============================================================================
