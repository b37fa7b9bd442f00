---------------------------- MODULE AWSProvider ----------------------------
(***************************************************************************)
(* The Route 53 provider, provider/aws/aws.go.  The service keeps record   *)
(* sets; a change batch is one transaction on one zone.  A change carries  *)
(* the tag of the ApplyChanges that allocated it: changes are compared by  *)
(* pointer, and equal tags stand for the same allocation.  The byte limit  *)
(* of a batch is counted like its limit of values.                         *)
(***************************************************************************)
EXTENDS ProviderAPI

CONSTANTS
    CanonicalTargets,   \* targets inside a hosted zone of AWS, load balancers
    BatchChangeSize,    \* --aws-batch-change-size
    BatchChangeValues   \* --aws-batch-change-size-values

AWS_defaultTTL == 300
sameZoneAlias == "same-zone"
RoutingPolicies ==
    <<{"weight"}, {"region"}, {"failover"}, {"multi-value-answer"}, {"continent"},
      {"country", "subdivision"}, {"geo-region", "geo-bias", "geo-coordinates", "geo-group"}>>

Property(e, p) == {x[2] : x \in {y \in e.props : y[1] = p}}
HasProperty(e, p) == Property(e, p) # {}
Without(props, names) == {x \in props : x[1] \notin names}
IsTrue(e, p) == "true" \in Property(e, p)
SetProperty(e, p, v) == [e EXCEPT !.props = Without(@, {p}) \cup {<<p, v>>}]

-----------------------------------------------------------------------------
(***************************************************************************)
(* Records.                                                                *)
(***************************************************************************)

\* The routing policy that is reported: the first that is set.
ReportedPolicy(set, props) ==
    LET present == {i \in DOMAIN RoutingPolicies :
                      \E x \in props : x[1] \in RoutingPolicies[i]}
    IN  IF set = "" \/ present = {} THEN {}
        ELSE {x \in props : x[1] \in RoutingPolicies[Min(present)]}

IsAliasRR(r) == \E x \in r.props : x[1] = "alias-zone"

RecordEndpoint(r, S) ==
    LET targets == {s.target : s \in {x \in S : SameSet(x, r)}}
        health == {x \in r.props : x[1] = "health-check-id"}
        more == ReportedPolicy(r.set, r.props) \cup health
        plain == IF r.type = "CNAME" THEN {<<"alias", "false">>} ELSE {}
        alias == {x \in r.props : x[1] = "evaluate-target-health"} \cup {<<"alias", "true">>}
    IN  IF IsAliasRR(r)
        THEN Ep(r.name, r.set, r.type, {r.target}, AWS_defaultTTL, alias \cup more)
        ELSE Ep(r.name, r.set, r.type, targets, r.ttl, plain \cup more)

AWS_supportedType(t) == t \in {"MX", "NAPTR"} \/ SupportedRecordType(t)

AWS_records(S) ==
    {RecordEndpoint(r, S) : r \in {x \in S : /\ AWS_supportedType(x.type)
                                             /\ \E z \in ManagedZones : z.id = x.zone}}

\* The planner keeps to names inside the zones of the provider.
GetDomainFilter(n) == \E z \in ManagedZones : InZone(n, z)

-----------------------------------------------------------------------------
(***************************************************************************)
(* AdjustEndpoints.                                                        *)
(***************************************************************************)

adjustAliasRecord(e) ==
    SetProperty([e EXCEPT !.ttl = IF @ # 0 THEN AWS_defaultTTL ELSE 0],
                "evaluate-target-health",
                IF HasProperty(e, "evaluate-target-health") THEN
                   IF IsTrue(e, "evaluate-target-health") THEN "true" ELSE "false"
                ELSE "true")

NotAlias(e) == [e EXCEPT !.props = Without(@, {"alias", "evaluate-target-health"})]

adjustAandAAAARecord(e) == IF IsTrue(e, "alias") THEN adjustAliasRecord(e) ELSE NotAlias(e)

useAlias(e) == e.type = "CNAME" /\ TargetsOf(e) # {} /\ Min(TargetsOf(e)) \in CanonicalTargets

adjustCNAMERecord(e) ==
    IF IF HasProperty(e, "alias") THEN IsTrue(e, "alias") ELSE useAlias(e)
    THEN adjustAliasRecord([SetProperty(e, "alias", "true") EXCEPT !.type = "A"])
    ELSE SetProperty(NotAlias(e), "alias", "false")

adjustOtherRecord(e) ==
    IF IsTrue(e, "alias")
    THEN [adjustAliasRecord(e) EXCEPT !.props = Without(@, {"alias"})]
    ELSE NotAlias(e)

adjustGeoProximityLocationEndpoint(e) ==
    IF /\ SetOf(e) # ""
       /\ \E p \in {"geo-region", "geo-group", "geo-coordinates"} : HasProperty(e, p)
       /\ ~HasProperty(e, "geo-bias")
    THEN SetProperty(e, "geo-bias", "0")
    ELSE e

\* A CNAME that becomes an alias is an A and an AAAA record.
adjustEndpointAndNewAaaaIfNeeded(e) ==
    LET adjusted == adjustGeoProximityLocationEndpoint(
            CASE e.type \in {"A", "AAAA"} -> adjustAandAAAARecord(e)
              [] e.type = "CNAME" -> adjustCNAMERecord(e)
              [] OTHER -> adjustOtherRecord(e))
    IN  {adjusted} \cup
        (IF e.type = "CNAME" /\ IsTrue(adjusted, "alias")
         THEN {[adjusted EXCEPT !.type = "AAAA"]} ELSE {})

AWS_AdjustEndpoints(E) == UNION {adjustEndpointAndNewAaaaIfNeeded(e) : e \in E}

-----------------------------------------------------------------------------
(***************************************************************************)
(* Changes.                                                                *)
(***************************************************************************)

isAWSAlias(e) ==
    IF IsTrue(e, "alias") /\ e.type \in {"A", "AAAA"} /\ TargetsOf(e) # {}
    THEN CASE HasProperty(e, "target-hosted-zone") ->
                  CHOOSE v \in Property(e, "target-hosted-zone") : TRUE
           [] Min(TargetsOf(e)) \in CanonicalTargets -> "canonical"
           [] OTHER -> sameZoneAlias
    ELSE ""

\* What a record set keeps of the provider-specific properties.
KeptProperties(e) ==
    {x \in e.props : \/ x[1] = "health-check-id"
                     \/ /\ \E i \in DOMAIN RoutingPolicies : x[1] \in RoutingPolicies[i]
                        /\ HasProperty(e, "continent") => x[1] \notin {"country", "subdivision"}}

newChange(action, e, tag) ==
    LET hosted == isAWSAlias(e)
        health == IF HasProperty(e, "evaluate-target-health")
                  THEN {x \in e.props : x[1] = "evaluate-target-health"}
                  ELSE {<<"evaluate-target-health", "true">>}
        rrs == IF hosted # ""
               THEN {RR("", NameOf(e), SetOf(e), e.type, Min(TargetsOf(e)), 0,
                        KeptProperties(e) \cup health \cup {<<"alias-zone", hosted>>})}
               ELSE {RR("", NameOf(e), SetOf(e), e.type, t,
                        IF e.ttl = 0 THEN AWS_defaultTTL ELSE e.ttl, KeptProperties(e)) :
                        t \in TargetsOf(e)}
    IN  [action |-> action, name |-> NameOf(e), rrs |-> rrs, owned |-> e.owned, tag |-> tag,
         values |-> Cardinality(rrs) * (IF action = "UPSERT" THEN 2 ELSE 1)]

\* MUTANT: a switch between an alias and a plain record is taken for an update.
requiresDeleteCreateByType(old, new) == old.type # new.type

requiresDeleteCreate(old, new) ==
    \/ old.type # new.type
    \/ old.type = "A" /\ Property(old, "alias") # Property(new, "alias")
    \/ SetOf(old) # SetOf(new)
    \/ \E p \in {"weight", "region", "failover", "continent", "country", "subdivision"} :
          HasProperty(old, p) # HasProperty(new, p)

createUpdateChanges(ch, tag) ==
    LET hard == {e \in ch.updateNew : requiresDeleteCreate(OldOf(ch, e), e)}
    IN  {newChange("CREATE", e, tag) : e \in hard} \cup
        {newChange("UPSERT", e, tag) : e \in ch.updateNew \ hard} \cup
        {newChange("DELETE", OldOf(ch, e), tag) : e \in hard}

\* All private zones of the name, in one order, and the best public one.
suitableZones(n) ==
    AsSeq({z \in ManagedZones : z.private /\ InZone(n, z)})
        \o AsSeq(FindZone({z \in ManagedZones : ~z.private}, n))

\* The change as it is sent to the i-th of the zones zs.  An alias inside its own
\* zone gets the identifier of the first of them, since the loop replaces the change
\* it goes on with; the copy has neither sizes nor ownership.
InSuitableZone(c, zs, i) ==
    LET own == \E r \in c.rrs : <<"alias-zone", sameZoneAlias>> \in r.props
        there(r) == [r EXCEPT !.zone = zs[i].id,
                              !.props = IF own THEN Without(@, {"alias-zone"})
                                                      \cup {<<"alias-zone", zs[1].id>>}
                                        ELSE @]
    IN  [c EXCEPT !.rrs = {there(r) : r \in @},
                  !.values = IF own THEN 0 ELSE @,
                  !.owned = IF own THEN NoName ELSE @]

changesByZone(cs, z) ==
    UNION {LET zs == suitableZones(c.name)
           IN  {InSuitableZone(c, zs, i) : i \in {j \in DOMAIN zs : zs[j] = z}} : c \in cs}

GroupKey(c) == IF c.owned = NoName THEN c.name ELSE c.owned[1]

\* MUTANT: a record and its ownership record go their own ways.
groupChangesByName(cs) == {{c \in cs : c.name = n} : n \in {c.name : c \in cs}}

groupChangesByNameAndOwnershipRelation(cs) ==
    {{c \in cs : GroupKey(c) = k} : k \in {GroupKey(c) : c \in cs}}

countChangeValues(cs) == MapThenSumSet(LAMBDA c : c.values, cs)

Fits(cs) == Cardinality(cs) <= BatchChangeSize /\ countChangeValues(cs) <= BatchChangeValues

\* The batches of cs.  Groups stay together; one that is too large for a batch is
\* left out.
batchChangeSet(cs) ==
    LET groups == {g \in groupChangesByNameAndOwnershipRelation(cs) : Fits(g)}
        grow(g, bs) == IF bs # <<>> /\ Fits(Last(bs) \cup g)
                       THEN Append(Front(bs), Last(bs) \cup g)
                       ELSE Append(bs, g)
    IN  IF Fits(cs) THEN <<cs>> ELSE FoldSet(grow, <<>>, groups)

sortChangesByActionNameType(cs) ==
    AsSeq({c \in cs : c.action = "UPSERT"}) \o AsSeq({c \in cs : c.action = "DELETE"})
        \o AsSeq({c \in cs : c.action = "CREATE"})

\* One transaction: the changes of a batch in their order.
Transaction(cs, onFail) ==
    LET touched == UNION {c.rrs : c \in cs}
        apply(S, c) == {r \in S : ~\E x \in c.rrs : SameSet(x, r)}
                           \cup (IF c.action = "DELETE" THEN {} ELSE c.rrs)
    IN  Call(touched, {}, FoldLeft(apply, {}, sortChangesByActionNameType(cs)), onFail)

findChangesInQueue(cs, queue) ==
    LET found == {c \in cs : c \in queue}
    IN  [found |-> found, new |-> cs \ found]

\* A batch that fails is tried group by group, and the groups that fail are queued.
SubmitBatch(b) ==
    LET groups == groupChangesByNameAndOwnershipRelation(b)
        apart(g) == <<[Transaction(g, "softnote") EXCEPT !.queue = g]>>
    IN  [Transaction(b, "softnote") EXCEPT
            !.instead = IF Cardinality(groups) > 1 THEN ConcatOver(apart, groups) ELSE <<>>]

AWS_submitChanges(cs, queue) ==
    LET zone(z) ==
            LET split == findChangesInQueue(changesByZone(cs, z), queue)
                batches == batchChangeSet(split.new) \o batchChangeSet(split.found)
                full == SelectSeq(batches, LAMBDA b : b # {})
            IN  [i \in DOMAIN full |-> SubmitBatch(full[i])]
    IN  IF DryRun THEN <<>> ELSE ConcatOver(zone, ManagedZones)

AWS_ApplyChanges(ch, queue, tag) ==
    AWS_submitChanges({newChange("CREATE", e, tag) : e \in ch.create} \cup
                  {newChange("DELETE", e, tag) : e \in ch.delete} \cup
                  createUpdateChanges(ch, tag), queue)

\* The queue that is left: a zone with new changes starts with an empty one.
RemainingQueue(ch, queue) ==
    LET cs == {newChange("CREATE", e, 0) :
                 e \in ch.create \cup ch.updateNew \cup ch.delete}
    IN  {q \in queue : \A r \in q.rrs : \A z \in ManagedZones :
                          z.id = r.zone => changesByZone(cs, z) = {}}

=============================================================================
