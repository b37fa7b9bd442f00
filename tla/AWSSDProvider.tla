--------------------------- MODULE AWSSDProvider ---------------------------
(***************************************************************************)
(* provider/awssd/aws_sd.go and registry/awssd/registry.go.  Cloud Map     *)
(* has services, with type, ttl and, if external-dns made them, a          *)
(* description that names the owner, and instances of them, one per        *)
(* target.  Both are records here.                                         *)
(***************************************************************************)
EXTENDS ProviderAPI

CONSTANTS
    AWSLoadBalancers,       \* targets that are load balancers
    CleanEmptyService,      \* --aws-sd-service-cleanup
    LongerOwners            \* owners whose identifier begins with that of this instance

AWSSD_defaultTTL == 300
OwnerID == "me"

Srv(ns, name, type, ttl, owner) ==
    RR(ns, name, "", "service", 0, ttl, {<<"type", type>>, <<"owner", owner>>})
Inst(ns, name, target, attr) == RR(ns, name, "", "instance", target, 0, {<<"attr", attr>>})

Services(S) == {s \in InManagedZones(S) : s.type = "service"}
InstancesOf(S, s) == {i \in S : i.type = "instance" /\ i.zone = s.zone /\ i.name = s.name}
PropOf(r, prop) == (CHOOSE p \in r.props : p[1] = prop)[2]
Described(s) == \E p \in s.props : p[1] = "owner"
AWSSD_OwnerOf(s) == PropOf(s, "owner")

\* What a target is registered as, and the type that is read back.
AttrOf(e, t) ==
    IF e.type = "CNAME" /\ t \in AWSLoadBalancers THEN "alias" ELSE e.type
TypeOf(i) == IF PropOf(i, "attr") = "alias" THEN "CNAME" ELSE PropOf(i, "attr")

\* A CNAME is one in a service of this type only; other instances are left out, and an
\* endpoint without any has no type.  Registry: the owner is read from the description.
instancesToEndpoint(s, I) ==
    LET valid == {i \in I : PropOf(i, "attr") = "CNAME" => PropOf(s, "type") = "CNAME"}
        type == IF valid = {} THEN "" ELSE TypeOf(CHOOSE i \in valid : TRUE)
    IN  [Ep(FullNameOf(s), "", type, {i.target : i \in valid}, s.ttl, {})
            EXCEPT !.owner = AWSSD_OwnerOf(s)]

AWSSD_Records(S) ==
    {instancesToEndpoint(s, InstancesOf(S, s)) :
        s \in {x \in Services(S) : InstancesOf(S, x) # {} /\ Described(x)}}

\* Records deletes the services that it finds empty, if their description begins with
\* that of this owner.
DeleteService(S) ==
    IF DryRun \/ ~CleanEmptyService THEN S
    ELSE S \ {s \in Services(S) : /\ InstancesOf(S, s) = {} /\ Described(s)
                                  /\ AWSSD_OwnerOf(s) \in {OwnerID} \cup LongerOwners}

\* What Records may leave: a deletion that fails is logged only.
AWSSD_Leavings(S) == {S \ D : D \in SUBSET (S \ DeleteService(S))}

\* An update registers all targets, and deregisters those that are not there any more.
updatesToCreates(ch) ==
    {LET old == OldOf(ch, e)
     IN  [old EXCEPT !.targets = RankOf(TargetsOf(old) \ TargetsOf(e))] :
        e \in {x \in ch.updateNew : x.targets # OldOf(ch, x).targets}}

\* A namespace is the name without its first label.
parseHostname(n) == [ns |-> Tail(n), srv |-> <<Head(n)>>]
matchingNamespaces(n) == {z \in ManagedZones : z.name = parseHostname(n).ns}
changesByNamespaceID(E) ==
    UNION {{<<z, e>> : z \in matchingNamespaces(NameOf(e))} : e \in E}

serviceTypeFromEndpoint(e) ==
    CASE e.type = "CNAME" /\ Min(TargetsOf(e)) \in AWSLoadBalancers -> "A"
      [] e.type = "CNAME" /\ Min(TargetsOf(e)) \notin AWSLoadBalancers -> "CNAME"
      [] OTHER -> e.type

CreateOrUpdateService(S, z, e) ==
    LET name == parseHostname(NameOf(e)).srv
        have == {s \in S : s.type = "service" /\ s.zone = z.id /\ s.name = name}
        srv == Srv(z.id, name, serviceTypeFromEndpoint(e), IF e.ttl # 0 THEN e.ttl ELSE AWSSD_defaultTTL, OwnerID)
    IN  IF have = {} \/ (e.ttl # 0 /\ \A s \in have : s.ttl # e.ttl)
        THEN <<Put({srv}, "hard")>> ELSE <<>>

RegisterInstance(z, e) ==
    IF e.type \notin {"CNAME", "A", "AAAA"} THEN <<Refuse("hard")>>
    ELSE Each(LAMBDA t : LET i == Inst(z.id, parseHostname(NameOf(e)).srv, t, AttrOf(e, t))
                         IN  Call({}, {[i EXCEPT !.props = {<<"attr", a>>}] :
                                          a \in {"A", "AAAA", "CNAME", "alias"}}, {i}, "hard"),
              TargetsOf(e))

DeregisterInstance(S, z, e) ==
    LET name == parseHostname(NameOf(e)).srv
        srv == {s \in S : s.type = "service" /\ s.zone = z.id /\ s.name = name}
        gone(t) == {i \in S : i.type = "instance" /\ i.zone = z.id /\ i.name = name /\ i.target = t}
    IN  IF srv = {} THEN <<Refuse("hard")>> ELSE Each(LAMBDA t : Del(gone(t), "hard"), TargetsOf(e))

submitDeletes(S, E) ==
    ConcatOver(LAMBDA p : DeregisterInstance(S, p[1], p[2]), changesByNamespaceID(E))
submitCreates(S, E) ==
    ConcatOver(LAMBDA p : CreateOrUpdateService(S, p[1], p[2]) \o RegisterInstance(p[1], p[2]),
               changesByNamespaceID(E))

AWSSD_ApplyChanges(S, ch) ==
    IF DryRun THEN <<>>
    ELSE submitDeletes(S, ch.delete \cup updatesToCreates(ch))
            \o submitCreates(S, ch.create \cup ch.updateNew)

=============================================================================
