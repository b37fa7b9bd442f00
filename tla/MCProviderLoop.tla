-------------------------- MODULE MCProviderLoop --------------------------
(***************************************************************************)
(* Instances of ProviderLoop for TLC.                                      *)
(***************************************************************************)
EXTENDS ProviderLoop

\* A zone, a zone inside it, and one that the filters exclude.
zone == <<"zone">>
child == <<"sub", "zone">>
Zone(id, name, managed) == [id |-> id, name |-> name, private |-> FALSE, managed |-> managed]
NestedZones == {Zone("Z", zone, TRUE), Zone("C", child, TRUE), Zone("X", <<"other">>, FALSE)}

www == <<"www", "zone">>
deep == <<"www", "sub", "zone">>
mail == <<"mail", "zone">>
foreign == <<"www", "other">>
nodot == <<"xsub", "zone">>   \* its text ends in that of a zone that it is not in
Names == {www, deep, zone, child, mail, foreign, nodot}
MCTypedLabel(t, l) ==
    CASE t = "A" -> "a-" \o l [] t = "AAAA" -> "aaaa-" \o l [] t = "CNAME" -> "cname-" \o l
OwnNames == {ToTXTName(n, t) : n \in Names, t \in {"A", "AAAA", "CNAME"}}
AllKeys == (Names \cup OwnNames) \X {""}

\* The text of the label "xsub" ends in "sub".
MCLabelEndings == {<<"xsub", "sub">>}

\* Targets: 0 the text of an ownership record, 1 and 2 addresses, 3 a host name, 4 a
\* load balancer.
A(n, ts) == Ep(n, "", "A", ts, 300, {})
CName(n, t) == Ep(n, "", "CNAME", {t}, 300, {})
Hosted(e, host) == [e EXCEPT !.props = {<<"custom-hostname", {host}>>}]

Wishes == {{A(www, {1}), A(mail, {1})},
           {A(www, {1, 2}), A(zone, {2})},
           {[A(www, {2}) EXCEPT !.ttl = 600], A(deep, {1})},
           {CName(www, 3), A(deep, {2})},
           {CName(www, 4), A(nodot, {1})},
           {}}
HostedWishes == {{Hosted(A(www, {1}), <<"h1">>)}, {Hosted(A(www, {2}), <<"h2">>), A(deep, {1})}, {}}

(***************************************************************************)
(* What each provider is not asked to do, since it cannot.                 *)
(***************************************************************************)

\* One endpoint is reported per record: several targets are updated for ever.
PerRecord == OneEndpointPerRecord
\* Of several targets to delete, the others lose their ownership record first.
PerService == {"coredns", "coredns-strict"}
\* The ttl is not kept, or not reported.
Timeless == {"digitalocean", "pihole", "pihole6", "plural"}
\* A record is looked up by its name only, so a name keeps its one type.
ByNameOnly == {"dnsimple", "exoscale"}
\* A record whose type changes is not taken over.
Typed == ByNameOnly \cup PerService \cup {"awssd"}
\* The apex of a zone is not found; or its ownership record, named like a zone beside
\* this one, is dropped for want of a zone, and nobody owns the record of the apex.
NoApex == {"exoscale", "awssd"} \cup TXTKinds

Fitting(k, W) ==
    /\ k \in PerRecord \cup PerService => \A e \in W : Cardinality(TargetsOf(e)) = 1
    /\ k \in Typed => \A e \in W : e.type = "A"
    /\ k \in ByNameOnly => \A e \in W : NameOf(e) # mail
    \* The zone is found by the end of a text.
    /\ k = "rfc2136" => \A e \in W : NameOf(e) # nodot
    \* An alias that becomes a CNAME loses its ownership record: see TXTAlias.cfg.
    /\ k = "aws" => CName(www, 3) \notin W
    \* Records of another zone with the same relative name are taken for those of this one.
    /\ k = "ovh" => \A e \in W : NameOf(e) # deep

\* GoDaddy raises a ttl below its minimum, OVH does not change one.
TTLFor(k, ttl) ==
    CASE k \in Timeless -> 0
      [] k = "godaddy" -> ttl + 600
      [] k = "ovh" -> 300
      [] OTHER -> ttl

WishesOf == [k \in Kinds |->
    {{[e EXCEPT !.ttl = TTLFor(k, @)] : e \in {x \in W : k \in NoApex => NameOf(x) # zone}} :
        W \in {V \in IF k = "cloudflare-saas" THEN HostedWishes ELSE Wishes : Fitting(k, V)}}]

\* The records of others: a mail server in the managed zone, in the zone that is not
\* managed, and, where records have owners, at a name that is wanted.
Others == [k \in Kinds |->
    LET name(n, z) == IF k \in Relatively THEN SubSeq(n, 1, Len(n) - Len(z)) ELSE n
        in(z) == IF k \in Zoneless THEN "" ELSE z
        mx == RR(in("Z"), name(mail, zone), "", "MX", 3, 0, {})
        theirs == RR(in("X"), name(foreign, <<"other">>), "", "A", 2, 0, {})
        taken == RR(in("Z"), name(mail, zone), "", "A", 2, 300, {})
    IN  CASE k \in {"pihole", "pihole6"} -> {theirs}
          [] k = "awssd" -> {Srv("Z", <<"mail">>, "A", 300, "other"), Inst("Z", <<"mail">>, 2, "A")}
          [] k = "coredns" -> {CoreDNS_Service(foreign, "p1", 2, 300, {}, "other")}
          [] k = "coredns-strict" -> {CoreDNS_Service(mail, "p1", 2, 300, {}, "other")}
          [] k \in TXTKinds -> {mx, theirs, taken}
          [] OTHER -> {mx, theirs}]

AllKinds == {"aws", "awssd", "akamai", "alibaba", "alibaba-private", "azure", "azure-private", "cloudflare",
             "cloudflare-saas", "coredns", "coredns-strict", "digitalocean", "dnsimple", "exoscale", "gandi",
             "godaddy", "google", "linode", "civo", "ns1", "oci", "ovh", "pdns", "pihole", "pihole6",
             "plural", "rfc2136", "scaleway", "transip", "cached", "webhook"}

=============================================================================
