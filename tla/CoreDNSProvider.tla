-------------------------- MODULE CoreDNSProvider --------------------------
(***************************************************************************)
(* provider/coredns/coredns.go.  etcd has a service per target, under a    *)
(* key made of the name and a random prefix; its host is the target, its   *)
(* text that of a TXT record.  A service is a record of type "service",    *)
(* its set identifier the prefix.  strict: --coredns-strictly-owned.       *)
(***************************************************************************)
EXTENDS ProviderAPI

CONSTANT LabelStarts    \* pairs <<l, m>> of labels such that the text of l begins with that of m

KeyPrefixes == {"p1", "p2", "p3", "p4"}
NoHost == 1000
Self == "me"

CoreDNS_Service(n, prefix, host, ttl, text, owner) ==
    RR("", n, prefix, "service", host, ttl, {<<"text", t>> : t \in text} \cup {<<"owner", owner>>})
TextOf(s) == {p[2] : p \in {q \in s.props : q[1] = "text"}}
CoreDNS_OwnerOf(s) == CHOOSE o \in {"", Self, "other"} : <<"owner", o>> \in s.props

\* GetServices, and the filter of Records.
GetServices(strict, S) ==
    {s \in S : s.type = "service" /\ (strict => CoreDNS_OwnerOf(s) = Self)
                 /\ \E z \in ManagedZones : InZone(s.name, z)}

guessRecordType(host) == IF host \in HostTargets THEN "CNAME" ELSE "A"

\* One endpoint for all hosts of a name, with type and ttl of the first, and one for
\* each text.
CoreDNS_Records(strict, S) ==
    LET G == GetServices(strict, S)
        hosts(n) == {s \in G : s.name = n /\ s.target # NoHost}
        first(n) == CHOOSE s \in hosts(n) : TRUE
    IN  {Ep(s.name, "", guessRecordType(first(s.name).target), {h.target : h \in hosts(s.name)},
            first(s.name).ttl, {}) : s \in {x \in G : x.target # NoHost}}
        \cup UNION {{Ep(s.name, "", "TXT", {t}, 0, {}) : t \in TextOf(s)} : s \in G}

\* The labels of a listed endpoint: the prefix of each host, and that of the last
\* service.  A TXT endpoint of the registry was made anew and has no labels.
Labels(G, e) ==
    IF e.owned # NoName THEN {} ELSE {s \in G : s.name = NameOf(e) /\ s.target # NoHost}
LastPrefix(G, e) ==
    LET all == AsSeq(Labels(G, e)) IN IF all = <<>> THEN {} ELSE {Last(all).set}

\* The services of e, which keep the prefixes of hosts that stay, and the keys of the
\* outdated labels, which are deleted at once: those of other hosts and, if strict, of
\* the label that names the owner, whose value is taken for a prefix.
createServicesForEndpoint(strict, G, n, e, olds) ==
    LET free == AsSeq(KeyPrefixes \ {s.set : s \in {x \in G : x.name = n}})
        new == AsSeq({t \in TargetsOf(e) : \A o \in olds : o.target # t})
        prefix(t) == IF \E o \in olds : o.target = t THEN (CHOOSE o \in olds : o.target = t).set
                     ELSE free[CHOOSE i \in DOMAIN new : new[i] = t]
        text == UNION {TextOf(o) : o \in olds}
        labels == {o.set : o \in {x \in olds : x.target \notin TargetsOf(e)}}
                     \cup IF strict /\ olds # {} THEN {Self} ELSE {}
    IN  [outdated |-> {<<l>> \o n : l \in labels},
         services |-> AsSeq({CoreDNS_Service(n, prefix(t), t, e.ttl, text, Self) : t \in TargetsOf(e)})]

WithText(s, text) ==
    [s EXCEPT !.props = {p \in @ : p[1] # "text"} \cup {<<"text", t>> : t \in text}]

\* The i-th text goes to the i-th service; if there is any, the others lose theirs.
updateTXTRecords(G, n, texts, services) ==
    LET free == AsSeq(KeyPrefixes \ {s.set : s \in {x \in G : x.name = n}})
        more == [i \in 1 .. Len(texts) - Len(services) |->
                    CoreDNS_Service(n, free[i], NoHost, texts[i].ttl, {}, Self)]
        all == IF Len(texts) > Len(services) THEN services \o more ELSE services
    IN  IF texts = <<>> THEN services
        ELSE [i \in DOMAIN all |->
                 WithText(all[i], IF i <= Len(texts) THEN {Min(TargetsOf(texts[i]))} ELSE {})]

\* etcd keys are the labels in reverse order: whether that of path begins with key.
BeginsWith(path, key) ==
    LET d == Len(path) - Len(key)
    IN  /\ d >= 0 /\ SubSeq(path, d + 2, Len(path)) = Tail(key)
        /\ path[d + 1] = key[1] \/ <<path[d + 1], key[1]>> \in LabelStarts

\* DeleteService deletes all keys that begin with key; if strict, one by one those of
\* this owner.
CoreDNS_DeleteService(strict, S, key) ==
    LET found == {s \in S : s.type = "service" /\ BeginsWith(<<s.set>> \o s.name, key)}
    IN  IF strict THEN Each(LAMBDA s : Del({s}, "hard"), {s \in found : CoreDNS_OwnerOf(s) = Self})
        ELSE <<Del(found, "hard")>>

\* SaveService: a key of another owner is an error.
SaveService(strict, S, s) ==
    IF strict /\ \E x \in S : SameSet(x, s) /\ CoreDNS_OwnerOf(x) # Self THEN Refuse("hard")
    ELSE Put({[s EXCEPT !.props = IF strict THEN @ ELSE (@ \ {<<"owner", Self>>}) \cup {<<"owner", "">>}]},
             "hard")

applyGroup(strict, S, ch, n) ==
    LET G == GetServices(strict, S)
        group == {e \in ch.create \cup ch.updateNew : NameOf(e) = n}
        olds(e) == IF e \in ch.updateNew THEN Labels(G, OldOf(ch, e)) ELSE {}
        made(e) == createServicesForEndpoint(strict, G, n, e, olds(e))
        plain == {e \in group : e.type # "TXT"}
        services == updateTXTRecords(G, n, AsSeq(group \ plain),
                                     ConcatOver(LAMBDA e : made(e).services, plain))
    IN  ConcatOver(LAMBDA key : CoreDNS_DeleteService(strict, S, key), UNION {made(e).outdated : e \in plain})
            \o [i \in DOMAIN services |-> SaveService(strict, S, services[i])]

deleteEndpoints(strict, S, E) ==
    LET key(e) == SetToSeq(LastPrefix(GetServices(strict, S), e)) \o NameOf(e)
    IN  ConcatOver(LAMBDA e : CoreDNS_DeleteService(strict, S, key(e)), E)

CoreDNS_ApplyChanges(strict, S, ch) ==
    LET names == {NameOf(e) : e \in ch.create \cup ch.updateNew}
        inside == {n \in names : \E z \in ManagedZones : InZone(n, z)}
    IN  IF DryRun THEN <<>>
        ELSE ConcatOver(LAMBDA n : applyGroup(strict, S, ch, n), inside)
                \o deleteEndpoints(strict, S, ch.delete)

=============================================================================
