------------------------ MODULE CloudflareProvider ------------------------
(***************************************************************************)
(* provider/cloudflare/cloudflare.go, cloudflare_custom_hostnames.go and   *)
(* cloudflare_regional.go.  Custom hostnames and regional hostnames are    *)
(* kept by the service beside the records, here as records of two further  *)
(* types.  saas: custom hostnames and regional services are enabled.       *)
(***************************************************************************)
EXTENDS ProviderAPI

Cloudflare_defaultTTL == 1
RegionKey == "eu"

Cloudflare_Values(e, p) == {x[2] : x \in {y \in e.props : y[1] = p}}
Cloudflare_Dropped(e, p) == [e EXCEPT !.props = {x \in @ : x[1] # p}]
Cloudflare_Given(e, p, v) == [e EXCEPT !.props = {x \in @ : x[1] # p} \cup {<<p, v>>}]

shouldBeProxied(e) ==
    "true" \in Cloudflare_Values(e, "proxied") /\ e.type \notin {"LOC", "MX", "NS", "SPF", "TXT", "SRV"}

RegionalType(t) == t \in {"A", "AAAA", "CNAME"}
CustomType(t) == t \in {"A", "CNAME"}

getEndpointCustomHostnames(e) == UNION Cloudflare_Values(e, "custom-hostname")

-----------------------------------------------------------------------------
(***************************************************************************)
(* Endpoints.                                                              *)
(***************************************************************************)

adjustRegionKey(saas, e) ==
    CASE ~saas \/ ~RegionalType(e.type) -> Cloudflare_Dropped(e, "region-key")
      [] Cloudflare_Values(e, "region-key") = {} -> Cloudflare_Given(e, "region-key", RegionKey)
      [] OTHER -> e

AdjustEndpoint(saas, e) ==
    LET proxied == Cloudflare_Given([e EXCEPT !.ttl = IF shouldBeProxied(e) THEN 0 ELSE @],
                         "proxied", IF shouldBeProxied(e) THEN "true" ELSE "false")
    IN  adjustRegionKey(saas, IF saas THEN proxied ELSE Cloudflare_Dropped(proxied, "custom-hostname"))

Cloudflare_AdjustEndpoints(saas, E) == {AdjustEndpoint(saas, e) : e \in E}

Cloudflare_supportedType(t) == t = "MX" \/ SupportedRecordType(t)

\* One endpoint per name and type, with the custom hostnames of its name.
groupByNameAndTypeWithCustomHostnames(S) ==
    {LET same == {s \in S : SameSet(s, r)}
         first == CHOOSE s \in same : TRUE
         custom == {c.name : c \in {x \in S : x.type = "custom-hostname" /\ <<"origin", r.name>> \in x.props}}
     IN  Ep(r.name, "", r.type, {s.target : s \in same}, first.ttl,
            first.props \cup IF custom = {} THEN {} ELSE {<<"custom-hostname", custom>>}) :
        r \in {x \in S : Cloudflare_supportedType(x.type)}}

RegionOf(h) == {p[2] : p \in h.props}

addRegionKey(saas, S, e) ==
    LET keys == UNION {RegionOf(h) : h \in {x \in S : x.type = "regional-hostname" /\ x.name = NameOf(e)}}
    IN  IF saas /\ RegionalType(e.type)
        THEN Cloudflare_Given(e, "region-key", IF keys = {} THEN "" ELSE CHOOSE k \in keys : TRUE)
        ELSE e

Cloudflare_Records(saas, S) ==
    {addRegionKey(saas, S, e) : e \in groupByNameAndTypeWithCustomHostnames(InManagedZones(S))}

-----------------------------------------------------------------------------
(***************************************************************************)
(* Changes, one per target.                                                *)
(***************************************************************************)

newCloudFlareChange(saas, action, e, target, prev) ==
    [action |-> action,
     rr |-> RR("", NameOf(e), "", e.type, target, IF e.ttl # 0 THEN e.ttl ELSE Cloudflare_defaultTTL,
               {<<"proxied", IF shouldBeProxied(e) THEN "true" ELSE "false">>}),
     custom |-> IF saas THEN getEndpointCustomHostnames(e) ELSE {},
     prev |-> IF saas THEN prev ELSE {},
     region |-> CASE ~saas \/ ~RegionalType(e.type) -> {}
                  [] Cloudflare_Values(e, "region-key") # {} -> Cloudflare_Values(e, "region-key")
                  [] OTHER -> {RegionKey}]

\* The changes of an update: removed targets, new ones, those that stay.
UpdateChanges(saas, current, desired) ==
    LET d == Difference(TargetsOf(current), TargetsOf(desired))
        prev == getEndpointCustomHostnames(current)
    IN  Each(LAMBDA t : newCloudFlareChange(saas, "DELETE", current, t, prev), d.remove)
            \o Each(LAMBDA t : newCloudFlareChange(saas, "CREATE", desired, t, prev), d.add)
            \o Each(LAMBDA t : newCloudFlareChange(saas, "UPDATE", desired, t, prev), d.leave)

\* Deletions come first with custom hostnames, to free the hostnames, else last.
ChangeList(saas, ch) ==
    LET all(action, e) == Each(LAMBDA t : newCloudFlareChange(saas, action, e, t, {}), TargetsOf(e))
        deletes == ConcatOver(LAMBDA e : all("DELETE", e), ch.delete)
        creates == ConcatOver(LAMBDA e : all("CREATE", e), ch.create)
        updates == ConcatOver(LAMBDA e : UpdateChanges(saas, OldOf(ch, e), e), ch.updateNew)
    IN  IF saas THEN deletes \o creates \o updates ELSE creates \o updates \o deletes

\* Each change is made on what the service holds by then, and the regional hostnames
\* of a zone after its records.
Cloudflare_ApplyChanges(saas, ch) ==
    LET list == ChangeList(saas, ch)
        in(z, c) == [c EXCEPT !.rr.zone = z.id]
        zone(z) == LET cs == SelectSeq(list, LAMBDA c : z \in FindZone(ManagedZones, c.rr.name))
                       regional == IF saas THEN <<Later([regional |-> z.id, changes |-> cs])>> ELSE <<>>
                   IN  [i \in DOMAIN cs |-> Later([change |-> in(z, cs[i])])] \o regional
    IN  IF DryRun THEN <<>> ELSE ConcatOver(zone, ManagedZones)

-----------------------------------------------------------------------------
(***************************************************************************)
(* Custom hostnames.                                                       *)
(***************************************************************************)

Cloudflare_Custom(zone, host, origin) == 
    RR(zone, host, "", "custom-hostname", 0, 0, {<<"origin", origin>>})
getCustomHostname(S, c, host) ==
    {x \in S : x.type = "custom-hostname" /\ x.zone = c.rr.zone /\ x.name = host}

processCustomHostnameUpdate(S, c) ==
    LET d == Difference(c.prev, c.custom)
        gone == UNION {getCustomHostname(S, c, h) : h \in d.remove}
    IN  IF ~CustomType(c.rr.type) THEN <<>>
        ELSE Each(LAMBDA x : Del({x}, "softnote"), gone)
                \o Each(LAMBDA h : Add({Cloudflare_Custom(c.rr.zone, h, c.rr.name)}, "softnote"), d.add)

processCustomHostnameDelete(S, c) ==
    LET gone == UNION {getCustomHostname(S, c, h) : h \in c.custom}
    IN  IF CustomType(c.rr.type) THEN Each(LAMBDA x : Del({x}, "softnote"), gone) ELSE <<>>

\* A hostname of another origin is an error, one of the same origin is left alone.
processCustomHostnameCreate(S, c) ==
    LET one(h) ==
            LET have == getCustomHostname(S, c, h)
            IN  CASE have = {} -> <<Add({Cloudflare_Custom(c.rr.zone, h, c.rr.name)}, "softnote")>>
                  [] \E x \in have : <<"origin", c.rr.name>> \notin x.props -> <<Refuse("softnote")>>
                  [] OTHER -> <<>>
    IN  IF CustomType(c.rr.type) THEN ConcatOver(one, c.custom) ELSE <<>>

-----------------------------------------------------------------------------
(***************************************************************************)
(* Regional hostnames.                                                     *)
(***************************************************************************)

Cloudflare_Wanted(cs, n) ==
    UNION {cs[i].region : i \in {j \in DOMAIN cs : cs[j].rr.name = n /\ cs[j].action # "DELETE"}}

\* The hostnames that the changes are about; a name that is only deleted has no key.
desiredRegionalHostnames(cs) ==
    {cs[i].rr.name : i \in {j \in DOMAIN cs : cs[j].region # {}}}

submitRegionalHostnameChanges(S, zone, cs) ==
    LET host(n, k) == RR(zone, n, "", "regional-hostname", 0, 0, {<<"region", k>>})
        have(n) == {x \in S : x.type = "regional-hostname" /\ x.zone = zone /\ x.name = n}
        one(n) ==
            LET keys == Cloudflare_Wanted(cs, n) \ {""}
            IN  CASE keys = {} -> Each(LAMBDA x : Del({x}, "softnote"), have(n))
                  [] keys # {} /\ have(n) = {} -> Each(LAMBDA k : Add({host(n, k)}, "softnote"), keys)
                  [] keys # {} /\ have(n) # {} ->
                        Each(LAMBDA k : Put({host(n, k)}, "softnote"),
                             keys \ UNION {RegionOf(x) : x \in have(n)})
    IN  IF \E n \in desiredRegionalHostnames(cs) : Cardinality(Cloudflare_Wanted(cs, n) \ {""}) > 1
        THEN <<Refuse("hard")>>
        ELSE ConcatOver(one, desiredRegionalHostnames(cs))

-----------------------------------------------------------------------------
(***************************************************************************)
(* One change, with the records and custom hostnames as they are now.      *)
(***************************************************************************)

Cloudflare_getRecordID(S, r) ==
    {s \in S : s.zone = r.zone /\ s.name = r.name /\ s.type = r.type /\ s.target = r.target}

Cloudflare_submitChange(S, c) ==
    LET old == Cloudflare_getRecordID(S, c.rr)
    IN  CASE c.action = "UPDATE" ->
                  processCustomHostnameUpdate(S, c)
                      \o Each(LAMBDA r : Change(r, c.rr, "softnote"), old)
          [] c.action = "DELETE" ->
                  IF old = {} THEN <<>>
                  ELSE Each(LAMBDA r : Del({r}, "softnote"), old) \o processCustomHostnameDelete(S, c)
          [] c.action = "CREATE" ->
                  <<Add({c.rr}, "softnote")>> \o processCustomHostnameCreate(S, c)

Cloudflare_Expand(S, x) ==
    IF "regional" \in DOMAIN x THEN submitRegionalHostnameChanges(S, x.regional, x.changes)
    ELSE Cloudflare_submitChange(S, x.change)

=============================================================================
