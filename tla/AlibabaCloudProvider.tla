------------------------ MODULE AlibabaCloudProvider ------------------------
(***************************************************************************)
(* provider/alibabacloud/alibaba_cloud.go, for the public DNS and for      *)
(* private zones.  One record per target; a failed call is logged and not  *)
(* reported.                                                               *)
(***************************************************************************)
EXTENDS ProviderAPI

Alibaba_defaultTTL == 600
privateDefaultTTL == 60

\* splitDNSName: the longest zone that the name is strictly inside, else the zone
\* with this name.
splitDNSName(Z, n) ==
    LET inside == {z \in Z : InZone(n, z) /\ z.name # n}
    IN  IF inside # {} THEN FindZone(inside, n) ELSE {z \in Z : z.name = n}

\* The zones a record may be created in.  The filters apply to private zones, and to
\* the names of public records.
ZonesOf(private) == IF private THEN ManagedZones ELSE Zones

\* The records that are listed, and of these the ones of endpoint e.
Alibaba_listed(S) == {r \in InManagedZones(S) : SupportedRecordType(r.type)}
recordsOf(private, R, e) ==
    {r \in R : /\ r.type = e.type
               /\ IF private
                  THEN \E z \in splitDNSName(ZonesOf(private), NameOf(e)) :
                          r.zone = z.id /\ r.name = Relative(NameOf(e), z)
                  ELSE FullNameOf(r) = NameOf(e)}

\* What records may give: a domain whose records cannot be listed is logged and left out.
Alibaba_Readings(S) == WithoutZones(S)

groupRecords(R, r) == {s \in R : FullNameOf(s) = FullNameOf(r) /\ s.type = r.type}

Alibaba_Records(S) ==
    {LET same == groupRecords(Alibaba_listed(S), r)
     IN  Ep(FullNameOf(r), "", r.type, {s.target : s \in same}, (CHOOSE s \in same : TRUE).ttl, {}) :
        r \in Alibaba_listed(S)}

\* The ttl that private zones have by default is reported as none.
Alibaba_privateZoneRecords(S) ==
    {[e EXCEPT !.ttl = IF @ = privateDefaultTTL THEN 0 ELSE @] : e \in EndpointPerSet(Alibaba_listed(S))}

Alibaba_Default(private) == IF private THEN privateDefaultTTL ELSE Alibaba_defaultTTL
Alibaba_TTLFor(private, e) == IF e.ttl # 0 THEN e.ttl ELSE Alibaba_Default(private)
Alibaba_equals(private, r, e) ==
    LET norm(t) == IF t = Alibaba_Default(private) THEN 0 ELSE t
    IN  norm(r.ttl) = norm(e.ttl)

\* Nothing is created in a dry run, and nothing deleted from the public DNS.
createRecord(private, e, T) ==
    IF DryRun THEN <<>>
    ELSE Each(LAMBDA r : Add({r}, "forget"),
              UNION {{r \in RecordsFor(z, e, Alibaba_TTLFor(private, e)) : r.target \in T} :
                        z \in splitDNSName(ZonesOf(private), NameOf(e))})
Alibaba_deleteRecord(private, R) ==
    IF DryRun /\ ~private THEN <<>> ELSE Each(LAMBDA r : Del({r}, "forget"), R)
updateRecord(private, R, e) ==
    Each(LAMBDA r : Change(r, [r EXCEPT !.ttl = Alibaba_TTLFor(private, e)], "forget"), R)

Alibaba_updateRecords(private, R, e) ==
    LET have == recordsOf(private, R, e)
        stay == {r \in have : r.target \in TargetsOf(e)}
    IN  updateRecord(private, {r \in stay : ~Alibaba_equals(private, r, e)}, e)
            \o Alibaba_deleteRecord(private, have \ stay)
            \o createRecord(private, e, TargetsOf(e) \ {r.target : r \in have})

Alibaba_ApplyChanges(private, S, ch) ==
    LET R == Alibaba_listed(S)
        gone(e) == {r \in recordsOf(private, R, e) : r.target \in TargetsOf(e)}
    IN  ConcatOver(LAMBDA e : createRecord(private, e, TargetsOf(e)), ch.create)
            \o ConcatOver(LAMBDA e : Alibaba_deleteRecord(private, gone(e)), ch.delete)
            \o ConcatOver(LAMBDA e : Alibaba_updateRecords(private, R, e), ch.updateNew)

Alibaba_applyChangesForDNS(S, ch) == Alibaba_ApplyChanges(FALSE, S, ch)
Alibaba_applyChangesForPrivateZone(S, ch) == Alibaba_ApplyChanges(TRUE, S, ch)

=============================================================================
