------------------------- MODULE RecordSetProviders -------------------------
(***************************************************************************)
(* Three providers that write record sets: Akamai, GoDaddy and NS1.  The   *)
(* first error of each ends the process.                                   *)
(***************************************************************************)
EXTENDS ProviderAPI

-----------------------------------------------------------------------------
(***************************************************************************)
(* provider/akamai/akamai.go.  The record sets to create are sent zone by  *)
(* zone in one call, the others one by one.                                *)
(***************************************************************************)

Akamai_defaultTTL == 600

ttlAsInt(e) == IF e.ttl > 0 THEN e.ttl ELSE Akamai_defaultTTL

\* What fetchRecordset may give: a zone whose record sets cannot be read is left out,
\* and Records goes on.
Akamai_Readings(S) == WithoutZones(S)

Akamai_Records(S) ==
    EndpointPerName({r \in InManagedZones(S) : SupportedRecordType(r.type)})

newAkamaiRecordset(z, e) == NamedRecordsFor(z, e, ttlAsInt(e))

\* edgeChangesByZone has an entry for every zone: one without records gets a call too.
\* The service refuses to create a record set that it has.
createRecordsets(S, E) ==
    LET of(z) == UNION {newAkamaiRecordset(z, p[2]) : p \in {q \in ByZone(E) : q[1] = z}}
        post(z) == IF \E r \in of(z), s \in S : SameSet(r, s) THEN Refuse("hard") ELSE Add(of(z), "hard")
    IN  IF E = {} THEN <<>> ELSE Each(post, ManagedZones)

\* The record set is read first: it may be gone, which is an error for an update only.
Akamai_Exists(S, p) == \E r \in S : r.zone = p[1].id /\ r.name = NameOf(p[2]) /\ r.type = p[2].type
deleteRecordsets(S, E) ==
    Each(LAMBDA p : Drop(newAkamaiRecordset(p[1], p[2]), "hard"), {p \in ByZone(E) : Akamai_Exists(S, p)})
updateNewRecordsets(S, E) ==
    Each(LAMBDA p : IF Akamai_Exists(S, p) THEN Put(newAkamaiRecordset(p[1], p[2]), "hard") ELSE Refuse("hard"),
         ByZone(E))

Akamai_ApplyChanges(S, ch) ==
    IF DryRun THEN <<>>
    ELSE createRecordsets(S, ch.create) \o deleteRecordsets(S, ch.delete)
            \o updateNewRecordsets(S, ch.updateNew)

-----------------------------------------------------------------------------
(***************************************************************************)
(* provider/godaddy/godaddy.go.  Records are created one by one, replaced  *)
(* and deleted by name and type.                                           *)
(***************************************************************************)

GoDaddyMinimumTTL == 600

\* The name of e inside zone z.  At the apex it is "@", here <<>>, for an A record; for
\* any other type it is the empty text, which is a name of its own to the service.
GoDaddy_Unnamed == <<"">>
GoDaddy_Name(z, e) ==
    IF NameOf(e) = z.name /\ e.type # "A" THEN GoDaddy_Unnamed ELSE Relative(NameOf(e), z)

GoDaddy_Fields(z, e) ==
    {[r EXCEPT !.name = GoDaddy_Name(z, e)] :
        r \in RecordsFor(z, e, IF e.ttl > GoDaddyMinimumTTL THEN e.ttl ELSE GoDaddyMinimumTTL)}

\* Two names are listed as that of the zone.
groupByNameAndType(R) ==
    {[e EXCEPT !.key[1] = SelectSeq(@, LAMBDA l : l # "")] : e \in EndpointPerSet(R)}
GoDaddy_Records(S) == groupByNameAndType({r \in InManagedZones(S) : SupportedRecordType(r.type)})

\* The record sets at /records/TYPE/NAME: without a name, all of the type.
GoDaddy_At(S, z, e) ==
    GoDaddy_Fields(z, e)
        \cup IF GoDaddy_Name(z, e) = GoDaddy_Unnamed THEN {r \in S : r.zone = z.id /\ r.type = e.type} ELSE {}

addRecord(z, e) == Each(LAMBDA r : Add({r}, "hard"), GoDaddy_Fields(z, e))
replaceRecord(S, z, e) == <<Call(GoDaddy_At(S, z, e), {}, GoDaddy_Fields(z, e), "hard")>>
GoDaddy_deleteRecord(S, z, e) == <<Drop(GoDaddy_At(S, z, e), "hard")>>

applyEndpoint(S, action, z, e) ==
    CASE action = "create" -> addRecord(z, e)
      [] action = "replace" -> replaceRecord(S, z, e)
      [] action = "delete" -> GoDaddy_deleteRecord(S, z, e)

\* changeAllRecords: names without a zone are skipped.
changeAllRecords(S, action, E) ==
    ConcatOver(LAMBDA p : applyEndpoint(S, action, p[1], p[2]), ByZone(E))

\* The old and the new version of an update have the same type.
GoDaddy_ApplyChanges(S, ch) ==
    IF DryRun THEN <<>>
    ELSE changeAllRecords(S, "delete", ch.delete) \o changeAllRecords(S, "replace", ch.updateNew)
            \o changeAllRecords(S, "create", ch.create)

-----------------------------------------------------------------------------
(***************************************************************************)
(* provider/ns1/ns1.go.  One call per record set.  The constructor never   *)
(* sets dryRun.                                                            *)
(***************************************************************************)

CONSTANT NS1MinTTL      \* --ns1-min-ttl

NS1_defaultTTL == 10
dryRun == FALSE

NS1_Records(S) == EndpointPerName({r \in InManagedZones(S) : SupportedRecordType(r.type)})

ns1BuildRecord(z, e) ==
    NamedRecordsFor(z, e, CASE e.ttl # 0 -> e.ttl
                            [] e.ttl = 0 /\ NS1MinTTL > NS1_defaultTTL -> NS1MinTTL
                            [] OTHER -> NS1_defaultTTL)

\* ns1SubmitChanges: zone by zone, in each the changes in the order of ApplyChanges.
ns1SubmitChanges(ch) ==
    LET of(E, z) == {p[2] : p \in {q \in ByZone(E) : q[1] = z}}
        zone(z) == Each(LAMBDA e : Add(ns1BuildRecord(z, e), "hard"), of(ch.create, z))
                      \o Each(LAMBDA e : Put(ns1BuildRecord(z, e), "hard"), of(ch.updateNew, z))
                      \o Each(LAMBDA e : Drop(ns1BuildRecord(z, e), "hard"), of(ch.delete, z))
    IN  IF dryRun THEN <<>> ELSE ConcatOver(zone, ManagedZones)

NS1_ApplyChanges(ch) == ns1SubmitChanges(ch)

=============================================================================
