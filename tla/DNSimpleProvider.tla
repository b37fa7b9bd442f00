-------------------------- MODULE DNSimpleProvider --------------------------
(***************************************************************************)
(* provider/dnsimple/dnsimple.go.  One record per endpoint, its first      *)
(* target; the record to change is looked up by its name when its turn     *)
(* comes.  The first error ends the process.                               *)
(***************************************************************************)
EXTENDS ProviderAPI

DNSimple_defaultTTL == 3600

DNSimple_Records(S) == EndpointPerRecord({r \in InManagedZones(S) : r.type \in {"A", "CNAME", "TXT"}})

newDnsimpleChange(action, z, e) ==
    [action |-> action,
     rr |-> CHOOSE r \in RecordsFor(z, e, IF e.ttl # 0 THEN e.ttl ELSE DNSimple_defaultTTL) : TRUE]

dnsimpleSuitableZone(n) == FindZone(ManagedZones, n)

newDnsimpleChanges(action, E) ==
    ConcatOver(LAMBDA e : Each(LAMBDA z : Later(newDnsimpleChange(action, z, e)),
                               dnsimpleSuitableZone(NameOf(e))), E)

\* GetRecordID: a record of the name, of whatever type.
GetRecordID(S, r) == {s \in S : s.zone = r.zone /\ s.name = r.name}

\* One change; the look-up that finds nothing is an error.
DNSimple_submitChange(S, c) ==
    LET found == GetRecordID(S, c.rr)
        it == CHOOSE r \in found : TRUE
    IN  CASE c.action = "CREATE" -> <<Add({c.rr}, "hard")>>
          [] c.action # "CREATE" /\ found = {} -> <<Refuse("hard")>>
          [] c.action = "DELETE" /\ found # {} -> <<Del({it}, "hard")>>
          [] c.action = "UPDATE" /\ found # {} -> <<Change(it, c.rr, "hard")>>

DNSimple_ApplyChanges(ch) ==
    IF DryRun THEN <<>>
    ELSE newDnsimpleChanges("CREATE", ch.create) \o newDnsimpleChanges("UPDATE", ch.updateNew)
            \o newDnsimpleChanges("DELETE", ch.delete)

-----------------------------------------------------------------------------
(***************************************************************************)
(* provider/exoscale/exoscale.go.  One record per endpoint, its first      *)
(* target; the record to change is looked up by its name when its turn     *)
(* comes.  The first error ends the process.                               *)
(***************************************************************************)

CONSTANT ExoscaleServiceTTL     \* the ttl of a record that was created without one

\* The domain filter does not apply to the records that are listed.
Exoscale_Records(S) == EndpointPerRecord({r \in S : r.type \in {"A", "CNAME", "TXT"}})

\* The longest zone that the name is strictly inside.
EndpointZoneID(n) == FindZone({z \in Zones : InZone(n, z) /\ z.name # n}, n)

Exoscale_Placed(action, E) ==
    ConcatOver(LAMBDA e : Each(LAMBDA z : Later([action |-> action, zone |-> z, ep |-> e]),
                               EndpointZoneID(NameOf(e))),
               {e \in E : \E z \in ManagedZones : InZone(NameOf(e), z)})

\* A record of the name, of whatever type; an update turns it into one of the type.
\* A record that is not found is skipped.
Exoscale_submitChange(S, c) ==
    LET rr == CHOOSE r \in RecordsFor(c.zone, c.ep, c.ep.ttl) : TRUE
        found == {s \in S : s.zone = rr.zone /\ s.name = rr.name}
        it == CHOOSE s \in found : TRUE
    IN  CASE c.action = "CREATE" ->
                  <<Add({[rr EXCEPT !.ttl = IF @ = 0 THEN ExoscaleServiceTTL ELSE @]}, "hard")>>
          [] c.action # "CREATE" /\ found = {} -> <<>>
          [] c.action = "DELETE" /\ found # {} -> <<Del({it}, "hard")>>
          [] c.action = "UPDATE" /\ found # {} ->
                  <<Change(it, [rr EXCEPT !.ttl = IF @ = 0 THEN it.ttl ELSE @], "hard")>>

Exoscale_ApplyChanges(ch) ==
    IF DryRun THEN <<>>
    ELSE Exoscale_Placed("CREATE", ch.create) \o Exoscale_Placed("UPDATE", ch.updateNew) \o Exoscale_Placed("DELETE", ch.delete)

-----------------------------------------------------------------------------
(***************************************************************************)
(* provider/transip/transip.go.  One record per target; the records of a   *)
(* name and type are read when their turn comes, and an update removes     *)
(* them before it adds the new ones.  The first error ends the process.    *)
(***************************************************************************)

TransIP_defaultTTL == 60

\* The domain filter does not apply to the records that are listed.
TransIP_Records(S) == EndpointPerRecord({r \in S : SupportedRecordType(r.type)})

getMinimalValidTTL(e) == IF e.ttl < TransIP_defaultTTL THEN TransIP_defaultTTL ELSE e.ttl
dnsEntriesForEndpoint(z, e) == RecordsFor(z, e, getMinimalValidTTL(e))
zoneNameForDNSName(n) == FindZone(Zones, n)
entriesForEndpoint(S, z, e) == Matching(S, z, e)

\* One endpoint, with the records as they are now.  Without a zone a creation is
\* skipped, the others are errors.
TransIP_submitChange(S, c) ==
    LET zones == zoneNameForDNSName(NameOf(c.ep))
        z == CHOOSE y \in zones : TRUE
        old == entriesForEndpoint(S, z, c.ep)
        new == dnsEntriesForEndpoint(z, c.ep)
        removed == Each(LAMBDA r : Del({r}, "hard"), old)
        added == Each(LAMBDA r : Add({r}, "hard"), new)
    IN  CASE zones = {} -> IF c.action = "CREATE" THEN <<>> ELSE <<Refuse("hard")>>
          [] zones # {} /\ c.action = "DELETE" -> removed
          [] zones # {} /\ c.action = "CREATE" -> added
          [] zones # {} /\ c.action = "UPDATE" ->
                  IF old = {} \/ old = new THEN <<>> ELSE removed \o added

TransIP_ApplyChanges(ch) ==
    LET all(action, E) == Each(LAMBDA e : Later([action |-> action, ep |-> e]), E)
    IN  IF DryRun THEN <<>>
        ELSE all("DELETE", ch.delete) \o all("CREATE", ch.create) \o all("UPDATE", ch.updateNew)

=============================================================================
