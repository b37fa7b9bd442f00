--------------------------- MODULE GandiProvider ---------------------------
(***************************************************************************)
(* provider/gandi/gandi.go.  One call per record set, one endpoint per     *)
(* record.  The first error ends the process.                              *)
(***************************************************************************)
EXTENDS ProviderAPI

Gandi_defaultTTL == 600

Gandi_Records(S) == EndpointPerRecord({r \in InManagedZones(S) : SupportedRecordType(r.type)})

\* An endpoint without a ttl gets that of the last one before it that has one.
TTLAt(es, i) ==
    LET set == {j \in 1 .. i : es[j].ttl # 0}
    IN  IF set = {} THEN Gandi_defaultTTL ELSE es[Max(set)].ttl

newGandiChanges(action, E) ==
    LET es == AsSeq(E)
    IN  [i \in DOMAIN es |-> [action |-> action, ep |-> es[i], ttl |-> TTLAt(es, i)]]

\* One change of zone z.
Gandi_submitChange(z, c) ==
    LET rrs == RecordsFor(z, c.ep, c.ttl)
    IN  CASE c.action = "CREATE" -> Add(rrs, "hard")
          [] c.action = "DELETE" -> Drop(rrs, "hard")
          [] c.action = "UPDATE" -> Put(rrs, "hard")

groupAndFilterByZone(cs, z) ==
    SelectSeq(cs, LAMBDA c : z \in FindZone(ManagedZones, NameOf(c.ep)))

Gandi_ApplyChanges(ch) ==
    LET cs == newGandiChanges("CREATE", ch.create) \o newGandiChanges("UPDATE", ch.updateNew)
                 \o newGandiChanges("DELETE", ch.delete)
        zone(z) == LET here == groupAndFilterByZone(cs, z)
                   IN  [i \in DOMAIN here |-> Gandi_submitChange(z, here[i])]
    IN  IF DryRun THEN <<>> ELSE ConcatOver(zone, ManagedZones)

=============================================================================
