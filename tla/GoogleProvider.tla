-------------------------- MODULE GoogleProvider --------------------------
(***************************************************************************)
(* provider/google/google.go.  A change of Cloud DNS is one transaction on *)
(* a zone: record sets to delete, as they are, and record sets to add.     *)
(***************************************************************************)
EXTENDS ProviderAPI

CONSTANT GoogleBatchChangeSize      \* --google-batch-change-size

Google_defaultTTL == 300

Google_supportedType(t) == t = "MX" \/ SupportedRecordType(t)

Google_Records(S) == EndpointPerName({r \in InManagedZones(S) : Google_supportedType(r.type)})

Google_newRecord(e) ==
    {RR("", NameOf(e), "", e.type, t, IF e.ttl # 0 THEN e.ttl ELSE Google_defaultTTL, {}) :
        t \in TargetsOf(e)}

\* newFilteredRecords: only names inside the domain filter.
newFilteredRecords(E) ==
    {Google_newRecord(e) : e \in {f \in E : \E z \in ManagedZones : InZone(NameOf(f), z)}}

NameOfSet(rrs) == (CHOOSE r \in rrs : TRUE).name

\* separateChange: the record sets of a change that are of zone z.
separateChange(change, z) ==
    LET here(X) == {{[r EXCEPT !.zone = z.id] : r \in x} :
                       x \in {y \in X : z \in FindZone(ManagedZones, NameOfSet(y))}}
    IN  [add |-> here(change.add), del |-> here(change.del)]

Google_SizeOf(c) == Cardinality(c.add) + Cardinality(c.del)
Google_Joined(c, d) == [add |-> c.add \cup d.add, del |-> c.del \cup d.del]
Google_NoChange == [add |-> {}, del |-> {}]

\* The changes of one name stay together; if they are too many they are left out.
batchChange(change) ==
    LET of(X, n) == {x \in X : NameOfSet(x) = n}
        byName == {[add |-> of(change.add, n), del |-> of(change.del, n)] :
                      n \in {NameOfSet(x) : x \in change.add \cup change.del}}
        grow(c, bs) == IF Google_SizeOf(Last(bs)) + Google_SizeOf(c) > GoogleBatchChangeSize
                       THEN Append(bs, c)
                       ELSE Append(Front(bs), Google_Joined(Last(bs), c))
    IN  IF GoogleBatchChangeSize = 0 THEN <<change>>
        ELSE SelectSeq(FoldSet(grow, <<Google_NoChange>>,
                               {c \in byName : Google_SizeOf(c) <= GoogleBatchChangeSize}),
                       LAMBDA b : b # Google_NoChange)

Google_submitChange(change) ==
    LET create(c) == Call({}, UNION c.del, UNION c.add, "soft")
        zone(z) == LET bs == batchChange(separateChange(change, z))
                   IN  [i \in DOMAIN bs |-> create(bs[i])]
        busy == {z \in ManagedZones : separateChange(change, z) # Google_NoChange}
    IN  IF DryRun THEN <<>> ELSE ConcatOver(zone, busy)

Google_ApplyChanges(ch) ==
    Google_submitChange([add |-> newFilteredRecords(ch.create \cup ch.updateNew),
                  del |-> newFilteredRecords(ch.updateOld \cup ch.delete)])

=============================================================================
