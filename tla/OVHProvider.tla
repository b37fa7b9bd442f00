---------------------------- MODULE OVHProvider ----------------------------
(***************************************************************************)
(* provider/ovh/ovh.go.  One record per target; the calls of a run are     *)
(* made concurrently.  What is written to a zone is published only when    *)
(* the zone is refreshed: until then the zone has a record of the type     *)
(* "unpublished", which stands for the changes that name servers do not    *)
(* have yet.                                                               *)
(***************************************************************************)
EXTENDS ProviderAPI

OVH_defaultTTL == 0

OVH_TTLOf(e) == IF e.ttl # 0 THEN e.ttl ELSE OVH_defaultTTL

\* The target of a CNAME is kept with a trailing dot, which is not reported.
OVH_Dotted(t) == t + 100
OVH_Undotted(t) == IF t >= 100 THEN t - 100 ELSE t
formatCNAMETarget(r) == IF r.type = "CNAME" THEN [r EXCEPT !.target = OVH_Dotted(@)] ELSE r

\* The changes of a zone that are not published yet.
Unpublished(id) == RR(id, <<>>, "", "unpublished", 0, 0, {})

\* The calls c of the set of changes of zone z; what they write is to be published.
OVH_Writes(z, c) ==
    [c EXCEPT !.group = z.id, !.add = @ \cup {Unpublished(r.zone) : r \in c.add \cup c.del}]

existingRecords(S) == {r \in InManagedZones(S) : SupportedRecordType(r.type)}

ovhGroupByNameAndType(R) == EndpointPerSet({[r EXCEPT !.target = OVH_Undotted(@)] : r \in R})
OVH_Records(S) == ovhGroupByNameAndType(existingRecords(S))

OVH_Make(z, e) == {formatCNAMETarget(r) : r \in RecordsFor(z, e, OVH_TTLOf(e))}

\* newOvhChangeCreateDelete: a target to delete is looked up in the zone.
OVH_Found(R, r) == {x \in R : SameSet(x, r) /\ x.target = r.target}
OVH_creates(z, E) == Each(LAMBDA r : Add({r}, "parallel"), UNION {OVH_Make(z, e) : e \in E})
OVH_deletes(R, z, E) ==
    Each(LAMBDA r : IF OVH_Found(R, r) = {} THEN Refuse("parallel") ELSE Del(OVH_Found(R, r), "parallel"),
         UNION {OVH_Make(z, e) : e \in E})
OVH_Remaining(R, z, E) == R \ UNION {OVH_Found(R, r) : r \in UNION {OVH_Make(z, e) : e \in E}}

\* The records an update starts from: those with its type and relative name, in
\* whatever zone.
OVH_oldRecords(R, z, e) == {r \in R : r.name = Relative(NameOf(e), z) /\ r.type = e.type}

\* newOvhChangeUpdate for one endpoint: targets that are there are left alone, and
\* the others are written over the old records before any is created or deleted.
newOvhChangeUpdate(R, z, e) ==
    LET old == OVH_oldRecords(R, z, e)
        stay == TargetsOf(e) \cap {r.target : r \in old}
        left == AsSeq(old \ {CHOOSE r \in old : r.target = t : t \in stay})
        insert == AsSeq(TargetsOf(e) \ stay)
        both == IF Len(left) < Len(insert) THEN Len(left) ELSE Len(insert)
        over(i) == formatCNAMETarget([left[i] EXCEPT !.target = insert[i], !.ttl = OVH_TTLOf(e)])
        fresh(i) == formatCNAMETarget(RR(z.id, Relative(NameOf(e), z), "", e.type, insert[i], OVH_TTLOf(e), {}))
    IN  Each(LAMBDA i : Change(left[i], over(i), "parallel"), 1 .. both)
            \o Each(LAMBDA i : Add({fresh(i)}, "parallel"), both + 1 .. Len(insert))
            \o Each(LAMBDA i : Del({left[i]}, "parallel"), both + 1 .. Len(left))


\* The zone is published.
refresh(z) == [Del({Unpublished(z.id)}, "parallel") EXCEPT !.group = z.id, !.closing = TRUE]

\* The changes of one zone.
computeSingleZoneChanges(R, z, ch) ==
    LET here(E) == {e \in E : z \in FindZone(ManagedZones, NameOf(e))}
        left == OVH_Remaining(R, z, here(ch.delete))
    IN  OVH_creates(z, here(ch.create)) \o OVH_deletes(R, z, here(ch.delete))
            \o ConcatOver(LAMBDA e : newOvhChangeUpdate(left, z, e), here(ch.updateNew))

\* All of them, and then the refresh, which a failure of one of them prevents.
handleSingleZoneUpdate(R, z, ch) ==
    LET calls == computeSingleZoneChanges(R, z, ch)
    IN  [i \in DOMAIN calls |-> OVH_Writes(z, calls[i])] \o <<refresh(z)>>

\* The zones of the changes.  A name without a zone is an error before any call.
OVH_changed(ch) == ch.delete \cup ch.create \cup ch.updateOld \cup ch.updateNew
planChangesByZoneName(ch) == UNION {FindZone(ManagedZones, NameOf(e)) : e \in OVH_changed(ch)}

OVH_Homeless(ch) == \E e \in OVH_changed(ch) : FindZone(ManagedZones, NameOf(e)) = {}

OVH_ApplyChanges(S, ch) ==
    CASE OVH_Homeless(ch) -> <<Refuse("soft")>>
      [] ~OVH_Homeless(ch) /\ DryRun -> <<>>
      [] OTHER -> ConcatOver(LAMBDA z : handleSingleZoneUpdate(existingRecords(S), z, ch),
                             planChangesByZoneName(ch))

-----------------------------------------------------------------------------
(***************************************************************************)
(* The records of a zone are kept in memory and served as long as the      *)
(* serial number of the zone that name servers give is the same.  What is  *)
(* kept: <<>>, or the identifiers of the zones and their records.          *)
(***************************************************************************)

\* The records as they are read, from memory for the zones that are kept.
OVH_records(kept, S) ==
    IF kept = <<>> THEN S
    ELSE {r \in S : r.zone \notin kept[1].zones} \cup kept[1].records

\* All zones are kept once they have been read.
OVH_Keep(R) == <<[zones |-> {z.id : z \in ManagedZones}, records |-> InManagedZones(R)]>>

\* invalidateCache, for the zones of Z.
invalidateCache(kept, Z) ==
    LET ids == {z.id : z \in Z}
    IN  IF kept = <<>> THEN <<>>
        ELSE <<[zones |-> kept[1].zones \ ids,
                records |-> {r \in kept[1].records : r.zone \notin ids}]>>

\* The zones whose records are not kept any more when ApplyChanges returns: all that it
\* changes, be it that they are published or that a call failed.
OVH_Altered(ch) == IF OVH_Homeless(ch) THEN {} ELSE planChangesByZoneName(ch)

=============================================================================
