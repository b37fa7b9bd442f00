-------------------------- MODULE PowerDNSProvider --------------------------
(***************************************************************************)
(* provider/pdns/pdns.go.  A patch replaces or deletes record sets of one  *)
(* zone; the service makes all of a patch or none.                         *)
(***************************************************************************)
EXTENDS ProviderAPI

PDNS_defaultTTL == 300
MaxTTL == 2147483647        \* int32

\* convertRRSetToEndpoints: an ALIAS is reported as a CNAME.
PDNS_Records(S) ==
    {Ep(r.name, "", IF r.type = "ALIAS" THEN "CNAME" ELSE r.type,
        {s.target : s \in {x \in S : SameSet(x, r)}}, r.ttl, {}) : r \in InManagedZones(S)}

\* CheckEndpoint rejects SRV and MX records with a malformed target, and alias
\* targets that are addresses.
PDNS_AdjustEndpoints(E) ==
    {e \in E : (e.type = "MX" => TargetsOf(e) \subseteq HostTargets)}

\* The record set of e; a CNAME at the apex of its zone becomes an ALIAS.
RrSet(z, e) ==
    {RR(z.id, NameOf(e), "", IF NameOf(e) = z.name /\ e.type = "CNAME" THEN "ALIAS" ELSE e.type,
        t, IF e.ttl = 0 THEN PDNS_defaultTTL ELSE e.ttl, {}) : t \in TargetsOf(e)}

\* One patch per zone.
ConvertEndpointsToZones(E) ==
    {UNION {RrSet(z, p[2]) : p \in {q \in ByZone(E) : q[1] = z}} : z \in {p[1] : p \in ByZone(E)}}

mutateRecords(E, changetype) ==
    IF changetype = "REPLACE" /\ \E p \in ByZone(E) : p[2].ttl > MaxTTL
    THEN <<Refuse("soft")>>
    ELSE Each(LAMBDA rrs : IF changetype = "REPLACE" THEN Put(rrs, "soft") ELSE Drop(rrs, "soft"),
              ConvertEndpointsToZones(E))

PDNS_ApplyChanges(ch) ==
    mutateRecords(ch.create, "REPLACE") \o mutateRecords(ch.updateNew, "REPLACE")
        \o mutateRecords(ch.delete, "DELETE")

-----------------------------------------------------------------------------
(***************************************************************************)
(* provider/oci/oci.go.  One patch per zone with all its operations, each  *)
(* on one record; the service makes all of a patch or none.                *)
(***************************************************************************)

OCI_defaultTTL == 300

\* mergeEndpointsMultiTargets
OCI_Records(S) == EndpointPerName({r \in InManagedZones(S) : SupportedRecordType(r.type)})

\* Set identifiers are not supported and are removed.
OCI_AdjustEndpoints(E) == {[e EXCEPT !.key[2] = ""] : e \in E}

newRecordOperation(z, e) == NamedRecordsFor(z, e, IF e.ttl # 0 THEN e.ttl ELSE OCI_defaultTTL)

\* The records of the endpoints of E in zone z.
newFilteredRecordOperations(E, z) ==
    UNION {newRecordOperation(z, p[2]) : p \in {q \in ByZone(E) : q[1] = z}}

operationsByZone(ch, z) ==
    [add |-> newFilteredRecordOperations(ch.create \cup ch.updateNew, z),
     remove |-> newFilteredRecordOperations(ch.updateOld \cup ch.delete, z)]

OCI_ApplyChanges(ch) ==
    LET ops(z) == operationsByZone(ch, z)
        busy == {z \in ManagedZones : ops(z).add \cup ops(z).remove # {}}
    IN  IF DryRun THEN <<>>
        ELSE Each(LAMBDA z : Call({}, ops(z).remove, ops(z).add, "soft"), busy)

=============================================================================
