----------------------- MODULE DigitalOceanProvider -----------------------
(***************************************************************************)
(* provider/digitalocean/digital_ocean.go.                                 *)
(***************************************************************************)
EXTENDS ProviderAPI

DigitalOcean_defaultTTL == 300

DigitalOcean_supportedType(t) == t = "MX" \/ SupportedRecordType(t)

\* If any name has two records of a type, every endpoint is built anew, without ttl.
mergeEndpointsByNameType(S) ==
    IF \E r, s \in S : r # s /\ SameSet(r, s)
    THEN {[e EXCEPT !.ttl = 0] : e \in EndpointPerSet(S)}
    ELSE EndpointPerRecord(S)

DigitalOcean_Records(S) == mergeEndpointsByNameType({r \in InManagedZones(S) : DigitalOcean_supportedType(r.type)})

getTTLFromEndpoint(e) == IF e.ttl # 0 THEN e.ttl ELSE DigitalOcean_defaultTTL

makeDomainEditRequest(z, e) == RecordsFor(z, e, getTTLFromEndpoint(e))

getMatchingDomainRecords(S, z, e) == Matching(S, z, e)

processCreateActions(E) == UNION {makeDomainEditRequest(p[1], p[2]) : p \in ByZone(E)}

processUpdateActions(S, E) ==
    {ByTarget(getMatchingDomainRecords(S, p[1], p[2]), makeDomainEditRequest(p[1], p[2])) :
        p \in ByZone(E)}

\* A CNAME is deleted whatever it points to: its target is compared with itself.
processDeleteActions(S, E) ==
    UNION {{r \in getMatchingDomainRecords(S, p[1], p[2]) :
              p[2].type = "CNAME" \/ r.target \in TargetsOf(p[2])} : p \in ByZone(E)}

\* MUTANT: the deletions come first.
submitChangesDeletesFirst(creates, updates, deletes) ==
    IF DryRun THEN <<>>
    ELSE Each(LAMBDA r : Del({r}, "hard"), deletes)
            \o Each(LAMBDA u : Change(u[1], u[2], "hard"), updates)
            \o Each(LAMBDA r : Add({r}, "hard"), creates)

DigitalOcean_submitChanges(creates, updates, deletes) ==
    IF DryRun THEN <<>>
    ELSE Each(LAMBDA r : Add({r}, "hard"), creates)
            \o Each(LAMBDA u : Change(u[1], u[2], "hard"), updates)
            \o Each(LAMBDA r : Del({r}, "hard"), deletes)

DigitalOcean_ApplyChanges(S, ch) ==
    LET u == processUpdateActions(S, ch.updateNew)
    IN  DigitalOcean_submitChanges(processCreateActions(ch.create) \cup UNION {d.create : d \in u},
                      UNION {d.update : d \in u},
                      processDeleteActions(S, ch.delete) \cup UNION {d.delete : d \in u})

=============================================================================
