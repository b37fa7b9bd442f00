-------------------------- MODULE LinodeProvider --------------------------
(***************************************************************************)
(* provider/linode/linode.go and provider/civo/civo.go, which share their  *)
(* structure.  Civo supports fewer types, and creates records although     *)
(* there are some of the name and type.                                    *)
(***************************************************************************)
EXTENDS ProviderAPI

Linode_Records(S) == EndpointPerRecord({r \in InManagedZones(S) : SupportedRecordType(r.type)})
CivoRecords(S) == Linode_Records(S)

\* convertRecordType: an endpoint of another type ends ApplyChanges before any call.
LinodeTypes == {"A", "AAAA", "CNAME", "TXT", "SRV", "NS"}
CivoTypes == {"A", "CNAME", "TXT", "SRV"}
convertRecordType(types, E) == \A p \in ByZone(E) : p[2].type \in types

Linode_getRecordID(S, z, e) == Matching(S, z, e)

\* Linode: existing records are not touched.
LinodeCreates(S, E) ==
    UNION {RecordsFor(p[1], p[2], p[2].ttl) :
             p \in {q \in ByZone(E) : Linode_getRecordID(S, q[1], q[2]) = {}}}

CivoCreates(S, E) == UNION {RecordsFor(p[1], p[2], p[2].ttl) : p \in ByZone(E)}

Linode_Updates(S, E) ==
    {ByTarget(Linode_getRecordID(S, p[1], p[2]), RecordsFor(p[1], p[2], p[2].ttl)) : p \in ByZone(E)}

Linode_Deletes(S, E) == UNION {Linode_getRecordID(S, p[1], p[2]) : p \in ByZone(E)}

\* A failed call is logged and the next one made; no error is returned.
Linode_submitChanges(creates, updates, deletes) ==
    IF DryRun THEN <<>>
    ELSE Each(LAMBDA r : Add({r}, "forget"), creates)
            \o Each(LAMBDA r : Del({r}, "forget"), deletes)
            \o Each(LAMBDA u : Change(u[1], u[2], "forget"), updates)

Linode_Submitted(S, ch, creates) ==
    LET u == Linode_Updates(S, ch.updateNew)
    IN  Linode_submitChanges(creates \cup UNION {d.create : d \in u}, UNION {d.update : d \in u},
                      Linode_Deletes(S, ch.delete) \cup UNION {d.delete : d \in u})

Linode_ApplyChanges(S, ch) ==
    IF convertRecordType(LinodeTypes, ch.updateNew) /\
       convertRecordType(LinodeTypes, {e \in ch.create : LinodeCreates(S, {e}) # {}})
    THEN Linode_Submitted(S, ch, LinodeCreates(S, ch.create)) ELSE <<Refuse("hard")>>

CivoApplyChanges(S, ch) ==
    IF convertRecordType(CivoTypes, ch.create \cup ch.updateNew)
    THEN Linode_Submitted(S, ch, CivoCreates(S, ch.create)) ELSE <<Refuse("hard")>>

=============================================================================
