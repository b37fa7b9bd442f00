--------------------------- MODULE AzureProvider ---------------------------
(***************************************************************************)
(* provider/azure/azure.go and azure_private_dns.go.  A call replaces or   *)
(* deletes a whole record set; a failed one is logged and not reported.    *)
(***************************************************************************)
EXTENDS ProviderAPI

Azure_defaultTTL == 300

Azure_supportedType(t) == t = "MX" \/ SupportedRecordType(t)

\* extractAzureTargets knows the targets of these types only.
AzureTypes == {"A", "AAAA", "CNAME", "MX", "NS", "TXT"}
PrivateTypes == AzureTypes \ {"NS"}

Azure_Records(S) ==
    EndpointPerSet({r \in InManagedZones(S) : Azure_supportedType(r.type) /\ r.type \in AzureTypes})
Azure_PrivateRecords(S) ==
    EndpointPerSet({r \in InManagedZones(S) : r.type \in PrivateTypes})

\* newRecordSet: a CNAME or a TXT keeps the first target only.
newRecordSet(z, e) ==
    LET all == RecordsFor(z, e, IF e.ttl # 0 THEN e.ttl ELSE Azure_defaultTTL)
    IN  IF e.type \in {"CNAME", "TXT"} THEN {r \in all : r = CHOOSE q \in all : TRUE} ELSE all

\* mapChanges: names without a zone are left out.
mapChanges(ch) ==
    [deleted |-> ByZone(ch.delete), updated |-> ByZone(ch.create \cup ch.updateNew)]

deleteRecords(deleted) ==
    IF DryRun THEN <<>>
    ELSE Each(LAMBDA p : Drop(RecordsFor(p[1], p[2], 0), "forget"), deleted)

\* A record set that cannot be made is logged and skipped.
Azure_updateRecords(types, updated) ==
    IF DryRun THEN <<>>
    ELSE Each(LAMBDA p : Put(newRecordSet(p[1], p[2]), "forget"),
              {p \in updated : p[2].type \in types})

Azure_ApplyChanges(ch) ==
    deleteRecords(mapChanges(ch).deleted) \o Azure_updateRecords(AzureTypes, mapChanges(ch).updated)
Azure_PrivateApplyChanges(ch) ==
    deleteRecords(mapChanges(ch).deleted) \o Azure_updateRecords(PrivateTypes, mapChanges(ch).updated)

=============================================================================
