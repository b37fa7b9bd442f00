-------------------------- MODULE ScalewayProvider --------------------------
(***************************************************************************)
(* provider/scaleway/scaleway.go.  One request per zone: records to        *)
(* delete, by name, type and target, and records to add.                   *)
(***************************************************************************)
EXTENDS ProviderAPI

Scaleway_defaultTTL == 300
scalewayDefaultPriority == <<"priority", "0">>

HasPriority(props) == \E p \in props : p[1] = "priority"

Scaleway_AdjustEndpoints(E) ==
    {[e EXCEPT !.ttl = IF @ = 0 THEN Scaleway_defaultTTL ELSE @,
               !.props = IF HasPriority(@) THEN @ ELSE @ \cup {scalewayDefaultPriority}] : e \in E}

\* Of records of a name and type one gives ttl and priority.
Scaleway_Records(S) ==
    LET R == {r \in InManagedZones(S) : SupportedRecordType(r.type)}
    IN  {LET same == {s \in R : SameSet(r, s)}
             first == CHOOSE s \in same : TRUE
         IN  Ep(FullNameOf(r), "", r.type, {s.target : s \in same}, first.ttl, first.props) : r \in R}

endpointToScalewayRecords(z, e) ==
    LET priority == {p \in e.props : p[1] = "priority"}
    IN  {[r EXCEPT !.props = IF priority = {} THEN {scalewayDefaultPriority} ELSE priority] :
            r \in RecordsFor(z, e, IF e.ttl # 0 THEN e.ttl ELSE Scaleway_defaultTTL)}

endpointToScalewayRecordsChangeDelete(S, z, e) ==
    {r \in Matching(S, z, e) : r.target \in TargetsOf(e)}

generateApplyRequests(S, ch) ==
    LET of(E, z) == {p[2] : p \in {q \in ByZone(E) : q[1] = z}}
        gone(z) == UNION {endpointToScalewayRecordsChangeDelete(S, z, e) :
                             e \in of(ch.updateOld \cup ch.delete, z)}
        fresh(z) == UNION {endpointToScalewayRecords(z, e) : e \in of(ch.create \cup ch.updateNew, z)}
    IN  Each(LAMBDA z : Call({}, gone(z), fresh(z), "hard"),
             {z \in ManagedZones : gone(z) \cup fresh(z) # {}})

Scaleway_ApplyChanges(S, ch) == IF DryRun THEN <<>> ELSE generateApplyRequests(S, ch)

=============================================================================
