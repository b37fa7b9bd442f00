------------------------------ MODULE Provider ------------------------------
(***************************************************************************)
(* A DNS provider as the registries use it: Records and ApplyChanges of    *)
(* provider/inmemory/inmemory.go on one zone, and the weaker checks of     *)
(* other providers.  A zone is a set of records that differ in name, set   *)
(* identifier or type.  A batch is validated as a whole and applied as a   *)
(* whole.                                                                  *)
(***************************************************************************)
EXTENDS Plan

CONSTANT
    ProviderChecks  \* "all": what the in-memory provider validates;
                    \* "upsert": updates are UPSERTs, as with Route 53, creates
                    \*   and deletions are validated;
                    \* "none": every change is forced on the zone

ASSUME ProviderAssumption == ProviderChecks \in {"all", "upsert", "none"}

Record == [key : Keys, type : RecordTypes, targets : Nat, ttl : Nat,
           props : SUBSET Properties]

\* What a DNS service keeps of an endpoint: not the labels.
Stored(e) == [key |-> e.key, type |-> e.type, targets |-> e.targets,
              ttl |-> e.ttl, props |-> e.props]

In(x, S) == \E y \in S : SameRecord(x, y)
Matches(x, S) == \E y \in S : SameRecord(x, y) /\ x.targets = y.targets

\* No two members of S are the same record.
Unique(S) == \A x, y \in S : SameRecord(x, y) => x = y

\* MUTANT: deletions and old versions are looked up, not compared.
validateChangeBatchByName(S, b) ==
    /\ \A e \in b.create : ~In(e, S) /\ ~In(e, b.updateNew \cup b.delete)
    /\ \A e \in b.updateNew : In(e, S) /\ ~In(e, b.delete)
    /\ \A e \in b.updateOld \cup b.delete : In(e, S)

\* The batch b is acceptable to a zone that holds S: what is created is new, what
\* is updated or deleted is there as the caller remembers it, and no record is in
\* two lists.
validateChangeBatch(S, b) ==
    /\ \A e \in b.create : ~In(e, b.updateNew \cup b.delete)
    /\ \A e \in b.updateNew : ~In(e, b.delete)
    /\ ProviderChecks # "none" =>
           /\ \A e \in b.create : ~In(e, S)
           /\ \A e \in b.delete : Matches(e, S)
    /\ ProviderChecks = "all" =>
           /\ \A e \in b.updateNew : In(e, S)
           /\ \A e \in b.updateOld : Matches(e, S)

\* The zone after creates, updates and deletions.
Applied(S, b) ==
    {r \in S : ~In(r, b.create \cup b.updateNew \cup b.delete)}
        \cup b.create \cup b.updateNew

\* MUTANT: the labels of the caller are stored with the record.
RecordBatchLabelled(ch) == ch

\* The record part of a set of changes, as the provider stores it.
RecordBatch(ch) ==
    [create |-> {Stored(e) : e \in ch.create},
     updateOld |-> {Stored(e) : e \in ch.updateOld},
     updateNew |-> {Stored(e) : e \in ch.updateNew},
     delete |-> {Stored(e) : e \in ch.delete}]

=============================================================================
