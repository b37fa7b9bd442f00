-------------------------------- MODULE Plan --------------------------------
(***************************************************************************)
(* The planner: plan/plan.go, plan/conflict.go and plan/policy.go, with    *)
(* the ownership filter of endpoint/endpoint.go.  Pure operators: from the *)
(* records the registry reports and the endpoints the source wants to the  *)
(* changes the provider is asked to make.                                  *)
(*                                                                         *)
(* An endpoint is a record.  Its key is the pair of DNS name and set       *)
(* identifier, targets is the rank of its target list in the order of      *)
(* Targets.IsLess (equal ranks are lists for which Targets.Same holds), a  *)
(* ttl of 0 is "not configured", props is its provider-specific            *)
(* configuration, and owner and resource are its two labels that matter.   *)
(* Lists are sets: the records of a provider differ in key or type, and    *)
(* the sources' deduplication has left no two desired endpoints that agree *)
(* in key, type and targets, so that the minimum is unique.                *)
(***************************************************************************)
EXTENDS Naturals

CONSTANTS
    Keys,           \* pairs <<DNS name, set identifier>>
    RecordTypes,    \* the record types in use, "CNAME" among others
    Owners,         \* owner identifiers in use, "" excluded
    Resources,      \* values of the resource label
    Properties,     \* provider-specific properties
    ManagedTypes,   \* --managed-record-types without --exclude-record-types
    DomainNames,    \* the DNS names the domain filters match
    Policy          \* --policy

NoOwner == ""
NoResource == ""

ASSUME PlanAssumption ==
    /\ ManagedTypes \subseteq RecordTypes
    /\ NoOwner \notin Owners
    /\ Policy \in {"sync", "upsert-only", "create-only"}

Endpoint == [key : Keys, type : RecordTypes, targets : Nat, ttl : Nat,
             props : SUBSET Properties, owner : Owners \cup {NoOwner},
             resource : Resources \cup {NoResource}]

Changes == [create : SUBSET Endpoint, updateOld : SUBSET Endpoint,
            updateNew : SUBSET Endpoint, delete : SUBSET Endpoint]

NoChanges == [create |-> {}, updateOld |-> {}, updateNew |-> {}, delete |-> {}]

\* EndpointKey: what identifies a record in a zone.
SameRecord(x, y) == x.key = y.key /\ x.type = y.type

OfType(S, t) == {e \in S : e.type = t}
TypesOf(S) == {e.type : e \in S}

\* MUTANT: nothing is filtered.
FilterEndpointsByOwnerIDAll(o, S) == S

FilterEndpointsByOwnerID(o, S) == {e \in S : e.owner = o}

-----------------------------------------------------------------------------
(***************************************************************************)
(* What the planner looks at.                                              *)
(***************************************************************************)

IsManagedRecord(t) == t \in ManagedTypes

filterRecordsForPlan(S) ==
    {e \in S : e.key[1] \in DomainNames /\ IsManagedRecord(e.type)}

-----------------------------------------------------------------------------
(***************************************************************************)
(* Conflicts between desired endpoints of one row (plan/conflict.go).      *)
(***************************************************************************)

less(x, y) == x.targets < y.targets

ResolveCreate(candidates) ==
    CHOOSE e \in candidates : \A f \in candidates : ~less(f, e)

\* MUTANT: the resource that holds the name has no precedence.
ResolveUpdateMinimal(current, candidates) == ResolveCreate(candidates)

\* The resource that already holds the name keeps it.
ResolveUpdate(current, candidates) ==
    LET same == {e \in candidates : e.resource = current.resource}
    IN  ResolveCreate(IF same # {} THEN same ELSE candidates)

\* MUTANT: the conflict is not resolved.
ResolveRecordTypesKeepsAll(candidates) == candidates

\* A CNAME excludes every other type of its name, and loses.
ResolveRecordTypes(candidates) ==
    IF \E e, f \in candidates : e.type = "CNAME" /\ f.type # "CNAME"
    THEN {e \in candidates : e.type # "CNAME"}
    ELSE candidates

-----------------------------------------------------------------------------
(***************************************************************************)
(* One row of the plan table: the current records and the candidates of    *)
(* one key.  The three arms of calculateChanges are one formula here: with *)
(* no current record only RowCreates is not empty, with no candidate only  *)
(* RowDeletes.                                                             *)
(***************************************************************************)

targetChanged(desired, current) == desired.targets # current.targets
shouldUpdateTTL(desired, current) == desired.ttl # 0 /\ desired.ttl # current.ttl
shouldUpdateProviderSpecific(desired, current) == desired.props # current.props
isOldOwnerIdSetAndDifferent(old, current) == old # NoOwner /\ current.owner # old

NeedsUpdate(old, desired, current) ==
    \/ shouldUpdateTTL(desired, current)
    \/ targetChanged(desired, current)
    \/ shouldUpdateProviderSpecific(desired, current)
    \/ isOldOwnerIdSetAndDifferent(old, current)

\* MUTANT: the new version keeps the empty owner the source gave it.
inheritOwnerForgotten(from, to) == to

inheritOwner(from, to) == [to EXCEPT !.owner = from.owner]

RowDeletes(current, candidates) ==
    {c \in current : OfType(candidates, c.type) = {}}

RowCreates(current, candidates) ==
    {ResolveCreate(OfType(candidates, t)) : t \in TypesOf(candidates) \ TypesOf(current)}

\* appendEndpointUpdates, as the set of pairs <<UpdateOld[i], UpdateNew[i]>>.
RowUpdates(old, current, candidates) ==
    {<<c, inheritOwner(c, ResolveUpdate(c, OfType(candidates, c.type)))>> :
        c \in {d \in current :
                 /\ OfType(candidates, d.type) # {}
                 /\ NeedsUpdate(old, ResolveUpdate(d, OfType(candidates, d.type)), d)}}

\* MUTANT: creates are not withheld from a name another owner holds.
AllowedCreatesUnchecked(owner, current, creates) == creates

\* appendTakenDNSNameChanges: a new type for a taken name only if this owner has
\* every record of the name.
AllowedCreates(owner, current, creates) ==
    IF owner = NoOwner \/ \A c \in current : c.owner = owner THEN creates ELSE {}

calculatePlanTableRowChanges(owner, old, current, candidates) ==
    LET resolved == ResolveRecordTypes(candidates)
        updates == RowUpdates(old, current, resolved)
    IN  [create |-> AllowedCreates(owner, current, RowCreates(current, resolved)),
         updateOld |-> {u[1] : u \in updates},
         updateNew |-> {u[2] : u \in updates},
         delete |-> RowDeletes(current, resolved)]

-----------------------------------------------------------------------------
(***************************************************************************)
(* The whole plan.                                                         *)
(***************************************************************************)

ApplyPolicy(ch) ==
    CASE Policy = "sync" -> ch
      [] Policy = "upsert-only" -> [ch EXCEPT !.delete = {}]
      [] Policy = "create-only" -> [NoChanges EXCEPT !.create = ch.create]

OwnedChanges(owner, ch) ==
    IF owner = NoOwner THEN ch
    ELSE [create |-> ch.create,
          updateOld |-> FilterEndpointsByOwnerID(owner, ch.updateOld),
          updateNew |-> FilterEndpointsByOwnerID(owner, ch.updateNew),
          delete |-> FilterEndpointsByOwnerID(owner, ch.delete)]

\* Calculate, for the instance with this OwnerID and OldOwnerId.
Calculate(owner, old, current, desired) ==
    LET cur == filterRecordsForPlan(current)
        des == filterRecordsForPlan(desired)
        rows == {calculatePlanTableRowChanges(owner, old,
                     {e \in cur : e.key = k}, {e \in des : e.key = k}) :
                     k \in {e.key : e \in cur \cup des}}
    IN  OwnedChanges(owner, ApplyPolicy(
            [create |-> UNION {r.create : r \in rows},
             updateOld |-> UNION {r.updateOld : r \in rows},
             updateNew |-> UNION {r.updateNew : r \in rows},
             delete |-> UNION {r.delete : r \in rows}]))

HasChanges(ch) ==
    ch.create # {} \/ ch.delete # {} \/ ch.updateNew # ch.updateOld

=============================================================================
