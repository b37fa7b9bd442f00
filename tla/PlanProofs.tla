----------------------------- MODULE PlanProofs -----------------------------
(***************************************************************************)
(* What the planner returns, and what the registries and the provider make *)
(* of it, for all records, endpoints and policies.                         *)
(***************************************************************************)
EXTENDS Provider, WellFoundedInduction, TLAPS

\* Among candidates there is always one that no other is less than, so that
\* ResolveCreate returns one of them (plan/conflict.go).
LEMMA ResolveCreateIn ==
    ASSUME NEW S, S \subseteq Endpoint, S # {}
    PROVE  ResolveCreate(S) \in S
<1> DEFINE ranks == {e.targets : e \in S}
           R == {ss \in Nat \X Nat : ss[1] < ss[2]}
<1>1. ranks \subseteq Nat /\ ranks # {}
  BY DEF Endpoint
<1>2. IsWellFoundedOn(R, Nat)
  BY NatLessThanWellFounded DEF OpToRel
<1>3. PICK m \in ranks : \A n \in ranks : ~(<<n, m>> \in R)
  <2> HIDE DEF R, ranks
  <2> QED
    BY <1>1, <1>2, WFMin
<1>4. \A n \in ranks : ~(n < m)
  BY <1>1, <1>3
<1>5. \E e \in S : \A f \in S : ~less(f, e)
  BY <1>4 DEF less
<1> QED
  BY <1>5 DEF ResolveCreate

\* ResolveUpdate returns a candidate as well, whoever holds the record.
LEMMA ResolveUpdateIn ==
    ASSUME NEW c, NEW S, S \subseteq Endpoint, S # {}
    PROVE  ResolveUpdate(c, S) \in S
<1> DEFINE same == {e \in S : e.resource = c.resource}
<1>1. CASE same # {}
  <2>1. ResolveCreate(same) \in same
    BY <1>1, ResolveCreateIn
  <2> QED
    BY <1>1, <2>1 DEF ResolveUpdate
<1>2. CASE same = {}
  BY <1>2, ResolveCreateIn DEF ResolveUpdate
<1> QED
  BY <1>1, <1>2

\* As long as the resource that holds the record is among the candidates, it wins.
LEMMA ResolveUpdateHolder ==
    ASSUME NEW c, NEW S, S \subseteq Endpoint, \E e \in S : e.resource = c.resource
    PROVE  ResolveUpdate(c, S).resource = c.resource
<1> DEFINE same == {e \in S : e.resource = c.resource}
<1>1. same # {} /\ same \subseteq Endpoint
  OBVIOUS
<1>2. ResolveCreate(same) \in same
  BY <1>1, ResolveCreateIn
<1> QED
  BY <1>1, <1>2 DEF ResolveUpdate

\* What a row creates is one of its candidates.
LEMMA RowCreatesIn ==
    ASSUME NEW current, NEW S, S \subseteq Endpoint
    PROVE  RowCreates(current, S) \subseteq S
<1> SUFFICES ASSUME NEW t \in TypesOf(S) PROVE ResolveCreate(OfType(S, t)) \in S
  BY DEF RowCreates
<1>1. OfType(S, t) # {} /\ OfType(S, t) \subseteq S
  BY DEF OfType, TypesOf
<1>2. ResolveCreate(OfType(S, t)) \in OfType(S, t)
  BY <1>1, ResolveCreateIn
<1> QED
  BY <1>1, <1>2

\* The changes ch are what a row of the plan table may come to.  What it creates is
\* wanted, of a type the name does not have yet and one per type, and not at all
\* beside a record of somebody else; the new version of an update is what a source
\* wants, the resource of the old version first, with the owner of the old version;
\* deletions are current records of types that are not updated; a CNAME is left or
\* put beside nothing else.
RowPlanned(owner, current, candidates, ch) ==
    /\ ch.create \subseteq candidates
    /\ \A e \in ch.create : e.type \notin TypesOf(current)
    /\ \A e, f \in ch.create : e.type = f.type => e = f
    /\ ch.create # {} => owner = NoOwner \/ \A c \in current : c.owner = owner
    /\ ch.updateOld \subseteq current
    /\ \A n \in ch.updateNew : \E c \in ch.updateOld, d \in candidates :
           /\ d.type = c.type /\ n = inheritOwner(c, d)
           /\ (\E f \in candidates : f.type = c.type /\ f.resource = c.resource) =>
                  d.resource = c.resource
    /\ \A c \in ch.updateOld : \E n \in ch.updateNew, d \in candidates :
           d.type = c.type /\ n = inheritOwner(c, d)
    /\ ch.delete \subseteq current
    /\ \A c \in ch.delete, n \in ch.updateNew : c.type # n.type
    /\ (\A c, d \in current : c.type = d.type => c = d) =>
           \A m, n \in ch.updateNew : m.type = n.type => m = n
    /\ \A x, y \in ch.create \cup ch.updateNew \cup (current \ ch.delete) :
           x.type = "CNAME" => y.type = "CNAME"

\* calculatePlanTableRowChanges comes to nothing else.
LEMMA RowChanges ==
    ASSUME NEW owner, NEW old,
           NEW current, current \subseteq Endpoint,
           NEW candidates, candidates \subseteq Endpoint
    PROVE  RowPlanned(owner, current, candidates,
                      calculatePlanTableRowChanges(owner, old, current, candidates))
<1> DEFINE S == ResolveRecordTypes(candidates)
           ch == calculatePlanTableRowChanges(owner, old, current, candidates)
           Winner(c) == ResolveUpdate(c, OfType(S, c.type))
<1>1. /\ S \subseteq candidates /\ S \subseteq Endpoint
      /\ \A e, f \in S : e.type = "CNAME" => f.type = "CNAME"
      /\ \A t : OfType(S, t) # {} => OfType(S, t) = OfType(candidates, t)
  <2>1. CASE \E e, f \in candidates : e.type = "CNAME" /\ f.type # "CNAME"
    BY <2>1 DEF ResolveRecordTypes, OfType
  <2>2. CASE ~\E e, f \in candidates : e.type = "CNAME" /\ f.type # "CNAME"
    <3>1. S = candidates
      BY <2>2 DEF ResolveRecordTypes
    <3> QED
      BY <2>2, <3>1
  <2> QED
    BY <2>1, <2>2
<1> HIDE DEF S
<1>2. /\ ch.create \subseteq RowCreates(current, S)
      /\ ch.create # {} => owner = NoOwner \/ \A c \in current : c.owner = owner
  BY DEF calculatePlanTableRowChanges, AllowedCreates, S
<1>3. \A t \in TypesOf(S) : /\ ResolveCreate(OfType(S, t)) \in S
                            /\ ResolveCreate(OfType(S, t)).type = t
  <2> SUFFICES ASSUME NEW t \in TypesOf(S)
               PROVE  ResolveCreate(OfType(S, t)) \in OfType(S, t)
    BY DEF OfType
  <2>1. OfType(S, t) # {} /\ OfType(S, t) \subseteq Endpoint
    BY <1>1 DEF OfType, TypesOf
  <2> QED
    BY <2>1, ResolveCreateIn
<1>4. ch.create \subseteq candidates
  BY <1>1, <1>2, <1>3 DEF RowCreates
<1>5. \A e \in ch.create : e.type \notin TypesOf(current)
  BY <1>2, <1>3 DEF RowCreates
<1>6. \A e, f \in ch.create : e.type = f.type => e = f
  BY <1>2, <1>3 DEF RowCreates
<1>7. \A c \in current : OfType(S, c.type) # {} =>
          /\ Winner(c) \in S
          /\ Winner(c).type = c.type
          /\ (\E f \in candidates : f.type = c.type /\ f.resource = c.resource) =>
                 Winner(c).resource = c.resource
  <2> SUFFICES ASSUME NEW c \in current, OfType(S, c.type) # {}
               PROVE  /\ Winner(c) \in OfType(S, c.type)
                      /\ (\E f \in candidates : f.type = c.type /\ f.resource = c.resource) =>
                             Winner(c).resource = c.resource
    BY DEF OfType
  <2>1. OfType(S, c.type) \subseteq Endpoint /\ OfType(S, c.type) = OfType(candidates, c.type)
    BY <1>1 DEF OfType
  <2>2. Winner(c) \in OfType(S, c.type)
    BY <2>1, ResolveUpdateIn
  <2>3. ASSUME NEW f \in candidates, f.type = c.type, f.resource = c.resource
        PROVE  Winner(c).resource = c.resource
    <3>1. f \in OfType(S, c.type)
      BY <2>1, <2>3 DEF OfType
    <3> QED
      BY <2>1, <2>3, <3>1, ResolveUpdateHolder
  <2> QED
    BY <2>2, <2>3
<1> DEFINE updated == {d \in current : OfType(S, d.type) # {} /\ NeedsUpdate(old, Winner(d), d)}
<1>8. /\ ch.updateOld = updated
      /\ ch.updateNew = {inheritOwner(c, Winner(c)) : c \in updated}
  <2>1. RowUpdates(old, current, S) = {<<c, inheritOwner(c, Winner(c))>> : c \in updated}
    BY DEF RowUpdates
  <2>2. /\ ch.updateOld = {u[1] : u \in RowUpdates(old, current, S)}
        /\ ch.updateNew = {u[2] : u \in RowUpdates(old, current, S)}
    BY DEF calculatePlanTableRowChanges, S
  <2> DEFINE New(c) == inheritOwner(c, Winner(c))
  <2>3. RowUpdates(old, current, S) = {<<c, New(c)>> : c \in updated}
    BY <2>1
  <2> DEFINE U == RowUpdates(old, current, S)
  <2> HIDE DEF New, updated, ch, U
  <2>4. /\ \A c \in updated : \E u \in U : u[1] = c /\ u[2] = New(c)
        /\ \A u \in U : \E c \in updated : u[1] = c /\ u[2] = New(c)
    <3>1. \A c \in updated : <<c, New(c)>> \in U
      BY <2>3 DEF U
    <3>2. \A u \in U : \E c \in updated : u = <<c, New(c)>>
      BY <2>3 DEF U
    <3>3. \A c \in updated : <<c, New(c)>>[1] = c /\ <<c, New(c)>>[2] = New(c)
      OBVIOUS
    <3>4. \A c \in updated : \E u \in U : u[1] = c /\ u[2] = New(c)
      BY <3>1, <3>3
    <3>5. \A u \in U : \E c \in updated : u[1] = c /\ u[2] = New(c)
      BY <3>2, <3>3
    <3> QED
      BY <3>4, <3>5
  <2>5. ch.updateOld = {u[1] : u \in U} /\ ch.updateNew = {u[2] : u \in U}
    BY <2>2 DEF U
  <2>6. ch.updateOld = updated
    BY <2>4, <2>5
  <2>7. ch.updateNew = {New(c) : c \in updated}
    BY <2>4, <2>5
  <2> QED
    BY <2>6, <2>7 DEF New
<1>9. updated \subseteq current /\ \A c \in updated : OfType(S, c.type) # {}
  OBVIOUS
<1>10. ch.delete = {c \in current : OfType(S, c.type) = {}}
  BY DEF calculatePlanTableRowChanges, RowDeletes, S
<1> HIDE DEF Winner, updated, ch
<1>11. \A n \in ch.updateNew : \E c \in ch.updateOld, d \in candidates :
          /\ d.type = c.type /\ n = inheritOwner(c, d)
          /\ (\E f \in candidates : f.type = c.type /\ f.resource = c.resource) =>
                 d.resource = c.resource
  BY <1>1, <1>7, <1>8, <1>9
<1>12. \A c \in updated : inheritOwner(c, Winner(c)).type = c.type
  BY <1>1, <1>7, <1>9 DEF inheritOwner, Endpoint
<1>13. \A c \in ch.delete, n \in ch.updateNew : c.type # n.type
  BY <1>8, <1>9, <1>10, <1>12
<1>14. (\A c, d \in current : c.type = d.type => c = d) =>
          \A m, n \in ch.updateNew : m.type = n.type => m = n
  BY <1>8, <1>9, <1>12
<1>15. \A c \in ch.updateOld : \E n \in ch.updateNew, d \in candidates :
          d.type = c.type /\ n = inheritOwner(c, d)
  BY <1>1, <1>7, <1>8, <1>9
<1>16. \A x, y \in ch.create \cup ch.updateNew \cup (current \ ch.delete) :
          x.type = "CNAME" => y.type = "CNAME"
  <2>1. \A x \in ch.create : x \in S
    BY <1>2, <1>3 DEF RowCreates
  <2>2. \A x \in ch.updateNew : \E s \in S : s.type = x.type
    BY <1>7, <1>8, <1>9, <1>12
  <2>3. \A x \in current \ ch.delete : \E s \in S : s.type = x.type
    BY <1>10 DEF OfType
  <2> QED
    BY <1>1, <2>1, <2>2, <2>3
<1> QED
  BY <1>2, <1>4, <1>5, <1>6, <1>8, <1>9, <1>10, <1>11, <1>13, <1>14, <1>15, <1>16 DEF ch, RowPlanned

\* The changes ch are what an instance with this owner may plan, given the current
\* records and the desired endpoints: creates are wanted, one per record, and of
\* records that are not there; updates and deletions are of current records of this
\* owner; the three are about different records, an update keeps the owner and, if
\* it can, the resource; nothing is planned outside the filters or created under a name
\* of which somebody else has a record, and a CNAME not beside another record.
PlannedFor(owner, current, desired, ch) ==
    /\ ch \in Changes
    /\ ch.create \cup ch.updateOld \cup ch.delete \subseteq
           filterRecordsForPlan(current \cup desired)
    /\ ch.create \subseteq desired
    /\ \A e \in ch.create, c \in current : ~SameRecord(e, c)
    /\ \A e, f \in ch.create : SameRecord(e, f) => e = f
    /\ \A e \in ch.create, c \in current :
           IsManagedRecord(c.type) /\ c.key = e.key => c.owner = owner
    /\ ch.updateOld \subseteq {c \in current : c.owner = owner}
    /\ \A n \in ch.updateNew : \E c \in ch.updateOld : SameRecord(n, c) /\ n.owner = owner
    /\ \A n \in ch.updateNew : \E c \in ch.updateOld, d \in desired :
           /\ SameRecord(n, c) /\ n = inheritOwner(c, d)
           /\ (\E f \in desired : SameRecord(f, c) /\ f.resource = c.resource) =>
                  n.resource = c.resource
    /\ \A c \in ch.updateOld : \E n \in ch.updateNew : SameRecord(n, c)
    /\ ch.delete \subseteq {c \in current : c.owner = owner}
    /\ \A c \in ch.delete, n \in ch.updateNew : ~SameRecord(c, n)
    /\ (\A c, d \in current : SameRecord(c, d) => c = d) =>
           \A m, n \in ch.updateNew : SameRecord(m, n) => m = n
    /\ \A x, y \in ch.create \cup ch.updateNew :
           x.key = y.key /\ x.type = "CNAME" => y.type = "CNAME"
    /\ Policy = "sync" =>
           \A x, y \in ch.create \cup ch.updateNew \cup
                      {c \in filterRecordsForPlan(current) \ ch.delete : c.owner = owner} :
               x.key = y.key /\ x.type = "CNAME" => y.type = "CNAME"

\* Calculate with an owner identifier plans nothing else, whatever the policy, the
\* filters and the conflicts between resources (plan/plan.go).
THEOREM CalculateChanges ==
    ASSUME NEW owner \in Owners, NEW old,
           NEW current \in SUBSET Endpoint, NEW desired \in SUBSET Endpoint
    PROVE  PlannedFor(owner, current, desired, Calculate(owner, old, current, desired))
<1> DEFINE cur == filterRecordsForPlan(current)
           des == filterRecordsForPlan(desired)
           keys == {e.key : e \in cur \cup des}
           cand(k) == {e \in des : e.key = k}
           held(k) == {e \in cur : e.key = k}
           row(k) == calculatePlanTableRowChanges(owner, old, held(k), cand(k))
           all == [create |-> UNION {r.create : r \in {row(k) : k \in keys}},
                   updateOld |-> UNION {r.updateOld : r \in {row(k) : k \in keys}},
                   updateNew |-> UNION {r.updateNew : r \in {row(k) : k \in keys}},
                   delete |-> UNION {r.delete : r \in {row(k) : k \in keys}}]
           ch == Calculate(owner, old, current, desired)
<1>1. /\ cur \subseteq current /\ des \subseteq desired
      /\ \A e \in des, c \in current : SameRecord(e, c) => c \in cur
      /\ \A e \in desired, c \in cur : SameRecord(e, c) => e \in des
      /\ \A e \in des, c \in current : e.key = c.key /\ IsManagedRecord(c.type) => c \in cur
  BY DEF filterRecordsForPlan, SameRecord
<1>2. ch = OwnedChanges(owner, ApplyPolicy(all))
  BY DEF Calculate
<1>3. \A k : /\ held(k) \subseteq Endpoint /\ held(k) \subseteq cur
             /\ cand(k) \subseteq Endpoint /\ cand(k) \subseteq des
             /\ \A e \in held(k) \cup cand(k) : e.key = k
             /\ \A e \in cur : e.key = k => e \in held(k)
             /\ \A e \in des : e.key = k => e \in cand(k)
  BY <1>1
<1>4. /\ \A e \in all.create : \E k \in keys : e \in row(k).create
      /\ \A e \in all.updateOld : \E k \in keys : e \in row(k).updateOld
      /\ \A e \in all.updateNew : \E k \in keys : e \in row(k).updateNew
      /\ \A e \in all.delete : \E k \in keys : e \in row(k).delete
      /\ \A k \in keys : /\ row(k).updateOld \subseteq all.updateOld
                         /\ row(k).updateNew \subseteq all.updateNew
                         /\ row(k).delete \subseteq all.delete
      /\ \A e \in cur : e.key \in keys
  <2>1. \A e \in cur : e.key \in keys
    OBVIOUS
  <2> HIDE DEF row, keys
  <2> QED
    BY <2>1
<1> HIDE DEF cur, des, keys, cand, held, all, ch
<1>5. \A k : /\ row(k).create \subseteq cand(k)
             /\ \A e \in row(k).create : e.type \notin TypesOf(held(k))
             /\ \A e, f \in row(k).create : e.type = f.type => e = f
             /\ row(k).create # {} => owner = NoOwner \/ \A c \in held(k) : c.owner = owner
             /\ row(k).updateOld \subseteq held(k)
             /\ \A n \in row(k).updateNew : \E c \in row(k).updateOld, d \in cand(k) :
                    /\ d.type = c.type /\ n = inheritOwner(c, d)
                    /\ (\E f \in cand(k) : f.type = c.type /\ f.resource = c.resource) =>
                           d.resource = c.resource
             /\ \A c \in row(k).updateOld : \E n \in row(k).updateNew, d \in cand(k) :
                    d.type = c.type /\ n = inheritOwner(c, d)
             /\ row(k).delete \subseteq held(k)
             /\ \A c \in row(k).delete, n \in row(k).updateNew : c.type # n.type
             /\ (\A c, d \in held(k) : c.type = d.type => c = d) =>
                    \A m, n \in row(k).updateNew : m.type = n.type => m = n
             /\ \A x, y \in row(k).create \cup row(k).updateNew \cup (held(k) \ row(k).delete) :
                    x.type = "CNAME" => y.type = "CNAME"
  <2>1. \A k : RowPlanned(owner, held(k), cand(k), row(k))
    BY <1>3, RowChanges
  <2> HIDE DEF row
  <2> QED
    BY <2>1 DEF RowPlanned
<1> HIDE DEF row
<1>6. \A c \in Endpoint, d \in Endpoint :
          /\ inheritOwner(c, d) \in Endpoint
          /\ SameRecord(inheritOwner(c, d), d)
          /\ inheritOwner(c, d).owner = c.owner
          /\ inheritOwner(c, d).resource = d.resource
  BY DEF inheritOwner, Endpoint, SameRecord
<1>7. \A k, n : n \in row(k).updateNew =>
          \E c \in row(k).updateOld, d \in cand(k) :
              /\ n \in Endpoint /\ n.key = k /\ SameRecord(n, c) /\ n.owner = c.owner
              /\ n = inheritOwner(c, d)
              /\ (\E f \in cand(k) : f.type = c.type /\ f.resource = c.resource) =>
                     n.resource = c.resource
  <2> SUFFICES ASSUME NEW k, NEW n \in row(k).updateNew
               PROVE  \E c \in row(k).updateOld, d \in cand(k) :
                          /\ n \in Endpoint /\ n.key = k /\ SameRecord(n, c) /\ n.owner = c.owner
                          /\ n = inheritOwner(c, d)
                          /\ (\E f \in cand(k) : f.type = c.type /\ f.resource = c.resource) =>
                                 n.resource = c.resource
    OBVIOUS
  <2>1. PICK c \in row(k).updateOld, d \in cand(k) :
            /\ d.type = c.type /\ n = inheritOwner(c, d)
            /\ (\E f \in cand(k) : f.type = c.type /\ f.resource = c.resource) =>
                   d.resource = c.resource
    BY <1>5
  <2>2. c \in Endpoint /\ d \in Endpoint /\ c.key = k /\ d.key = k
    BY <1>3, <1>5
  <2>3. n \in Endpoint /\ SameRecord(n, d) /\ n.owner = c.owner /\ n.resource = d.resource
    BY <2>1, <2>2, <1>6
  <2>4. n.key = k /\ SameRecord(n, c)
    BY <2>1, <2>2, <2>3 DEF SameRecord
  <2> QED
    BY <2>1, <2>3, <2>4
<1>8. /\ ch.create = all.create
      /\ ch.updateOld \subseteq {c \in all.updateOld : c.owner = owner}
      /\ ch.updateNew \subseteq {c \in all.updateNew : c.owner = owner}
      /\ ch.delete \subseteq {c \in all.delete : c.owner = owner}
      /\ ch.updateNew # {} => ch.updateOld = {c \in all.updateOld : c.owner = owner}
      /\ ch.updateOld # {} => ch.updateNew = {c \in all.updateNew : c.owner = owner}
      /\ Policy = "sync" => ch.delete = {c \in all.delete : c.owner = owner}
      /\ ch = [create |-> ch.create, updateOld |-> ch.updateOld,
               updateNew |-> ch.updateNew, delete |-> ch.delete]
  <2>1. owner # NoOwner
    BY PlanAssumption
  <2>2. /\ all = [create |-> all.create, updateOld |-> all.updateOld,
                  updateNew |-> all.updateNew, delete |-> all.delete]
    BY DEF all
  <2>3. CASE Policy = "sync"
    BY <1>2, <2>1, <2>2, <2>3 DEF ApplyPolicy, OwnedChanges, FilterEndpointsByOwnerID
  <2>4. CASE Policy = "upsert-only"
    BY <1>2, <2>1, <2>2, <2>4 DEF ApplyPolicy, OwnedChanges, FilterEndpointsByOwnerID
  <2>5. CASE Policy = "create-only"
    BY <1>2, <2>1, <2>2, <2>5
       DEF ApplyPolicy, OwnedChanges, FilterEndpointsByOwnerID, NoChanges
  <2> QED
    BY <2>3, <2>4, <2>5, PlanAssumption
<1>9. ch.create \subseteq desired
  BY <1>1, <1>3, <1>4, <1>5, <1>8
<1>10. \A e \in ch.create, c \in current : ~SameRecord(e, c)
  <2> SUFFICES ASSUME NEW e \in ch.create, NEW c \in current, SameRecord(e, c) PROVE FALSE
    OBVIOUS
  <2>1. PICK k \in keys : e \in row(k).create
    BY <1>4, <1>8
  <2>2. e \in des /\ e.key = k /\ e.type \notin TypesOf(held(k))
    BY <1>3, <1>5, <2>1
  <2>3. c \in held(k)
    BY <1>1, <1>3, <2>2 DEF SameRecord
  <2> QED
    BY <2>2, <2>3 DEF SameRecord, TypesOf
<1>11. \A e, f \in ch.create : SameRecord(e, f) => e = f
  <2> SUFFICES ASSUME NEW e \in ch.create, NEW f \in ch.create, SameRecord(e, f)
               PROVE  e = f
    OBVIOUS
  <2>1. PICK k \in keys : e \in row(k).create
    BY <1>4, <1>8
  <2>2. PICK l \in keys : f \in row(l).create
    BY <1>4, <1>8
  <2>3. k = l
    BY <1>3, <1>5, <2>1, <2>2 DEF SameRecord
  <2> QED
    BY <1>5, <2>1, <2>2, <2>3 DEF SameRecord
<1>12. all.updateOld \subseteq current /\ all.delete \subseteq current
  BY <1>1, <1>3, <1>4, <1>5
<1>13. \A n \in ch.updateNew : \E c \in ch.updateOld : SameRecord(n, c) /\ n.owner = owner
  <2> SUFFICES ASSUME NEW n \in ch.updateNew
               PROVE  \E c \in ch.updateOld : SameRecord(n, c) /\ n.owner = owner
    OBVIOUS
  <2>1. PICK k \in keys : n \in row(k).updateNew
    BY <1>4, <1>8
  <2>2. PICK c \in row(k).updateOld : SameRecord(n, c) /\ n.owner = c.owner
    BY <1>7, <2>1
  <2>3. c \in all.updateOld
    BY <1>4
  <2>4. n.owner = owner
    BY <1>8
  <2> QED
    BY <1>8, <2>2, <2>3, <2>4
<1>14. \A c \in ch.delete, n \in ch.updateNew : ~SameRecord(c, n)
  <2> SUFFICES ASSUME NEW c \in ch.delete, NEW n \in ch.updateNew, SameRecord(c, n)
               PROVE  FALSE
    OBVIOUS
  <2>1. PICK k \in keys : c \in row(k).delete
    BY <1>4, <1>8
  <2>2. PICK l \in keys : n \in row(l).updateNew
    BY <1>4, <1>8
  <2>3. k = l
    BY <1>3, <1>5, <1>7, <2>1, <2>2 DEF SameRecord
  <2> QED
    BY <1>5, <2>1, <2>2, <2>3 DEF SameRecord
<1>15. ASSUME \A c, d \in current : SameRecord(c, d) => c = d
       PROVE  \A m, n \in ch.updateNew : SameRecord(m, n) => m = n
  <2> SUFFICES ASSUME NEW m \in ch.updateNew, NEW n \in ch.updateNew, SameRecord(m, n)
               PROVE  m = n
    OBVIOUS
  <2>1. PICK k \in keys : m \in row(k).updateNew
    BY <1>4, <1>8
  <2>2. PICK l \in keys : n \in row(l).updateNew
    BY <1>4, <1>8
  <2>3. k = l
    BY <1>7, <2>1, <2>2 DEF SameRecord
  <2>4. \A c, d \in held(k) : c.type = d.type => c = d
    BY <1>1, <1>3, <1>15 DEF SameRecord
  <2> QED
    BY <1>5, <2>1, <2>2, <2>3, <2>4 DEF SameRecord
<1>16. ch \in Changes
  <2>1. ch.updateNew \subseteq Endpoint
    BY <1>4, <1>7, <1>8
  <2>2. ch.create \subseteq Endpoint /\ ch.updateOld \subseteq Endpoint
            /\ ch.delete \subseteq Endpoint
    BY <1>8, <1>9, <1>12
  <2> QED
    BY <1>8, <2>1, <2>2 DEF Changes
<1>17. /\ ch.updateOld \subseteq {c \in current : c.owner = owner}
       /\ ch.delete \subseteq {c \in current : c.owner = owner}
  BY <1>8, <1>12
<1>18. \A e \in ch.create, c \in current :
          IsManagedRecord(c.type) /\ c.key = e.key => c.owner = owner
  <2> SUFFICES ASSUME NEW e \in ch.create, NEW c \in current,
                      IsManagedRecord(c.type), c.key = e.key
               PROVE  c.owner = owner
    OBVIOUS
  <2>1. PICK k \in keys : e \in row(k).create
    BY <1>4, <1>8
  <2>2. e \in des /\ e.key = k
    BY <1>3, <1>5, <2>1
  <2>3. c \in held(k)
    BY <1>1, <1>3, <2>2
  <2> QED
    BY <1>5, <2>1, <2>3, PlanAssumption
<1>19. \A n \in ch.updateNew : \E c \in ch.updateOld, d \in desired :
          /\ SameRecord(n, c) /\ n = inheritOwner(c, d)
          /\ (\E f \in desired : SameRecord(f, c) /\ f.resource = c.resource) =>
                 n.resource = c.resource
  <2> SUFFICES ASSUME NEW n \in ch.updateNew
               PROVE  \E c \in ch.updateOld, d \in desired :
                          /\ SameRecord(n, c) /\ n = inheritOwner(c, d)
                          /\ (\E f \in desired : SameRecord(f, c) /\ f.resource = c.resource) =>
                                 n.resource = c.resource
    OBVIOUS
  <2>1. PICK k \in keys : n \in row(k).updateNew
    BY <1>4, <1>8
  <2>2. PICK c \in row(k).updateOld, d \in cand(k) :
            /\ n.key = k /\ SameRecord(n, c) /\ n.owner = c.owner /\ n = inheritOwner(c, d)
            /\ (\E f \in cand(k) : f.type = c.type /\ f.resource = c.resource) =>
                   n.resource = c.resource
    BY <1>7, <2>1
  <2>3. c \in ch.updateOld /\ d \in desired /\ c \in cur
    BY <1>1, <1>3, <1>4, <1>5, <1>8, <2>2
  <2>4. \A f \in desired : SameRecord(f, c) => f \in cand(k) /\ f.type = c.type
    BY <1>1, <1>3, <2>2, <2>3 DEF SameRecord
  <2> QED
    BY <2>2, <2>3, <2>4
<1>20. \A c \in ch.updateOld : \E n \in ch.updateNew : SameRecord(n, c)
  <2> SUFFICES ASSUME NEW c \in ch.updateOld PROVE \E n \in ch.updateNew : SameRecord(n, c)
    OBVIOUS
  <2>1. PICK k \in keys : c \in row(k).updateOld
    BY <1>4, <1>8
  <2>2. PICK n \in row(k).updateNew, d \in cand(k) : d.type = c.type /\ n = inheritOwner(c, d)
    BY <1>5, <2>1
  <2>3. c \in Endpoint /\ d \in Endpoint /\ c.key = k /\ d.key = k
    BY <1>3, <1>5, <2>1
  <2>4. SameRecord(n, d) /\ n.owner = owner
    BY <1>6, <1>8, <2>2, <2>3
  <2> QED
    BY <1>4, <1>8, <2>2, <2>3, <2>4 DEF SameRecord
<1>21. ch.create \cup ch.updateOld \cup ch.delete \subseteq
           filterRecordsForPlan(current \cup desired)
  <2>1. cur \cup des \subseteq filterRecordsForPlan(current \cup desired)
    BY DEF cur, des, filterRecordsForPlan
  <2>2. all.create \cup all.updateOld \cup all.delete \subseteq cur \cup des
    BY <1>3, <1>4, <1>5
  <2> QED
    BY <1>8, <2>1, <2>2
<1> DEFINE kept == {c \in cur \ ch.delete : c.owner = owner}
<1>22. ASSUME NEW K, K = {} \/ (Policy = "sync" /\ K = kept)
       PROVE  \A x, y \in ch.create \cup ch.updateNew \cup K :
                  x.key = y.key /\ x.type = "CNAME" => y.type = "CNAME"
  <2>1. \A x \in ch.create \cup ch.updateNew \cup K :
            /\ x.key \in keys
            /\ x \in row(x.key).create \cup row(x.key).updateNew
                        \cup (held(x.key) \ row(x.key).delete)
    <3>1. \A x \in ch.create \cup ch.updateNew :
              x.key \in keys /\ x \in row(x.key).create \cup row(x.key).updateNew
      BY <1>3, <1>4, <1>5, <1>7, <1>8
    <3>2. \A x \in K : x.key \in keys /\ x \in held(x.key) \ row(x.key).delete
      BY <1>3, <1>4, <1>8, <1>22
    <3> QED
      BY <3>1, <3>2
  <2> HIDE DEF kept
  <2> QED
    BY <1>5, <2>1
<1>23. \A x, y \in ch.create \cup ch.updateNew :
          x.key = y.key /\ x.type = "CNAME" => y.type = "CNAME"
  BY <1>22
<1>24. Policy = "sync" =>
          \A x, y \in ch.create \cup ch.updateNew \cup kept :
              x.key = y.key /\ x.type = "CNAME" => y.type = "CNAME"
  BY <1>22
<1> QED
  BY <1>9, <1>10, <1>11, <1>13, <1>14, <1>15, <1>16, <1>17, <1>18, <1>19, <1>20, <1>21, <1>23, <1>24
     DEF PlannedFor, ch, cur

-----------------------------------------------------------------------------
(***************************************************************************)
(* What the registries and the provider make of a plan: the owner filter   *)
(* of ApplyChanges, the records cache and the batch, for all records,      *)
(* policies and providers.                                                 *)
(***************************************************************************)

\* The changes fc are what ApplyChanges of owner o may work on, after Records has
\* returned V.
MayApply(o, V, fc) ==
    /\ fc \in Changes
    /\ \A e \in fc.create : e.owner = o
    /\ \A e \in fc.create, c \in V : ~SameRecord(e, c)
    /\ Unique(fc.create)
    /\ fc.updateOld \subseteq {c \in V : c.owner = o}
    /\ \A n \in fc.updateNew : \E c \in fc.updateOld : SameRecord(n, c) /\ n.owner = o
    /\ \A c \in fc.updateOld : \E n \in fc.updateNew : SameRecord(n, c)
    /\ fc.delete \subseteq {c \in V : c.owner = o}
    /\ \A c \in fc.delete, n \in fc.updateNew : ~SameRecord(c, n)
    /\ Unique(V) => Unique(fc.updateNew)
    /\ \A x, y \in fc.create \cup fc.updateNew :
           x.key = y.key /\ x.type = "CNAME" => y.type = "CNAME"

\* The owner filter of a registry: new endpoints are claimed, changes to records of
\* others are dropped.
OwnedPlan(o, ch) ==
    [create |-> {[e EXCEPT !.owner = o] : e \in ch.create},
     updateOld |-> FilterEndpointsByOwnerID(o, ch.updateOld),
     updateNew |-> FilterEndpointsByOwnerID(o, ch.updateNew),
     delete |-> FilterEndpointsByOwnerID(o, ch.delete)]

\* What the filter leaves of a plan.
LEMMA OwnedPlanApplies ==
    ASSUME NEW o \in Owners, NEW V \in SUBSET Endpoint, NEW S \in SUBSET Endpoint,
           NEW ch, PlannedFor(o, V, S, ch)
    PROVE  /\ MayApply(o, V, OwnedPlan(o, ch))
           /\ OwnedPlan(o, ch).updateOld = ch.updateOld
           /\ OwnedPlan(o, ch).updateNew = ch.updateNew
           /\ OwnedPlan(o, ch).delete = ch.delete
           /\ \A f \in OwnedPlan(o, ch).create : \E e \in S : f = [e EXCEPT !.owner = o]
<1> DEFINE fc == OwnedPlan(o, ch)
<1>1. /\ ch \in Changes
      /\ ch.create \subseteq S
      /\ \A e \in ch.create, c \in V : ~SameRecord(e, c)
      /\ \A e, f \in ch.create : SameRecord(e, f) => e = f
      /\ ch.updateOld \subseteq {c \in V : c.owner = o}
      /\ \A n \in ch.updateNew : \E c \in ch.updateOld : SameRecord(n, c) /\ n.owner = o
      /\ \A c \in ch.updateOld : \E n \in ch.updateNew : SameRecord(n, c)
      /\ ch.delete \subseteq {c \in V : c.owner = o}
      /\ \A c \in ch.delete, n \in ch.updateNew : ~SameRecord(c, n)
      /\ (\A c, d \in V : SameRecord(c, d) => c = d) =>
             \A m, n \in ch.updateNew : SameRecord(m, n) => m = n
      /\ \A x, y \in ch.create \cup ch.updateNew :
             x.key = y.key /\ x.type = "CNAME" => y.type = "CNAME"
  BY DEF PlannedFor
<1>2. /\ fc.updateOld = ch.updateOld
      /\ fc.updateNew = ch.updateNew
      /\ fc.delete = ch.delete
  BY <1>1 DEF OwnedPlan, FilterEndpointsByOwnerID
<1>3. \A f \in fc.create : \E e \in ch.create :
          /\ f \in Endpoint /\ f.owner = o /\ SameRecord(e, f)
          /\ f = [e EXCEPT !.owner = o]
  BY <1>1 DEF OwnedPlan, Changes, Endpoint, SameRecord
<1>4. fc \in Changes
  BY <1>1, <1>2, <1>3 DEF OwnedPlan, Changes
<1> HIDE DEF fc
<1>5. Unique(fc.create)
  <2> SUFFICES ASSUME NEW f \in fc.create, NEW g \in fc.create, SameRecord(f, g)
               PROVE  f = g
    BY DEF Unique
  <2>1. PICK d \in ch.create : SameRecord(d, f) /\ f = [d EXCEPT !.owner = o]
    BY <1>3
  <2>2. PICK e \in ch.create : SameRecord(e, g) /\ g = [e EXCEPT !.owner = o]
    BY <1>3
  <2>3. d = e
    BY <1>1, <2>1, <2>2 DEF SameRecord
  <2> QED
    BY <2>1, <2>2, <2>3
<1>6. \A e \in fc.create, c \in V : ~SameRecord(e, c)
  BY <1>1, <1>3 DEF SameRecord
<1>7. Unique(V) => Unique(fc.updateNew)
  BY <1>1, <1>2 DEF Unique
<1>8. \A e \in fc.create : e.owner = o
  BY <1>3
<1>9. \A x, y \in fc.create \cup fc.updateNew :
          x.key = y.key /\ x.type = "CNAME" => y.type = "CNAME"
  <2>1. \A x \in fc.create \cup fc.updateNew : In(x, ch.create \cup ch.updateNew)
    BY <1>2, <1>3 DEF In, SameRecord
  <2> QED
    BY <1>1, <2>1 DEF In, SameRecord
<1>10. MayApply(o, V, fc)
  BY <1>1, <1>2, <1>4, <1>5, <1>6, <1>7, <1>8, <1>9 DEF MayApply
<1> QED
  BY <1>1, <1>2, <1>3, <1>10 DEF fc

\* Changes that may be applied stay so when the process forgets what they leave alone.
LEMMA MayApplyForgotten ==
    ASSUME NEW o, NEW V, NEW fc, MayApply(o, V, fc), Unique(V)
    PROVE  MayApply(o, fc.updateOld \cup fc.delete, fc) /\ Unique(fc.updateOld \cup fc.delete)
  BY DEF MayApply, Unique

-----------------------------------------------------------------------------
(***************************************************************************)
(* The records cache.                                                      *)
(***************************************************************************)

\* addToCache and removeFromCache, as both registries use them.
Patched(c, fc) ==
    {e \in c \cup fc.create : ~Matches(e, fc.delete \cup fc.updateOld)} \cup fc.updateNew

\* The cache that ApplyChanges leaves, if it was what Records returned: new records
\* are in it, changed ones in their new version and deleted ones not at all.
LEMMA PatchedCache ==
    ASSUME NEW o, NEW V, NEW fc, MayApply(o, V, fc), Unique(V)
    PROVE  /\ Unique(Patched(V, fc))
           /\ fc.create \subseteq Patched(V, fc)
           /\ fc.updateNew \subseteq Patched(V, fc)
           /\ \A e \in V : ~In(e, fc.delete \cup fc.updateOld) => e \in Patched(V, fc)
           /\ \A e \in Patched(V, fc) :
                  \/ e \in fc.create \cup fc.updateNew
                  \/ e \in V /\ ~In(e, fc.delete \cup fc.updateOld)
<1>1. /\ \A e \in fc.create, c \in V : ~SameRecord(e, c)
      /\ Unique(fc.create)
      /\ fc.updateOld \subseteq V /\ fc.delete \subseteq V
      /\ \A n \in fc.updateNew : \E c \in fc.updateOld : SameRecord(n, c)
      /\ Unique(fc.updateNew)
  BY DEF MayApply
<1>2. \A e \in V : In(e, fc.delete \cup fc.updateOld) <=> Matches(e, fc.delete \cup fc.updateOld)
  BY <1>1 DEF In, Matches, Unique
<1>3. \A e \in Patched(V, fc) : \/ e \in fc.updateNew
                                \/ e \in fc.create
                                \/ e \in V /\ ~In(e, fc.delete \cup fc.updateOld)
  BY <1>2 DEF Patched
<1>4. fc.create \subseteq Patched(V, fc)
  BY <1>1 DEF Patched, Matches
<1>5. \A n \in fc.updateNew :
          /\ \A e \in fc.create : ~SameRecord(n, e)
          /\ \A e \in V : ~In(e, fc.delete \cup fc.updateOld) => ~SameRecord(n, e)
  BY <1>1 DEF In, SameRecord
<1>6. ASSUME NEW x \in Patched(V, fc), NEW y \in Patched(V, fc), SameRecord(x, y)
      PROVE  x = y
  <2>1. SameRecord(y, x)
    BY <1>6 DEF SameRecord
  <2>2. CASE x \in fc.updateNew
    BY <1>1, <1>3, <1>5, <1>6, <2>2 DEF Unique
  <2>3. CASE y \in fc.updateNew
    BY <1>1, <1>3, <1>5, <1>6, <2>1, <2>3 DEF Unique
  <2>4. CASE x \notin fc.updateNew /\ y \notin fc.updateNew
    BY <1>1, <1>3, <1>6, <2>1, <2>4 DEF Unique
  <2> QED
    BY <2>2, <2>3, <2>4
<1>7. /\ fc.updateNew \subseteq Patched(V, fc)
      /\ \A e \in V : ~In(e, fc.delete \cup fc.updateOld) => e \in Patched(V, fc)
  BY <1>2 DEF Patched
<1> QED
  BY <1>3, <1>4, <1>6, <1>7 DEF Unique

-----------------------------------------------------------------------------
(***************************************************************************)
(* The provider.                                                           *)
(***************************************************************************)

\* What the provider makes of a zone.
LEMMA AppliedZone ==
    ASSUME NEW Z \in SUBSET Record, NEW ch \in Changes
    PROVE  /\ Applied(Z, RecordBatch(ch)) \subseteq Record
           /\ \A e \in Endpoint : Stored(e) \in Record /\ SameRecord(Stored(e), e)
<1>1. \A e \in Endpoint : Stored(e) \in Record /\ SameRecord(Stored(e), e)
  BY DEF Stored, Endpoint, Record, SameRecord
<1>2. ch.create \subseteq Endpoint /\ ch.updateNew \subseteq Endpoint
  BY DEF Changes
<1>3. RecordBatch(ch).create \subseteq Record /\ RecordBatch(ch).updateNew \subseteq Record
  BY <1>1, <1>2 DEF RecordBatch
<1> QED
  BY <1>1, <1>3 DEF Applied

\* A batch leaves one record per name and type.
LEMMA BatchUnique ==
    ASSUME NEW S, NEW b, Unique(S), Unique(b.create), Unique(b.updateNew),
           \A e \in b.create : ~In(e, b.updateNew)
    PROVE  Unique(Applied(S, b))
<1>1. \A e \in S : ~In(e, b.create \cup b.updateNew \cup b.delete) =>
          ~In(e, b.create) /\ ~In(e, b.updateNew)
  BY DEF In
<1> QED
  BY <1>1 DEF Applied, Unique, In, SameRecord

\* So do the records of a set of changes.
LEMMA AppliedUnique ==
    ASSUME NEW Z \in SUBSET Record, NEW ch \in Changes,
           Unique(Z), Unique(ch.create), Unique(ch.updateNew),
           validateChangeBatch(Z, RecordBatch(ch))
    PROVE  Unique(Applied(Z, RecordBatch(ch)))
<1> DEFINE b == RecordBatch(ch)
<1>1. \A e \in Endpoint : SameRecord(Stored(e), e)
  BY AppliedZone
<1>2. ch.create \subseteq Endpoint /\ ch.updateNew \subseteq Endpoint
  BY DEF Changes
<1>3. b.create = {Stored(e) : e \in ch.create} /\ b.updateNew = {Stored(e) : e \in ch.updateNew}
  BY DEF RecordBatch
<1>4. \A e \in b.create : ~In(e, b.updateNew)
  BY DEF validateChangeBatch, In
<1> HIDE DEF b
<1>5. Unique(b.create)
  BY <1>1, <1>2, <1>3 DEF Unique, SameRecord
<1>6. Unique(b.updateNew)
  BY <1>1, <1>2, <1>3 DEF Unique, SameRecord
<1>7. Unique(Applied(Z, b))
  BY <1>4, <1>5, <1>6, BatchUnique
<1> QED
  BY <1>7 DEF b

\* Everything a batch changes in the zone is about a record of its lists.
LEMMA AppliedDifference ==
    ASSUME NEW Z \in SUBSET Record, NEW ch \in Changes,
           NEW r \in (Z \ Applied(Z, RecordBatch(ch))) \cup (Applied(Z, RecordBatch(ch)) \ Z)
    PROVE  In(r, ch.create \cup ch.updateNew \cup ch.delete)
<1> DEFINE b == RecordBatch(ch)
<1>1. \A e \in Endpoint : SameRecord(Stored(e), e)
  BY AppliedZone
<1>2. ch.create \subseteq Endpoint /\ ch.updateNew \subseteq Endpoint /\ ch.delete \subseteq Endpoint
  BY DEF Changes
<1>3. \A x \in b.create \cup b.updateNew \cup b.delete :
          In(x, ch.create \cup ch.updateNew \cup ch.delete)
  BY <1>1, <1>2 DEF RecordBatch, In
<1> HIDE DEF b
<1>4. In(r, b.create \cup b.updateNew \cup b.delete)
  <2>1. r \in (Z \ Applied(Z, b)) \cup (Applied(Z, b) \ Z)
    BY DEF b
  <2> QED
    BY <2>1 DEF Applied, In, SameRecord
<1> QED
  BY <1>3, <1>4 DEF In, SameRecord

=============================================================================
