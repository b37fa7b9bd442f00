----------------------------- MODULE TXTProofs -----------------------------
(***************************************************************************)
(* Proofs about TXTRegistry, for any number of processes, records, faults  *)
(* and edits and for all policies.                                         *)
(***************************************************************************)
EXTENDS TXTRegistry, PlanProofs

\* What ApplyChanges of instance i is about to submit ...
Filtered(i) == filteredChanges(i, changes[i])

Concerned(fc) == fc.create \cup fc.updateOld \cup fc.updateNew \cup fc.delete

\* ... and what it still knows of the records it planned with: all of them, as long
\* as they are cached.
Basis(i) == IF fresh[i] THEN cache[i] ELSE Filtered(i).updateOld \cup Filtered(i).delete

\* A record of which a source or the zone at the start has one with the same name
\* and type, and the same name of its ownership record.
Known(x) == \E e \in Desirable \cup InitZone : SameRecord(x, e) /\ TXTType(x) = TXTType(e)

\* The invariant of a process: no record is known twice, a plan made from the cache
\* is about the cache, and what is about to be submitted is a plan for records that
\* are known.
ProcessInv(i) ==
    /\ Unique(cache[i])
    /\ Unique(view[i])
    /\ pc[i] = "planning" /\ fresh[i] => view[i] = cache[i]
    /\ ~fresh[i] => cache[i] = {}
    /\ \A e \in cache[i] \cup view[i] : Known(e)
    /\ pc[i] = "applying" => /\ MayApply(i, Basis(i), Filtered(i))
                             /\ Unique(Basis(i))
                             /\ \A e \in Concerned(Filtered(i)) : Known(e)

\* The invariant of the registry: no record and no ownership record is in the zone
\* twice.
RegistryInv ==
    /\ TypeOK
    /\ Unique(zone)
    /\ Unique(txts)
    /\ \A r \in zone : Known(r)
    /\ \A i \in Instances : ProcessInv(i)

\* The records that i owns, as Records would return them now.
OwnedBy(i) == FilterEndpointsByOwnerID(i, Labelling(i, zone, txts))

\* What i knows of its own records is what there is.
AccurateInv(i) ==
    /\ fresh[i] => FilterEndpointsByOwnerID(i, cache[i]) = OwnedBy(i)
    /\ pc[i] = "planning" =>
           /\ FilterEndpointsByOwnerID(i, view[i]) = OwnedBy(i)
           /\ \A x \in existing[i] : \E e \in view[i] : x = <<e.key, TXTType(e)>>
    /\ pc[i] = "applying" =>
           /\ Filtered(i).updateOld \cup Filtered(i).delete \subseteq OwnedBy(i)
           /\ \A e \in Filtered(i).create : <<e.key, TXTType(e)>> \notin existing[i]

\* Every ownership record has its record, and every record that was not there at the
\* start its ownership record.
PairedInv ==
    /\ \A x \in txts : /\ x.type # Legacy
                       /\ \E r \in zone : r.key = x.key /\ TXTType(r) = x.type
    /\ \A r \in zone :
           \/ In(r, InitZone)
           \/ \E x \in txts : /\ x.key = r.key /\ x.type = TXTType(r)
                              /\ x.targets.owner \in Instances

\* The invariant without faults.
FaultFreeInv == faults = 0 => PairedInv /\ \A i \in Instances : AccurateInv(i)

-----------------------------------------------------------------------------
(***************************************************************************)
(* The registry's operators.                                               *)
(***************************************************************************)

\* An owner identifier of this instance is never migrated to another one.
LEMMA MigratedOwn ==
    ASSUME NEW i
    PROVE  Migrated(i, i) = i
  BY DEF Migrated

\* Records returns endpoints, under the names of the records and of their TXTs.
LEMMA LabelledType ==
    ASSUME NEW i \in Instances, NEW T \in SUBSET TXT, NEW r \in Record
    PROVE  /\ Labelled(i, T, r) \in Endpoint
           /\ SameRecord(Labelled(i, T, r), r)
           /\ TXTType(Labelled(i, T, r)) = TXTType(r)
<1> DEFINE l == LabelsOf(T, r)
           o == Migrated(i, l.owner)
           p == IF NeedsTXT(i, o, T, r) THEN r.props \cup {ForceUpdate} ELSE r.props
<1>1. l \in Label
  <2> DEFINE new == {x \in T : x.key = r.key /\ x.type = TXTType(r)}
             old == {x \in T : x.key = r.key /\ x.type = Legacy /\ r.type # "AAAA"}
  <2>1. new # {} => (CHOOSE x \in new : TRUE) \in TXT
    OBVIOUS
  <2>2. old # {} => (CHOOSE x \in old : TRUE) \in TXT
    OBVIOUS
  <2>3. [owner |-> NoOwner, resource |-> NoResource] \in Label
    BY DEF Label
  <2>4. l = IF new # {} THEN (CHOOSE x \in new : TRUE).targets
            ELSE IF old # {} THEN (CHOOSE x \in old : TRUE).targets
            ELSE [owner |-> NoOwner, resource |-> NoResource]
    BY DEF LabelsOf
  <2>5. \A x \in TXT : x.targets \in Label
    BY DEF TXT
  <2> QED
    BY <2>1, <2>2, <2>3, <2>4, <2>5
<1> HIDE DEF l
<1>2. o \in Owners \cup {NoOwner} /\ l.resource \in Resources \cup {NoResource}
  BY <1>1, TXTAssumption DEF Label, Migrated
<1>3. p \in SUBSET Properties /\ ("alias" \in p <=> "alias" \in r.props)
  BY TXTAssumption DEF Record, ForceUpdate
<1>4. Labelled(i, T, r) =
          [key |-> r.key, type |-> r.type, targets |-> r.targets, ttl |-> r.ttl,
           props |-> p, owner |-> o, resource |-> l.resource]
  BY DEF Labelled, l
<1> HIDE DEF o, p
<1> QED
  BY <1>2, <1>3, <1>4 DEF Record, Endpoint, SameRecord, TXTType

\* An endpoint, the record that is stored of it and the endpoint of an owner have
\* the same TXT name.
LEMMA SameNames ==
    ASSUME NEW e \in Endpoint
    PROVE  /\ Stored(e) \in Record /\ SameRecord(Stored(e), e) /\ TXTType(Stored(e)) = TXTType(e)
           /\ \A o : /\ SameRecord([e EXCEPT !.owner = o], e)
                     /\ TXTType([e EXCEPT !.owner = o]) = TXTType(e)
  BY DEF Stored, Endpoint, Record, SameRecord, TXTType

\* The ownership record of an endpoint.
LEMMA GeneratedTXT ==
    ASSUME NEW i \in Instances, NEW e \in Endpoint
    PROVE  /\ generateTXTRecord(i, e) \in TXT
           /\ generateTXTRecord(i, e).key = e.key
           /\ generateTXTRecord(i, e).type = TXTType(e)
           /\ e.owner = i => generateTXTRecord(i, e).targets.owner = i
           /\ generateTXTRecord(i, e).targets.resource = e.resource
<1>1. Migrated(i, e.owner) \in Owners \cup {NoOwner}
  BY TXTAssumption DEF Endpoint, Migrated
<1>2. e.key \in Keys /\ TXTType(e) \in RecordTypes /\ e.resource \in Resources \cup {NoResource}
  BY TXTAssumption DEF Endpoint, TXTType
<1> QED
  BY <1>1, <1>2, MigratedOwn DEF generateTXTRecord, TXT, Label

\* What ApplyChanges sends to the provider for the TXTs: one per name, since a CNAME
\* is not planned beside an alias, whose TXT has the same name.
LEMMA BatchOfTXTs ==
    ASSUME NEW i \in Instances, NEW ex, NEW V, NEW fc, MayApply(i, V, fc), Unique(V)
    PROVE  LET b == TXTBatch(i, ex, fc)
           IN  /\ b.create \subseteq TXT /\ b.updateNew \subseteq TXT
               /\ Unique(b.create) /\ Unique(b.updateNew)
<1> DEFINE b == TXTBatch(i, ex, fc)
           gen(e) == generateTXTRecord(i, e)
<1>1. /\ fc.create \subseteq Endpoint /\ fc.updateNew \subseteq Endpoint
      /\ Unique(fc.create) /\ Unique(fc.updateNew)
      /\ \A x, y \in fc.create \cup fc.updateNew :
             x.key = y.key /\ x.type = "CNAME" => y.type = "CNAME"
  BY DEF MayApply, Changes
<1>2. \A e \in Endpoint : gen(e) \in TXT /\ gen(e).key = e.key /\ gen(e).type = TXTType(e)
  BY GeneratedTXT
<1>3. \A x \in b.create : \E e \in fc.create : x = gen(e)
  BY DEF TXTBatch
<1>4. \A x \in b.updateNew : \E e \in fc.updateNew : x = gen(e)
  BY DEF TXTBatch
<1> HIDE DEF b, gen
<1>5. \A e, f \in fc.create \cup fc.updateNew :
          SameRecord(gen(e), gen(f)) => SameRecord(e, f)
  <2> SUFFICES ASSUME NEW e \in fc.create \cup fc.updateNew,
                      NEW f \in fc.create \cup fc.updateNew,
                      e.key = f.key, TXTType(e) = TXTType(f)
               PROVE  e.type = f.type
    BY <1>1, <1>2 DEF SameRecord
  <2> QED
    BY <1>1 DEF TXTType
<1>6. Unique(b.create)
  BY <1>1, <1>3, <1>5 DEF Unique
<1>7. Unique(b.updateNew)
  BY <1>1, <1>4, <1>5 DEF Unique
<1>8. b.create \subseteq TXT /\ b.updateNew \subseteq TXT
  BY <1>1, <1>2, <1>3, <1>4
<1> QED
  BY <1>6, <1>7, <1>8 DEF b

-----------------------------------------------------------------------------
(***************************************************************************)
(* The steps.                                                              *)
(***************************************************************************)

\* The steps of instance i.
Step(i) ==
    \/ RecordsFromCache(i) \/ RecordsFromZone(i) \/ PlanChanges(i) \/ ApplyChanges(i)
    \/ ApplyChangesRejected(i) \/ ApplyChangesFailsSoftly(i) \/ Kill(i) \/ Restart(i)
    \/ CacheExpires(i) \/ SourceChanges(i)

LEMMA NextSteps == Next <=> (\E i \in Instances : Step(i)) \/ ThirdPartyEdits
  BY Zenon DEF Next, Step

\* A step leaves alone what process j remembers.
Untouched(j) ==
    /\ pc'[j] = pc[j]
    /\ view'[j] = view[j]
    /\ changes'[j] = changes[j]
    /\ fresh'[j] = fresh[j]
    /\ cache'[j] = cache[j]
    /\ existing'[j] = existing[j]

\* Then its invariant is kept.
LEMMA UntouchedInv ==
    ASSUME NEW j \in Instances, ProcessInv(j), Untouched(j)
    PROVE  ProcessInv(j)'
<1>1. Basis(j)' = Basis(j) /\ Filtered(j)' = Filtered(j)
  BY DEF Untouched, Basis, Filtered
<1> QED
  BY <1>1 DEF Untouched, ProcessInv

\* Only ApplyChanges of i changes the zone, and i changes nobody else's memory.
LEMMA StepFrame ==
    ASSUME TypeOK, NEW i \in Instances, Step(i)
    PROVE  /\ ApplyChanges(i) \/ (zone' = zone /\ txts' = txts)
           /\ \A j \in Instances \ {i} : Untouched(j)
           /\ faults' = faults \/ faults' = faults + 1
           /\ pc[i] = "planning" /\ pc'[i] = "applying" => PlanChanges(i)
<1> USE DEF TypeOK, Untouched
<1>1. CASE RecordsFromCache(i) \/ RecordsFromZone(i)
  BY <1>1 DEF RecordsFromCache, RecordsFromZone
<1>2. CASE PlanChanges(i)
  BY <1>2 DEF PlanChanges
<1>3. CASE ApplyChanges(i)
  BY <1>3 DEF ApplyChanges, UpdateCache
<1>4. CASE ApplyChangesRejected(i) \/ Kill(i)
  BY <1>4 DEF ApplyChangesRejected, Kill, Forget
<1>5. CASE ApplyChangesFailsSoftly(i)
  BY <1>5 DEF ApplyChangesFailsSoftly, UpdateCache
<1>6. CASE Restart(i) \/ CacheExpires(i) \/ SourceChanges(i)
  BY <1>6 DEF Restart, CacheExpires, SourceChanges
<1> QED
  BY <1>1, <1>2, <1>3, <1>4, <1>5, <1>6 DEF Step

\* What the planner and the owner filter of ApplyChanges make of known records.
LEMMA FilteredChanges ==
    ASSUME NEW i \in Instances, NEW V \in SUBSET Endpoint, NEW S \in SUBSET Desirable,
           NEW ch, ch = Calculate(i, OldOwnerID, V, S)
    PROVE  /\ PlannedFor(i, V, S, ch)
           /\ MayApply(i, V, filteredChanges(i, ch))
           /\ (\A e \in V : Known(e)) => \A e \in Concerned(filteredChanges(i, ch)) : Known(e)
<1> DEFINE fc == filteredChanges(i, ch)
<1>1. i \in Owners /\ S \in SUBSET Endpoint /\ \A d \in Desirable : Known(d)
  BY TXTAssumption DEF Known, SameRecord
<1>2. PlannedFor(i, V, S, ch)
  BY <1>1, CalculateChanges
<1>3. filteredChanges(i, ch) = OwnedPlan(i, ch)
  BY DEF filteredChanges, ownedCreates, OwnedPlan
<1>4. /\ MayApply(i, V, fc)
      /\ fc.updateOld = ch.updateOld /\ fc.updateNew = ch.updateNew /\ fc.delete = ch.delete
      /\ \A f \in fc.create : \E e \in S : f = [e EXCEPT !.owner = i]
  BY <1>1, <1>2, <1>3, OwnedPlanApplies
<1> HIDE DEF fc
<1>5. /\ ch.updateOld \subseteq V /\ ch.delete \subseteq V
      /\ \A n \in ch.updateNew : \E c \in ch.updateOld, d \in S : n = inheritOwner(c, d)
  BY <1>2 DEF PlannedFor
<1>6. \A d \in S : \A o : Known([d EXCEPT !.owner = o])
  <2> SUFFICES ASSUME NEW d \in S, NEW o PROVE Known([d EXCEPT !.owner = o])
    OBVIOUS
  <2>1. /\ SameRecord([d EXCEPT !.owner = o], d)
        /\ TXTType([d EXCEPT !.owner = o]) = TXTType(d)
    BY <1>1, SameNames
  <2> QED
    BY <2>1 DEF Known
<1>7. \A f \in fc.create \cup fc.updateNew : Known(f)
  BY <1>4, <1>5, <1>6 DEF inheritOwner
<1>8. (\A e \in V : Known(e)) => \A e \in Concerned(fc) : Known(e)
  BY <1>4, <1>5, <1>7 DEF Concerned
<1> QED
  BY <1>2, <1>4, <1>8 DEF fc

\* Zone, plans and memories keep their types.
LEMMA TypeStep ==
    ASSUME RegistryInv, NEW i \in Instances, Step(i)
    PROVE  TypeOK'
<1>0. TypeOK /\ ProcessInv(i)
  BY DEF RegistryInv
<1> USE DEF TypeOK
<1>1. NoChanges \in Changes /\ CacheRecords \in BOOLEAN
  BY TXTAssumption DEF NoChanges, Changes
<1>2. CASE RecordsFromCache(i)
  BY <1>0, <1>2 DEF RecordsFromCache
<1>3. CASE RecordsFromZone(i)
  <2>1. Labelling(i, zone, txts) \in SUBSET Endpoint
    <3>1. zone \subseteq Record /\ txts \subseteq TXT
      BY <1>0
    <3>2. \A r \in zone : Labelled(i, txts, r) \in Endpoint
      BY <3>1, LabelledType
    <3> QED
      BY <3>2 DEF Labelling
  <2>2. view' \in [Instances -> SUBSET Endpoint]
    BY <1>0, <1>3, <2>1 DEF RecordsFromZone
  <2>3. view'[i] \in SUBSET Endpoint
    BY <2>2
  <2>4. fresh' \in [Instances -> BOOLEAN] /\ cache' \in [Instances -> SUBSET Endpoint]
    BY <1>0, <1>1, <1>3, <2>3 DEF RecordsFromZone
  <2>5. {<<x.key, x.type>> : x \in txts} \in SUBSET (Keys \X (RecordTypes \cup {Legacy}))
    BY <1>0 DEF TXT
  <2>6. existing' \in [Instances -> SUBSET (Keys \X (RecordTypes \cup {Legacy}))]
    BY <1>0, <1>3, <2>5 DEF RecordsFromZone
  <2> QED
    BY <1>0, <1>3, <2>2, <2>4, <2>6 DEF RecordsFromZone
<1>4. CASE PlanChanges(i)
  <2> DEFINE ch == Calculate(i, OldOwnerID, view[i], source[i])
  <2>1. ch \in Changes
    <3>1. view[i] \in SUBSET Endpoint /\ source[i] \in SUBSET Desirable
      BY <1>0
    <3>2. PlannedFor(i, view[i], source[i], ch)
      BY <3>1, FilteredChanges
    <3> HIDE DEF ch
    <3> QED
      BY <3>2 DEF PlannedFor
  <2>2. /\ changes' = [changes EXCEPT ![i] = ch] \/ changes' = changes
        /\ pc' = [pc EXCEPT ![i] = "applying"] \/ pc' = [pc EXCEPT ![i] = "idle"]
    BY <1>4 DEF PlanChanges
  <2> HIDE DEF ch
  <2> QED
    BY <1>0, <1>4, <2>1, <2>2 DEF PlanChanges
<1>5. ASSUME pc[i] = "applying", UpdateCache(i)
      PROVE  cache' \in [Instances -> SUBSET Endpoint]
  <2>1. MayApply(i, Basis(i), Filtered(i))
    BY <1>0, <1>5 DEF ProcessInv
  <2>2. Filtered(i).create \subseteq Endpoint /\ Filtered(i).updateNew \subseteq Endpoint
    BY <2>1 DEF MayApply, Changes
  <2>3. CacheAfter(cache[i], Filtered(i)) \in SUBSET Endpoint
    BY <1>0, <2>2 DEF CacheAfter
  <2> QED
    BY <1>0, <1>5, <2>3 DEF UpdateCache, Filtered
<1>6. CASE ApplyChanges(i)
  <2>1. /\ pc[i] = "applying" /\ UpdateCache(i)
        /\ zone' = Applied(zone, RecordBatch(Filtered(i)))
        /\ txts' = Applied(txts, TXTBatch(i, existing[i], Filtered(i)))
    BY <1>6 DEF ApplyChanges, Filtered
  <2>2. MayApply(i, Basis(i), Filtered(i)) /\ Unique(Basis(i)) /\ Filtered(i) \in Changes
    BY <1>0, <2>1 DEF ProcessInv, MayApply
  <2>3. zone' \subseteq Record
    BY <1>0, <2>1, <2>2, AppliedZone
  <2>4. txts' \subseteq TXT
    <3> DEFINE b == TXTBatch(i, existing[i], Filtered(i))
    <3>1. b.create \subseteq TXT /\ b.updateNew \subseteq TXT
      BY <2>2, BatchOfTXTs
    <3> HIDE DEF b
    <3>2. Applied(txts, b) \subseteq TXT
      BY <1>0, <3>1 DEF Applied
    <3> QED
      BY <2>1, <3>2 DEF b
  <2>5. cache' \in [Instances -> SUBSET Endpoint]
    BY <1>5, <2>1
  <2> QED
    BY <1>0, <1>1, <1>6, <2>3, <2>4, <2>5 DEF ApplyChanges
<1>7. CASE ApplyChangesFailsSoftly(i)
  <2>1. cache' \in [Instances -> SUBSET Endpoint]
    BY <1>5, <1>7 DEF ApplyChangesFailsSoftly
  <2>2. /\ pc' \in [Instances -> {"idle", "planning", "applying", "exited"}]
        /\ changes' \in [Instances -> Changes]
    BY <1>0, <1>1, <1>7 DEF ApplyChangesFailsSoftly
  <2>3. faults' \in Nat
    BY <1>0, <1>7 DEF ApplyChangesFailsSoftly
  <2> QED
    BY <1>0, <1>7, <2>1, <2>2, <2>3 DEF ApplyChangesFailsSoftly
<1>8. CASE ApplyChangesRejected(i)
  BY <1>0, <1>1, <1>8 DEF ApplyChangesRejected, Forget
<1>9. CASE Kill(i)
  BY <1>0, <1>1, <1>9 DEF Kill, Forget
<1>10. CASE Restart(i)
  BY <1>0, <1>10 DEF Restart
<1>11. CASE CacheExpires(i)
  BY <1>0, <1>11 DEF CacheExpires
<1>12. CASE SourceChanges(i)
  BY <1>0, <1>12 DEF SourceChanges, SourceStates
<1> QED
  BY <1>2, <1>3, <1>4, <1>6, <1>7, <1>8, <1>9, <1>10, <1>11, <1>12 DEF Step

-----------------------------------------------------------------------------
(***************************************************************************)
(* The invariant of the registry.                                          *)
(***************************************************************************)

\* A process that knows nothing and plans nothing satisfies its invariant.
LEMMA NothingKnown ==
    ASSUME NEW i \in Instances,
           pc[i] \in {"idle", "exited"}, view[i] = {}, cache[i] = {}
    PROVE  ProcessInv(i)
  BY DEF ProcessInv, Unique

\* Records returns every record once, under a name that is known.
LEMMA RecordsFromZoneInv ==
    ASSUME RegistryInv, NEW i \in Instances, RecordsFromZone(i)
    PROVE  ProcessInv(i)'
<1>0. /\ zone \subseteq Record /\ txts \in SUBSET TXT /\ Unique(zone) /\ \A r \in zone : Known(r)
  BY DEF RegistryInv, TypeOK
<1> DEFINE lab(r) == Labelled(i, txts, r)
<1>1. \A r \in zone : SameRecord(lab(r), r) /\ TXTType(lab(r)) = TXTType(r)
  BY <1>0, LabelledType
<1>2. /\ view'[i] = {lab(r) : r \in zone} /\ pc'[i] = "planning"
      /\ fresh'[i] = CacheRecords
      /\ cache'[i] = IF CacheRecords THEN view'[i] ELSE {}
  BY DEF RecordsFromZone, Labelling, RegistryInv, TypeOK
<1> HIDE DEF lab
<1>3. Unique(view[i])'
  BY <1>0, <1>1, <1>2 DEF Unique, SameRecord
<1>4. \A e \in view'[i] : Known(e)
  BY <1>0, <1>1, <1>2 DEF Known, SameRecord
<1>5. (\A e \in cache[i] \cup view[i] : Known(e))'
  BY <1>2, <1>4
<1> QED
  BY <1>2, <1>3, <1>5, TXTAssumption DEF ProcessInv, Unique

\* The plan is about what Records returned.
LEMMA PlanChangesInv ==
    ASSUME RegistryInv, NEW i \in Instances, PlanChanges(i)
    PROVE  ProcessInv(i)'
<1> DEFINE ch == Calculate(i, OldOwnerID, view[i], source[i])
<1>0. TypeOK /\ ProcessInv(i)
  BY DEF RegistryInv
<1>1. view[i] \in SUBSET Endpoint /\ source[i] \in SUBSET Desirable
  BY <1>0 DEF TypeOK
<1>2. /\ pc[i] = "planning" /\ view'[i] = {} /\ fresh'[i] = fresh[i] /\ cache'[i] = cache[i]
      /\ \/ changes'[i] = ch
         \/ pc'[i] = "idle"
  BY <1>0 DEF PlanChanges, TypeOK
<1> HIDE DEF ch
<1>3. /\ Unique(view[i]) /\ Unique(cache[i])
      /\ fresh[i] => view[i] = cache[i]
      /\ ~fresh[i] => cache[i] = {}
      /\ \A e \in cache[i] \cup view[i] : Known(e)
  BY <1>0, <1>2 DEF ProcessInv
<1>4. /\ Unique(cache[i])' /\ Unique(view[i])'
      /\ (\A e \in cache[i] \cup view[i] : Known(e))'
      /\ ~fresh'[i] => cache'[i] = {}
      /\ pc'[i] # "planning"
  <2>1. Unique({}) /\ pc'[i] \in {"idle", "applying"}
    BY <1>0 DEF Unique, PlanChanges, TypeOK
  <2> QED
    BY <1>2, <1>3, <2>1
<1>5. ASSUME pc'[i] = "applying"
      PROVE  /\ MayApply(i, Basis(i), Filtered(i))'
             /\ Unique(Basis(i))'
             /\ (\A e \in Concerned(Filtered(i)) : Known(e))'
  <2> DEFINE fc == filteredChanges(i, ch)
  <2>1. Filtered(i)' = fc
    BY <1>2, <1>5 DEF Filtered
  <2>2. MayApply(i, view[i], fc) /\ \A e \in Concerned(fc) : Known(e)
    BY <1>1, <1>3, FilteredChanges DEF ch
  <2> HIDE DEF fc
  <2>3. MayApply(i, fc.updateOld \cup fc.delete, fc) /\ Unique(fc.updateOld \cup fc.delete)
    BY <1>3, <2>2, MayApplyForgotten
  <2>4. Basis(i)' = IF fresh[i] THEN view[i] ELSE fc.updateOld \cup fc.delete
    BY <1>2, <1>3, <2>1 DEF Basis
  <2>5. MayApply(i, Basis(i)', fc) /\ Unique(Basis(i)')
    BY <1>3, <2>2, <2>3, <2>4
  <2> QED
    BY <2>1, <2>2, <2>5
<1> QED
  BY <1>4, <1>5 DEF ProcessInv

\* ApplyChanges patches the cache, whether the provider takes the batch or fails
\* softly.
LEMMA UpdateCacheInv ==
    ASSUME RegistryInv, NEW i \in Instances, pc[i] = "applying", UpdateCache(i),
           pc'[i] = "idle", view'[i] = view[i], fresh'[i] = fresh[i]
    PROVE  /\ ProcessInv(i)'
           /\ fresh[i] => cache'[i] = Patched(cache[i], Filtered(i))
<1>0. TypeOK /\ ProcessInv(i)
  BY DEF RegistryInv
<1> DEFINE fc == Filtered(i)
<1>1. /\ MayApply(i, Basis(i), fc) /\ Unique(Basis(i)) /\ \A e \in Concerned(fc) : Known(e)
      /\ Unique(view[i])
      /\ \A e \in cache[i] \cup view[i] : Known(e)
  BY <1>0 DEF ProcessInv
<1>2. cache'[i] = IF fresh[i] THEN Patched(cache[i], fc) ELSE {}
  BY <1>0 DEF UpdateCache, CacheAfter, Patched, Filtered, TypeOK
<1>3. fresh[i] => Basis(i) = cache[i]
  BY DEF Basis
<1> HIDE DEF fc
<1>4. ASSUME fresh[i]
      PROVE  /\ Unique(Patched(cache[i], fc))
             /\ \A e \in Patched(cache[i], fc) : e \in fc.create \cup fc.updateNew \cup cache[i]
  <2>1. MayApply(i, cache[i], fc) /\ Unique(cache[i])
    BY <1>1, <1>3, <1>4
  <2> QED
    BY <2>1, PatchedCache
<1>5. Unique(cache'[i])
  BY <1>2, <1>4 DEF Unique
<1>6. \A e \in cache'[i] \cup view'[i] : Known(e)
  BY <1>1, <1>2, <1>4 DEF Concerned
<1> QED
  BY <1>1, <1>2, <1>5, <1>6 DEF ProcessInv, fc

\* When the cache expires while a plan is under way, the plan stays one for the
\* records that it is about.
LEMMA CacheExpiresInv ==
    ASSUME RegistryInv, NEW i \in Instances, CacheExpires(i)
    PROVE  ProcessInv(i)'
<1>0. TypeOK /\ ProcessInv(i)
  BY DEF RegistryInv
<1>1. /\ fresh[i] /\ fresh'[i] = FALSE /\ cache'[i] = {} /\ pc'[i] = pc[i] /\ view'[i] = view[i]
      /\ changes'[i] = changes[i]
  BY <1>0 DEF CacheExpires, TypeOK
<1>2. Filtered(i)' = Filtered(i) /\ Basis(i) = cache[i]
      /\ Basis(i)' = Filtered(i).updateOld \cup Filtered(i).delete
  BY <1>1 DEF Filtered, Basis
<1>3. ASSUME pc[i] = "applying"
      PROVE  /\ MayApply(i, Basis(i)', Filtered(i)) /\ Unique(Basis(i)')
             /\ \A e \in Concerned(Filtered(i)) : Known(e)
  <2>1. /\ MayApply(i, Basis(i), Filtered(i)) /\ Unique(Basis(i))
        /\ \A e \in Concerned(Filtered(i)) : Known(e)
    BY <1>0, <1>3 DEF ProcessInv
  <2> QED
    BY <1>2, <2>1, MayApplyForgotten
<1>4. /\ Unique(view[i]) /\ \A e \in view[i] : Known(e)
  BY <1>0 DEF ProcessInv
<1>5. Unique({})
  BY DEF Unique
<1> QED
  BY <1>1, <1>2, <1>3, <1>4, <1>5 DEF ProcessInv

\* A step of i keeps the invariant of i.
LEMMA ProcessStep ==
    ASSUME RegistryInv, NEW i \in Instances, Step(i)
    PROVE  ProcessInv(i)'
<1>0. TypeOK /\ ProcessInv(i)
  BY DEF RegistryInv
<1>1. CASE RecordsFromCache(i)
  <2>1. /\ fresh[i] /\ fresh'[i] = fresh[i] /\ view'[i] = cache[i] /\ cache'[i] = cache[i]
        /\ pc'[i] = "planning"
    BY <1>0, <1>1 DEF RecordsFromCache, TypeOK
  <2>2. Unique(cache[i]) /\ \A e \in cache[i] : Known(e)
    BY <1>0 DEF ProcessInv
  <2> QED
    BY <2>1, <2>2 DEF ProcessInv
<1>2. CASE ApplyChangesRejected(i) \/ Kill(i)
  <2>1. pc'[i] = "exited" /\ view'[i] = {} /\ cache'[i] = {}
    BY <1>0, <1>2 DEF ApplyChangesRejected, Kill, Forget, TypeOK
  <2> QED
    BY <2>1 DEF ProcessInv, Unique
<1>3. CASE ApplyChanges(i) \/ ApplyChangesFailsSoftly(i)
  <2>1. /\ pc[i] = "applying" /\ UpdateCache(i) /\ pc'[i] = "idle"
        /\ view'[i] = view[i] /\ fresh'[i] = fresh[i]
    BY <1>0, <1>3 DEF ApplyChanges, ApplyChangesFailsSoftly, TypeOK
  <2> QED
    BY <2>1, UpdateCacheInv
<1>4. CASE Restart(i)
  <2>1. /\ pc'[i] = "idle" /\ view'[i] = view[i] /\ cache'[i] = cache[i] /\ fresh'[i] = fresh[i]
    BY <1>0, <1>4 DEF Restart, TypeOK
  <2> QED
    BY <1>0, <2>1 DEF ProcessInv
<1>5. CASE SourceChanges(i)
  <2>1. Untouched(i)
    BY <1>5 DEF SourceChanges, Untouched
  <2> QED
    BY <1>0, <2>1, UntouchedInv
<1> QED
  BY <1>1, <1>2, <1>3, <1>4, <1>5, RecordsFromZoneInv, PlanChangesInv, CacheExpiresInv DEF Step

\* A batch leaves every record and every ownership record once, and knows the names
\* of what it adds.
LEMMA ApplyChangesZone ==
    ASSUME RegistryInv, NEW i \in Instances, ApplyChanges(i)
    PROVE  /\ Unique(zone)' /\ Unique(txts)'
           /\ (\A r \in zone : Known(r))'
<1> DEFINE fc == Filtered(i)
           b == TXTBatch(i, existing[i], fc)
<1>0. TypeOK /\ Unique(zone) /\ Unique(txts) /\ ProcessInv(i) /\ \A r \in zone : Known(r)
  BY DEF RegistryInv
<1>1. /\ pc[i] = "applying"
      /\ validateChangeBatch(zone, RecordBatch(fc)) /\ validateChangeBatch(txts, b)
      /\ zone' = Applied(zone, RecordBatch(fc)) /\ txts' = Applied(txts, b)
  BY DEF ApplyChanges, Acceptable, Filtered
<1>2. MayApply(i, Basis(i), fc) /\ Unique(Basis(i)) /\ \A e \in Concerned(fc) : Known(e)
  BY <1>0, <1>1 DEF ProcessInv
<1> HIDE DEF fc
<1>3. fc \in Changes /\ Unique(fc.create) /\ Unique(fc.updateNew)
  BY <1>2 DEF MayApply
<1>4. Unique(Applied(zone, RecordBatch(fc)))
  BY <1>0, <1>1, <1>3, AppliedUnique DEF TypeOK
<1>5. Unique(Applied(txts, b))
  <2>1. Unique(b.create) /\ Unique(b.updateNew)
    BY <1>2, BatchOfTXTs
  <2>2. \A e \in b.create : ~In(e, b.updateNew)
    BY <1>1 DEF validateChangeBatch, In
  <2> HIDE DEF b
  <2> QED
    BY <1>0, <2>1, <2>2, BatchUnique
<1>6. \A r \in Applied(zone, RecordBatch(fc)) : Known(r)
  <2>1. \A e \in fc.create \cup fc.updateNew : Known(Stored(e))
    <3> SUFFICES ASSUME NEW e \in fc.create \cup fc.updateNew PROVE Known(Stored(e))
      OBVIOUS
    <3>1. e \in Endpoint /\ Known(e)
      BY <1>2, <1>3 DEF Changes, Concerned
    <3>2. SameRecord(Stored(e), e) /\ TXTType(Stored(e)) = TXTType(e)
      BY <3>1, SameNames
    <3> QED
      BY <3>1, <3>2 DEF Known, SameRecord
  <2>2. \A r \in Applied(zone, RecordBatch(fc)) :
            r \in zone \/ \E e \in fc.create \cup fc.updateNew : r = Stored(e)
    BY DEF Applied, RecordBatch
  <2> QED
    BY <1>0, <2>1, <2>2
<1> QED
  BY <1>1, <1>4, <1>5, <1>6

LEMMA InitInv == Init => RegistryInv
<1> SUFFICES ASSUME Init PROVE RegistryInv
  OBVIOUS
<1>1. TypeOK
  BY TXTAssumption DEF Init, TypeOK, SourceStates, NoChanges, Changes
<1>2. Unique(zone) /\ Unique(txts)
  BY TXTAssumption DEF Init
<1>3. \A r \in zone : Known(r)
  BY DEF Init, Known, SameRecord
<1>4. \A i \in Instances : ProcessInv(i)
  BY NothingKnown DEF Init
<1> QED
  BY <1>1, <1>2, <1>3, <1>4 DEF RegistryInv

\* Somebody else's edits keep the zone one.
LEMMA ThirdPartyInv ==
    ASSUME RegistryInv, ThirdPartyEdits
    PROVE  RegistryInv' /\ \A j \in Instances : Untouched(j)
<1>0. TypeOK /\ Unique(zone) /\ Unique(txts) /\ (\A r \in zone : Known(r))
      /\ \A j \in Instances : ProcessInv(j)
  BY DEF RegistryInv
<1>1. \/ zone' \subseteq zone /\ txts' \subseteq txts
      \/ \E e \in Desirable : ~In(e, zone) /\ zone' = zone \cup {Stored(e)} /\ txts' = txts
  BY DEF ThirdPartyEdits
<1>2. \A e \in Desirable : /\ Stored(e) \in Record /\ SameRecord(Stored(e), e)
                           /\ Known(Stored(e))
  <2> SUFFICES ASSUME NEW e \in Desirable
               PROVE  Stored(e) \in Record /\ SameRecord(Stored(e), e) /\ Known(Stored(e))
    OBVIOUS
  <2>1. /\ Stored(e) \in Record /\ SameRecord(Stored(e), e) /\ TXTType(Stored(e)) = TXTType(e)
    BY TXTAssumption, SameNames
  <2> QED
    BY <2>1 DEF Known
<1>3. zone' \subseteq Record /\ txts' \subseteq TXT /\ faults' \in Nat
  BY <1>0, <1>1, <1>2 DEF TypeOK, ThirdPartyEdits
<1>4. TypeOK'
  BY <1>0, <1>3 DEF TypeOK, ThirdPartyEdits
<1>5. Unique(zone') /\ Unique(txts') /\ \A r \in zone' : Known(r)
  <2>1. CASE zone' \subseteq zone /\ txts' \subseteq txts
    BY <1>0, <2>1 DEF Unique
  <2>2. ASSUME NEW e \in Desirable, ~In(e, zone), zone' = zone \cup {Stored(e)}, txts' = txts
        PROVE  Unique(zone') /\ Unique(txts') /\ \A r \in zone' : Known(r)
    <3>1. \A r \in zone : ~SameRecord(r, Stored(e)) /\ ~SameRecord(Stored(e), r)
      BY <1>2, <2>2 DEF In, SameRecord
    <3> QED
      BY <1>0, <1>2, <2>2, <3>1 DEF Unique
  <2> QED
    BY <1>1, <2>1, <2>2
<1>6. \A j \in Instances : Untouched(j)
  BY DEF ThirdPartyEdits, Untouched
<1> QED
  BY <1>0, <1>4, <1>5, <1>6, UntouchedInv DEF RegistryInv

\* Every step keeps the invariant.
LEMMA NextInv == RegistryInv /\ [Next]_vars => RegistryInv'
<1> SUFFICES ASSUME RegistryInv, [Next]_vars PROVE RegistryInv'
  OBVIOUS
<1>0. TypeOK /\ Unique(zone) /\ Unique(txts) /\ (\A r \in zone : Known(r))
      /\ \A j \in Instances : ProcessInv(j)
  BY DEF RegistryInv
<1>1. CASE UNCHANGED vars
  <2>1. /\ TypeOK' /\ Unique(zone)' /\ Unique(txts)' /\ (\A r \in zone : Known(r))'
    BY <1>0, <1>1 DEF vars, TypeOK
  <2>2. \A j \in Instances : Untouched(j)
    BY <1>1 DEF vars, Untouched
  <2> QED
    BY <1>0, <2>1, <2>2, UntouchedInv DEF RegistryInv
<1>2. ASSUME NEW i \in Instances, Step(i) PROVE RegistryInv'
  <2>1. TypeOK' /\ ProcessInv(i)'
    BY <1>2, TypeStep, ProcessStep
  <2>2. /\ ApplyChanges(i) \/ (zone' = zone /\ txts' = txts)
        /\ \A j \in Instances \ {i} : Untouched(j)
    BY <1>0, <1>2, StepFrame
  <2>3. \A j \in Instances : ProcessInv(j)'
    BY <1>0, <2>1, <2>2, UntouchedInv
  <2>4. Unique(zone)' /\ Unique(txts)' /\ (\A r \in zone : Known(r))'
    <3>1. CASE zone' = zone /\ txts' = txts
      BY <1>0, <3>1
    <3> QED
      BY <2>2, <3>1, ApplyChangesZone
  <2> QED
    BY <2>1, <2>3, <2>4 DEF RegistryInv
<1> QED
  BY <1>1, <1>2, ThirdPartyInv, NextSteps

\* The invariant holds for any number of processes, records, faults and edits, all
\* policies and all providers.
THEOREM RegistryCorrect == Spec => []RegistryInv
  BY InitInv, NextInv, PTL DEF Spec

\* Zone, ownership records, plans and memories keep their types.
THEOREM TypeCorrect == Spec => []TypeOK
<1>1. RegistryInv => TypeOK
  BY DEF RegistryInv
<1> QED
  BY <1>1, RegistryCorrect, PTL

-----------------------------------------------------------------------------
(***************************************************************************)
(* What a plan may contain.                                                *)
(***************************************************************************)

\* The step on which an instance has made a plan with changes.
LEMMA PlannedStep ==
    ASSUME RegistryInv, Next, NEW i \in Instances, pc[i] = "planning", pc'[i] = "applying"
    PROVE  /\ PlannedFor(i, view[i], source[i], changes'[i])
           /\ Unique(view[i])
<1>0. TypeOK /\ ProcessInv(i)
  BY DEF RegistryInv
<1>1. ~ThirdPartyEdits
  BY DEF ThirdPartyEdits
<1>2. PICK j \in Instances : Step(j)
  BY <1>1, NextSteps
<1>3. j = i
  BY <1>0, <1>2, StepFrame DEF Untouched
<1>4. PlanChanges(i)
  BY <1>0, <1>2, <1>3, StepFrame
<1> DEFINE ch == Calculate(i, OldOwnerID, view[i], source[i])
<1>5. changes'[i] = ch
  BY <1>0, <1>4 DEF PlanChanges, TypeOK
<1>6. view[i] \in SUBSET Endpoint /\ source[i] \in SUBSET Desirable
  BY <1>0 DEF TypeOK
<1>7. PlannedFor(i, view[i], source[i], ch)
  BY <1>6, FilteredChanges
<1> HIDE DEF ch
<1> QED
  BY <1>0, <1>5, <1>7 DEF ProcessInv

\* A plan adds nothing to a name under which the instance saw a record that is not
\* its own (appendTakenDNSNameChanges), for all registries' contents and policies.
THEOREM NamesOfOthersLeft == Spec => TakenNamesLeft
<1> DEFINE A == \A i \in Instances : pc[i] = "planning" /\ pc'[i] = "applying" =>
                    \A n \in changes'[i].create : \A e \in view[i] :
                        IsManagedRecord(e.type) /\ e.key = n.key => e.owner = i
<1>1. RegistryInv /\ [Next]_vars => [A]_vars
  <2> SUFFICES ASSUME RegistryInv, Next,
                      NEW i \in Instances, pc[i] = "planning", pc'[i] = "applying"
               PROVE  \A n \in changes'[i].create : \A e \in view[i] :
                          IsManagedRecord(e.type) /\ e.key = n.key => e.owner = i
    OBVIOUS
  <2>1. PlannedFor(i, view[i], source[i], changes'[i])
    BY PlannedStep
  <2> QED
    BY <2>1 DEF PlannedFor
<1> QED
  BY <1>1, RegistryCorrect, PTL DEF Spec, TakenNamesLeft

\* The resource that holds a name keeps it as long as it wants it (ResolveUpdate):
\* Records returns every record once, so that the holder is the one the planner
\* compares with.
THEOREM HoldersKeepTheirNames == Spec => HolderKept
<1> DEFINE A == \A i \in Instances : \A e \in view[i] :
                    /\ pc[i] = "planning" /\ pc'[i] = "applying"
                    /\ \E d \in source[i] : SameRecord(d, e) /\ d.resource = e.resource
                    => \A n \in changes'[i].updateNew : SameRecord(n, e) => n.resource = e.resource
<1>1. RegistryInv /\ [Next]_vars => [A]_vars
  <2> SUFFICES ASSUME RegistryInv, Next, NEW i \in Instances, NEW e \in view[i],
                      pc[i] = "planning", pc'[i] = "applying",
                      \E d \in source[i] : SameRecord(d, e) /\ d.resource = e.resource,
                      NEW n \in changes'[i].updateNew, SameRecord(n, e)
               PROVE  n.resource = e.resource
    OBVIOUS
  <2>1. PlannedFor(i, view[i], source[i], changes'[i]) /\ Unique(view[i])
    BY PlannedStep
  <2>2. PICK c \in changes'[i].updateOld :
            /\ SameRecord(n, c) /\ c \in view[i]
            /\ (\E f \in source[i] : SameRecord(f, c) /\ f.resource = c.resource) =>
                   n.resource = c.resource
    BY <2>1 DEF PlannedFor
  <2>3. c = e
    BY <2>1, <2>2 DEF Unique, SameRecord
  <2> QED
    BY <2>2, <2>3
<1> QED
  BY <1>1, RegistryCorrect, PTL DEF Spec, HolderKept

-----------------------------------------------------------------------------
(***************************************************************************)
(* What a batch may touch.                                                 *)
(***************************************************************************)

\* No source makes an alias of a record that is none elsewhere, or the reverse: the
\* TXT name of a record is always the same.
AliasesKept ==
    \A e, f \in Desirable \cup InitZone : SameRecord(e, f) => TXTType(e) = TXTType(f)

\* Then known records that are the same have the same TXT name.
LEMMA KnownNames ==
    ASSUME AliasesKept, NEW x, NEW y, Known(x), Known(y), SameRecord(x, y)
    PROVE  TXTType(x) = TXTType(y)
<1>1. PICK e \in Desirable \cup InitZone : SameRecord(x, e) /\ TXTType(x) = TXTType(e)
  BY DEF Known
<1>2. PICK f \in Desirable \cup InitZone : SameRecord(y, f) /\ TXTType(y) = TXTType(f)
  BY DEF Known
<1>3. SameRecord(e, f)
  BY <1>1, <1>2 DEF SameRecord
<1> QED
  BY <1>1, <1>2, <1>3 DEF AliasesKept

\* What the provider has checked of a batch when it compares deletions and the old
\* versions of updates with what it has: all its ownership records are there, and
\* they are this instance's.
LEMMA ValidatedTXTs ==
    ASSUME AliasesKept, ProviderChecks = "all",
           NEW i \in Instances, NEW V, NEW fc, MayApply(i, V, fc),
           \A e \in Concerned(fc) : Known(e),
           NEW T, NEW ex, validateChangeBatch(T, TXTBatch(i, ex, fc))
    PROVE  \A e \in fc.updateNew \cup fc.delete :
               \E x \in T : /\ x.key = e.key /\ x.type = TXTType(e)
                            /\ Migrated(i, x.targets.owner) = i
<1> DEFINE b == TXTBatch(i, ex, fc)
<1>1. /\ fc.updateOld \subseteq Endpoint /\ fc.delete \subseteq Endpoint
      /\ \A c \in fc.updateOld \cup fc.delete : c.owner = i
      /\ \A n \in fc.updateNew : \E c \in fc.updateOld : SameRecord(n, c)
  BY DEF MayApply, Changes
<1>2. \A x \in b.updateOld \cup b.delete : Matches(x, T)
  BY DEF validateChangeBatch
<1>3. \A e \in fc.updateOld \cup fc.delete : generateTXTRecord(i, e) \in b.updateOld \cup b.delete
  BY DEF TXTBatch
<1> HIDE DEF b
<1>4. \A e \in fc.updateOld \cup fc.delete :
          \E x \in T : x.key = e.key /\ x.type = TXTType(e) /\ Migrated(i, x.targets.owner) = i
  <2> SUFFICES ASSUME NEW e \in fc.updateOld \cup fc.delete
               PROVE  \E x \in T : /\ x.key = e.key /\ x.type = TXTType(e)
                                   /\ Migrated(i, x.targets.owner) = i
    OBVIOUS
  <2> DEFINE g == generateTXTRecord(i, e)
  <2>1. g.key = e.key /\ g.type = TXTType(e) /\ g.targets.owner = i
    BY <1>1, GeneratedTXT
  <2>2. PICK x \in T : SameRecord(g, x) /\ g.targets = x.targets
    BY <1>2, <1>3 DEF Matches
  <2> HIDE DEF g
  <2>3. x.key = e.key /\ x.type = TXTType(e) /\ x.targets.owner = i
    BY <2>1, <2>2 DEF SameRecord
  <2> QED
    BY <2>3, MigratedOwn
<1>5. ASSUME NEW n \in fc.updateNew
      PROVE  \E c \in fc.updateOld : c.key = n.key /\ TXTType(c) = TXTType(n)
  <2>1. PICK c \in fc.updateOld : SameRecord(n, c)
    BY <1>1
  <2>2. Known(n) /\ Known(c)
    BY <2>1 DEF Concerned
  <2> QED
    BY <2>1, <2>2, KnownNames DEF SameRecord
<1> QED
  BY <1>4, <1>5

\* The step on which an instance's batch has been taken or has failed softly.
LEMMA SubmittedStep ==
    ASSUME RegistryInv, Next, NEW i \in Instances, pc[i] = "applying", pc'[i] = "idle",
           zone' # zone \/ txts' # txts
    PROVE  /\ MayApply(i, Basis(i), Filtered(i))
           /\ \A e \in Concerned(Filtered(i)) : Known(e)
           /\ validateChangeBatch(zone, RecordBatch(Filtered(i)))
           /\ validateChangeBatch(txts, TXTBatch(i, existing[i], Filtered(i)))
           /\ zone' = Applied(zone, RecordBatch(Filtered(i)))
           /\ txts' = Applied(txts, TXTBatch(i, existing[i], Filtered(i)))
<1>0. TypeOK /\ ProcessInv(i)
  BY DEF RegistryInv
<1>1. ~ThirdPartyEdits
  BY DEF ThirdPartyEdits
<1>2. PICK j \in Instances : Step(j)
  BY <1>1, NextSteps
<1>3. j = i
  BY <1>0, <1>2, StepFrame DEF Untouched
<1>4. ApplyChanges(i)
  BY <1>0, <1>2, <1>3, StepFrame
<1>5. MayApply(i, Basis(i), Filtered(i)) /\ \A e \in Concerned(Filtered(i)) : Known(e)
  BY <1>0 DEF ProcessInv
<1> QED
  BY <1>4, <1>5 DEF ApplyChanges, Acceptable, Filtered

\* With a provider that compares what is deleted or updated with what it has, every
\* record that an instance changes or removes has an ownership record of this
\* instance at that moment, for any number of instances and faults and whether the
\* plan was made from the zone or from a cache.  Without AliasesKept this is false: the
\* TXT of a record that becomes an alias takes the name of a CNAME's.
THEOREM ForeignRecordsUntouched ==
    ASSUME AliasesKept, ProviderChecks = "all"
    PROVE  Spec => ForeignUntouched
<1> DEFINE A == \A i \in Instances : pc[i] = "applying" /\ pc'[i] = "idle" =>
                    \A r \in zone : r \notin zone' => \E x \in txts : Claims(i, x, r)
<1>1. RegistryInv /\ [Next]_vars => [A]_vars
  <2> SUFFICES ASSUME RegistryInv, Next,
                      NEW i \in Instances, pc[i] = "applying", pc'[i] = "idle",
                      NEW r \in zone, r \notin zone'
               PROVE  \E x \in txts : Claims(i, x, r)
    OBVIOUS
  <2> DEFINE fc == Filtered(i)
             b == RecordBatch(fc)
  <2>1. /\ MayApply(i, Basis(i), fc) /\ \A e \in Concerned(fc) : Known(e)
        /\ validateChangeBatch(zone, b)
        /\ validateChangeBatch(txts, TXTBatch(i, existing[i], fc))
        /\ zone' = Applied(zone, b)
    BY SubmittedStep
  <2>2. Known(r) /\ zone \in SUBSET Record
    BY DEF RegistryInv, TypeOK
  <2> HIDE DEF fc
  <2>3. fc \in Changes
    BY <2>1 DEF MayApply
  <2>4. In(r, fc.create \cup fc.updateNew \cup fc.delete)
    BY <2>1, <2>2, <2>3, AppliedDifference
  <2>5. ~In(r, fc.create)
    <3>1. \A e \in fc.create : ~In(Stored(e), zone)
      BY <2>1 DEF validateChangeBatch, RecordBatch
    <3>2. \A e \in fc.create : SameRecord(Stored(e), e)
      BY <2>3, AppliedZone DEF Stored, SameRecord
    <3> QED
      BY <3>1, <3>2 DEF In, SameRecord
  <2>6. PICK e \in fc.updateNew \cup fc.delete : SameRecord(r, e)
    BY <2>4, <2>5 DEF In
  <2>7. PICK x \in txts : x.key = e.key /\ x.type = TXTType(e) /\ Migrated(i, x.targets.owner) = i
    BY <2>1, <2>6, ValidatedTXTs
  <2>8. TXTType(e) = TXTType(r)
    BY <2>1, <2>2, <2>6, KnownNames DEF Concerned
  <2> QED
    BY <2>6, <2>7, <2>8 DEF Claims, SameRecord
<1> QED
  BY <1>1, RegistryCorrect, PTL DEF Spec, ForeignUntouched

\* And it changes or removes no ownership record of anybody else.
THEOREM ForeignOwnershipUntouched ==
    ASSUME AliasesKept, ProviderChecks = "all"
    PROVE  Spec => OwnershipUntouched
<1> DEFINE A == \A i \in Instances : pc[i] = "applying" /\ pc'[i] = "idle" =>
                    \A x \in txts : x \notin txts' => Migrated(i, x.targets.owner) = i
<1>1. RegistryInv /\ [Next]_vars => [A]_vars
  <2> SUFFICES ASSUME RegistryInv, Next,
                      NEW i \in Instances, pc[i] = "applying", pc'[i] = "idle",
                      NEW x \in txts, x \notin txts'
               PROVE  Migrated(i, x.targets.owner) = i
    OBVIOUS
  <2> DEFINE fc == Filtered(i)
             b == TXTBatch(i, existing[i], fc)
  <2>1. /\ MayApply(i, Basis(i), fc) /\ \A e \in Concerned(fc) : Known(e)
        /\ validateChangeBatch(txts, b)
        /\ txts' = Applied(txts, b)
    BY SubmittedStep
  <2>2. Unique(txts)
    BY DEF RegistryInv
  <2> HIDE DEF fc
  <2>3. In(x, b.create \cup b.updateNew \cup b.delete)
    <3> HIDE DEF b
    <3> QED
      BY <2>1 DEF Applied
  <2>4. ~In(x, b.create)
    <3>1. \A y \in b.create : ~In(y, txts)
      BY <2>1 DEF validateChangeBatch
    <3> HIDE DEF b
    <3> QED
      BY <3>1 DEF In, SameRecord
  <2>5. PICK y \in b.updateNew \cup b.delete : SameRecord(x, y)
    <3> HIDE DEF b
    <3> QED
      BY <2>3, <2>4 DEF In
  <2>6. PICK e \in fc.updateNew \cup fc.delete : y = generateTXTRecord(i, e)
    BY DEF TXTBatch
  <2>7. e \in Endpoint
    BY <2>1 DEF MayApply, Changes
  <2>8. y.key = e.key /\ y.type = TXTType(e)
    BY <2>6, <2>7, GeneratedTXT
  <2>9. PICK z \in txts : z.key = e.key /\ z.type = TXTType(e) /\ Migrated(i, z.targets.owner) = i
    BY <2>1, <2>6, ValidatedTXTs
  <2>10. z = x
    BY <2>2, <2>5, <2>8, <2>9 DEF Unique, SameRecord
  <2> QED
    BY <2>9, <2>10
<1> QED
  BY <1>1, RegistryCorrect, PTL DEF Spec, OwnershipUntouched

-----------------------------------------------------------------------------
(***************************************************************************)
(* Without faults: records and ownership records stay paired, and every    *)
(* process is right about its own.                                         *)
(***************************************************************************)

\* The names of ownership records tell records apart: under no name are both an
\* alias, whose TXT is named like that of a CNAME, and a CNAME wanted or there at
\* the start.
NamesTellApart ==
    \A e, f \in Desirable \cup InitZone :
        e.key = f.key => (e.type = f.type <=> TXTType(e) = TXTType(f))

\* At the start every ownership record is of the present format and has its record.
StartsPaired ==
    \A x \in InitTXTs : /\ x.type # Legacy
                        /\ \E r \in InitZone : r.key = x.key /\ TXTType(r) = x.type

\* The assumptions of this section: names tell apart, no owner is migrated, the
\* provider refuses to create what is there and to delete what is not.
Separated ==
    /\ NamesTellApart
    /\ StartsPaired
    /\ OldOwnerID = NoOwner
    /\ ProviderChecks # "none"

\* TXT record x is named for record e.
NamedFor(x, e) == x.key = e.key /\ x.type = TXTType(e)

\* Record e of a zone Z with ownership records T is there and belongs to i.
Owned(i, Z, T, e) ==
    /\ e \in Endpoint /\ e.owner = i
    /\ Stored(e) \in Z
    /\ generateTXTRecord(i, e) \in T

LEMMA KnownApart ==
    ASSUME NamesTellApart, NEW x, NEW y, Known(x), Known(y), x.key = y.key
    PROVE  x.type = y.type <=> TXTType(x) = TXTType(y)
<1>1. PICK e \in Desirable \cup InitZone : SameRecord(x, e) /\ TXTType(x) = TXTType(e)
  BY DEF Known
<1>2. PICK f \in Desirable \cup InitZone : SameRecord(y, f) /\ TXTType(y) = TXTType(f)
  BY DEF Known
<1>3. e.key = f.key
  BY <1>1, <1>2 DEF SameRecord
<1> QED
  BY <1>1, <1>2, <1>3 DEF NamesTellApart, SameRecord

\* The labels of a record are those of the one TXT that is named for it.
LEMMA LabelsOfNamed ==
    ASSUME NEW T, Unique(T), NEW r, NEW x \in T, NamedFor(x, r)
    PROVE  LabelsOf(T, r) = x.targets
<1> DEFINE new == {y \in T : y.key = r.key /\ y.type = TXTType(r)}
<1>1. x \in new /\ \A y \in new : y = x
  BY DEF NamedFor, Unique, SameRecord
<1>2. (CHOOSE y \in new : TRUE) = x
  BY <1>1
<1> QED
  BY <1>1, <1>2 DEF LabelsOf

\* Without TXTs of the old format there are no other labels.
LEMMA LabelsOfUnnamed ==
    ASSUME NEW T, \A x \in T : x.type # Legacy, NEW r, ~\E x \in T : NamedFor(x, r)
    PROVE  LabelsOf(T, r).owner = NoOwner
  BY DEF LabelsOf, NamedFor

\* What Records returns as a record of i is what the zone has as a record of i.
LEMMA OwnedRecords ==
    ASSUME OldOwnerID = NoOwner, NEW i \in Instances,
           NEW Z \in SUBSET Record, NEW T \in SUBSET TXT,
           Unique(T), \A x \in T : x.type # Legacy
    PROVE  \A e : e \in FilterEndpointsByOwnerID(i, Labelling(i, Z, T)) <=> Owned(i, Z, T, e)
<1>0. /\ i \in Owners /\ i # NoOwner /\ \A o : Migrated(i, o) = o
  BY TXTAssumption, PlanAssumption DEF Migrated
<1>1. ASSUME NEW r \in Z, NEW x \in T, NamedFor(x, r), x.targets.owner = i
      PROVE  LET e == Labelled(i, T, r)
             IN  /\ e = [key |-> r.key, type |-> r.type, targets |-> r.targets, ttl |-> r.ttl,
                         props |-> r.props, owner |-> i, resource |-> x.targets.resource]
                 /\ e \in Endpoint /\ Stored(e) = r /\ generateTXTRecord(i, e) = x
  <2> DEFINE e == Labelled(i, T, r)
  <2>1. LabelsOf(T, r) = x.targets
    BY <1>1, LabelsOfNamed
  <2>2. ~NeedsTXT(i, i, T, r)
    BY <1>1 DEF NeedsTXT, NamedFor
  <2>3. e = [key |-> r.key, type |-> r.type, targets |-> r.targets, ttl |-> r.ttl,
             props |-> r.props, owner |-> i, resource |-> x.targets.resource]
    BY <1>0, <1>1, <2>1, <2>2 DEF Labelled
  <2>4. e \in Endpoint /\ TXTType(e) = TXTType(r)
    BY LabelledType
  <2> HIDE DEF e
  <2>5. Stored(e) = r
    BY <2>3 DEF Stored, Record
  <2>6. generateTXTRecord(i, e) = [key |-> r.key, type |-> TXTType(r),
                                   targets |-> [owner |-> i, resource |-> x.targets.resource]]
    BY <1>0, <2>3, <2>4 DEF generateTXTRecord
  <2>7. /\ x = [key |-> x.key, type |-> x.type, targets |-> x.targets]
        /\ x.targets = [owner |-> x.targets.owner, resource |-> x.targets.resource]
    BY DEF TXT, Label
  <2>8. generateTXTRecord(i, e) = x
    BY <1>1, <2>6, <2>7 DEF NamedFor
  <2> QED
    BY <2>3, <2>4, <2>5, <2>8 DEF e
<1>2. ASSUME NEW e, e \in FilterEndpointsByOwnerID(i, Labelling(i, Z, T))
      PROVE  Owned(i, Z, T, e)
  <2>1. PICK r \in Z : e = Labelled(i, T, r) /\ e.owner = i
    BY <1>2 DEF FilterEndpointsByOwnerID, Labelling
  <2>2. LabelsOf(T, r).owner = i
    BY <1>0, <2>1 DEF Labelled
  <2>3. PICK x \in T : NamedFor(x, r)
    BY <1>0, <2>2, LabelsOfUnnamed
  <2>4. x.targets.owner = i
    BY <2>2, <2>3, LabelsOfNamed
  <2>5. e \in Endpoint /\ Stored(e) = r /\ generateTXTRecord(i, e) = x
    BY <1>1, <2>1, <2>3, <2>4
  <2> QED
    BY <2>1, <2>5 DEF Owned
<1>3. ASSUME NEW e, Owned(i, Z, T, e)
      PROVE  e \in FilterEndpointsByOwnerID(i, Labelling(i, Z, T))
  <2> DEFINE r == Stored(e)
             x == generateTXTRecord(i, e)
             l == Labelled(i, T, r)
  <2>1. e \in Endpoint /\ e.owner = i /\ r \in Z /\ x \in T
    BY <1>3 DEF Owned
  <2>2. TXTType(r) = TXTType(e) /\ SameRecord(r, e)
    BY <2>1, SameNames
  <2>3. x.key = e.key /\ x.type = TXTType(e) /\ x.targets.owner = i /\ x.targets.resource = e.resource
    BY <2>1, GeneratedTXT
  <2>4. r = [key |-> e.key, type |-> e.type, targets |-> e.targets, ttl |-> e.ttl, props |-> e.props]
    BY DEF Stored
  <2> HIDE DEF r, x
  <2>5. NamedFor(x, r)
    BY <2>2, <2>3 DEF NamedFor, SameRecord
  <2>6. l = [key |-> r.key, type |-> r.type, targets |-> r.targets, ttl |-> r.ttl,
             props |-> r.props, owner |-> i, resource |-> x.targets.resource]
    BY <1>1, <2>1, <2>3, <2>5
  <2>7. e = l
    BY <2>1, <2>3, <2>4, <2>6 DEF Endpoint
  <2>8. l \in Labelling(i, Z, T)
    BY <2>1 DEF Labelling
  <2> QED
    BY <2>1, <2>7, <2>8 DEF FilterEndpointsByOwnerID
<1> QED
  BY <1>2, <1>3

\* A batch, under these assumptions: fc is applied to the zone Z and the TXTs T and
\* leaves Y and U.  Zone and TXTs change together, nothing is created over a record or
\* a TXT, and what is updated or deleted has its TXT and is this instance's.
Together(i, fc, Z, T, Y, U) ==
    /\ \A r \in Y : \/ r \in Z /\ ~In(r, fc.create \cup fc.updateNew \cup fc.delete)
                    \/ \E e \in fc.create \cup fc.updateNew : r = Stored(e)
    /\ \A r \in Z : r \in Y \/ In(r, fc.updateNew \cup fc.delete)
    /\ \A x \in U : \/ /\ x \in T
                       /\ ~\E e \in fc.create \cup fc.updateNew \cup fc.delete : NamedFor(x, e)
                    \/ \E e \in fc.create \cup fc.updateNew : x = generateTXTRecord(i, e)
    /\ \A x \in T : x \in U \/ \E e \in fc.updateNew \cup fc.delete : NamedFor(x, e)
    /\ \A e \in fc.create \cup fc.updateNew : Stored(e) \in Y /\ generateTXTRecord(i, e) \in U
    /\ \A e \in fc.create : ~In(e, Z) /\ ~\E x \in T : NamedFor(x, e)
    /\ \A e \in fc.updateNew \cup fc.delete : \E c \in fc.updateOld \cup fc.delete :
           SameRecord(e, c) /\ TXTType(e) = TXTType(c) /\ Owned(i, Z, T, c)

LEMMA ApplyTogether ==
    ASSUME Separated, RegistryInv, PairedInv, NEW i \in Instances, AccurateInv(i), ApplyChanges(i)
    PROVE  /\ Together(i, Filtered(i), zone, txts, zone', txts')
           /\ MayApply(i, Basis(i), Filtered(i)) /\ Unique(Basis(i))
           /\ \A e \in Concerned(Filtered(i)) : Known(e)
<1> DEFINE fc == Filtered(i)
           rb == RecordBatch(fc)
           tb == TXTBatch(i, existing[i], fc)
           gen(e) == generateTXTRecord(i, e)
<1>0. TypeOK /\ ProcessInv(i) /\ Unique(txts) /\ \A x \in txts : x.type # Legacy
  BY DEF RegistryInv, PairedInv
<1>1. /\ pc[i] = "applying"
      /\ validateChangeBatch(zone, rb) /\ validateChangeBatch(txts, tb)
      /\ zone' = Applied(zone, rb) /\ txts' = Applied(txts, tb)
  BY DEF ApplyChanges, Acceptable, Filtered
<1>2. /\ MayApply(i, Basis(i), fc) /\ Unique(Basis(i)) /\ \A e \in Concerned(fc) : Known(e)
      /\ fc.updateOld \cup fc.delete \subseteq OwnedBy(i)
      /\ \A e \in fc.create : <<e.key, TXTType(e)>> \notin existing[i]
  BY <1>0, <1>1 DEF ProcessInv, AccurateInv
<1> HIDE DEF fc
<1>3. /\ fc \in Changes
      /\ fc.create \subseteq Endpoint /\ fc.updateOld \subseteq Endpoint
      /\ fc.updateNew \subseteq Endpoint /\ fc.delete \subseteq Endpoint
      /\ \A n \in fc.updateNew : \E c \in fc.updateOld : SameRecord(n, c)
  BY <1>2 DEF MayApply, Changes
<1>4. \A e \in Endpoint : /\ SameRecord(Stored(e), e)
                          /\ gen(e).key = e.key /\ gen(e).type = TXTType(e)
  BY SameNames, GeneratedTXT
<1>5. /\ rb.create = {Stored(e) : e \in fc.create}
      /\ rb.updateNew = {Stored(e) : e \in fc.updateNew}
      /\ rb.delete = {Stored(e) : e \in fc.delete}
  BY DEF RecordBatch
<1>6. /\ tb.create = {gen(e) : e \in fc.create}
      /\ tb.updateNew = {gen(e) : e \in fc.updateNew}
      /\ tb.delete = {gen(e) : e \in fc.delete}
  <2>1. \A e \in fc.create : <<gen(e).key, gen(e).type>> \notin existing[i]
    BY <1>2, <1>3, <1>4
  <2> HIDE DEF gen
  <2> QED
    BY <2>1 DEF TXTBatch, gen
<1>7. /\ \A e \in rb.create : ~In(e, zone)
      /\ \A x \in tb.create : ~In(x, txts)
  BY <1>1 DEF validateChangeBatch, Separated
<1> HIDE DEF rb, tb, gen
<1>8. \A r : /\ In(r, rb.create) <=> In(r, fc.create)
             /\ In(r, rb.updateNew) <=> In(r, fc.updateNew)
             /\ In(r, rb.delete) <=> In(r, fc.delete)
  BY <1>3, <1>4, <1>5 DEF In, SameRecord
<1>9. \A x : /\ In(x, tb.create) <=> \E e \in fc.create : NamedFor(x, e)
             /\ In(x, tb.updateNew) <=> \E e \in fc.updateNew : NamedFor(x, e)
             /\ In(x, tb.delete) <=> \E e \in fc.delete : NamedFor(x, e)
  BY <1>3, <1>4, <1>6 DEF In, SameRecord, NamedFor
<1>10. \A e \in fc.create : ~In(e, zone) /\ ~\E x \in txts : NamedFor(x, e)
  <2>1. \A e \in fc.create : ~In(e, zone)
    BY <1>3, <1>4, <1>5, <1>7 DEF In, SameRecord
  <2>2. \A e \in fc.create : ~\E x \in txts : NamedFor(x, e)
    BY <1>3, <1>4, <1>6, <1>7 DEF In, SameRecord, NamedFor
  <2> QED
    BY <2>1, <2>2
<1>11. /\ \A r \in zone' : \/ r \in zone /\ ~In(r, rb.create \cup rb.updateNew \cup rb.delete)
                           \/ r \in rb.create \cup rb.updateNew
       /\ \A r \in zone : r \in zone' \/ In(r, rb.create \cup rb.updateNew \cup rb.delete)
       /\ rb.create \cup rb.updateNew \subseteq zone'
  BY <1>1 DEF Applied
<1>12. /\ \A x \in txts' : \/ x \in txts /\ ~In(x, tb.create \cup tb.updateNew \cup tb.delete)
                           \/ x \in tb.create \cup tb.updateNew
       /\ \A x \in txts : x \in txts' \/ In(x, tb.create \cup tb.updateNew \cup tb.delete)
       /\ tb.create \cup tb.updateNew \subseteq txts'
  BY <1>1 DEF Applied
<1>13. \A x, A, B, C : In(x, A \cup B \cup C) <=> In(x, A) \/ In(x, B) \/ In(x, C)
  BY DEF In
<1>14. /\ \A r \in zone' :
              \/ r \in zone /\ ~In(r, fc.create \cup fc.updateNew \cup fc.delete)
              \/ \E e \in fc.create \cup fc.updateNew : r = Stored(e)
       /\ \A r \in zone : r \in zone' \/ In(r, fc.updateNew \cup fc.delete)
  <2>1. \A r \in zone : ~In(r, fc.create)
    BY <1>10 DEF In, SameRecord
  <2>2. \A r \in zone : r \in zone' \/ In(r, fc.updateNew \cup fc.delete)
    BY <1>8, <1>11, <1>13, <2>1 DEF In
  <2> QED
    BY <1>5, <1>8, <1>11, <1>13, <2>2
<1>15. /\ \A x \in txts' :
              \/ /\ x \in txts
                 /\ ~\E e \in fc.create \cup fc.updateNew \cup fc.delete : NamedFor(x, e)
              \/ \E e \in fc.create \cup fc.updateNew : x = gen(e)
       /\ \A x \in txts : x \in txts' \/ \E e \in fc.updateNew \cup fc.delete : NamedFor(x, e)
  <2>1. \A x \in tb.create \cup tb.updateNew : \E e \in fc.create \cup fc.updateNew : x = gen(e)
    BY <1>6
  <2>2. \A x : In(x, tb.create \cup tb.updateNew \cup tb.delete) <=>
               \E e \in fc.create \cup fc.updateNew \cup fc.delete : NamedFor(x, e)
    BY <1>9, <1>13
  <2>3. \A x \in txts : ~\E e \in fc.create : NamedFor(x, e)
    BY <1>10
  <2> QED
    BY <1>12, <2>1, <2>2, <2>3
<1>16. \A e \in fc.create \cup fc.updateNew : Stored(e) \in zone' /\ gen(e) \in txts'
  BY <1>5, <1>6, <1>11, <1>12
<1>17. \A c \in fc.updateOld \cup fc.delete : Owned(i, zone, txts, c)
  BY <1>0, <1>2, OwnedRecords DEF OwnedBy, TypeOK, Separated
<1>18. \A e \in fc.updateNew \cup fc.delete : \E c \in fc.updateOld \cup fc.delete :
           SameRecord(e, c) /\ TXTType(e) = TXTType(c) /\ Owned(i, zone, txts, c)
  <2>1. ASSUME NEW e \in fc.delete
        PROVE  SameRecord(e, e)
    BY DEF SameRecord
  <2>2. ASSUME NEW n \in fc.updateNew
        PROVE  \E c \in fc.updateOld : SameRecord(n, c) /\ TXTType(n) = TXTType(c)
    <3>1. PICK c \in fc.updateOld : SameRecord(n, c)
      BY <1>3
    <3>2. Known(n) /\ Known(c)
      BY <1>2, <3>1 DEF Concerned
    <3> QED
      BY <3>1, <3>2, KnownApart DEF SameRecord, Separated
  <2> QED
    BY <1>17, <2>1, <2>2
<1> QED
  BY <1>2, <1>10, <1>14, <1>15, <1>16, <1>18 DEF Together, fc, gen

\* Records and ownership records are created, updated and deleted together.
LEMMA ApplyKeepsPaired ==
    ASSUME Separated, RegistryInv, PairedInv, NEW i \in Instances, AccurateInv(i), ApplyChanges(i)
    PROVE  PairedInv'
<1> DEFINE fc == Filtered(i)
           gen(e) == generateTXTRecord(i, e)
<1>1. /\ Together(i, fc, zone, txts, zone', txts')
      /\ MayApply(i, Basis(i), fc)
      /\ \A e \in Concerned(fc) : Known(e)
  BY ApplyTogether
<1>2. /\ \A r \in zone : Known(r)
      /\ \A x \in txts : x.type # Legacy /\ \E r \in zone : NamedFor(x, r)
      /\ \A r \in zone : \/ In(r, InitZone)
                         \/ \E x \in txts : NamedFor(x, r) /\ x.targets.owner \in Instances
  BY DEF RegistryInv, PairedInv, NamedFor
<1> HIDE DEF fc
<1>3. /\ fc.create \subseteq Endpoint /\ fc.updateNew \subseteq Endpoint /\ fc.delete \subseteq Endpoint
      /\ \A e \in fc.create \cup fc.updateNew : e.owner = i
  BY <1>1 DEF MayApply, Changes
<1>4. \A e \in fc.create \cup fc.updateNew :
          /\ SameRecord(Stored(e), e) /\ TXTType(Stored(e)) = TXTType(e)
          /\ gen(e) \in TXT
          /\ gen(e).key = e.key /\ gen(e).type = TXTType(e) /\ gen(e).targets.owner = i
  BY <1>3, SameNames, GeneratedTXT
<1>5. \A e \in Endpoint : TXTType(e) # Legacy
  BY TXTAssumption DEF Endpoint, TXTType, Legacy
<1>6. \A e \in fc.create \cup fc.updateNew : NamedFor(gen(e), Stored(e))
  BY <1>4 DEF NamedFor, SameRecord
<1>7. ASSUME NEW r \in zone, NEW e \in fc.updateNew \cup fc.delete, r.key = e.key
      PROVE  SameRecord(r, e) <=> TXTType(r) = TXTType(e)
  <2>1. Known(r) /\ Known(e)
    BY <1>1, <1>2 DEF Concerned
  <2> QED
    BY <1>7, <2>1, KnownApart DEF Separated, SameRecord
<1>8. ASSUME NEW x \in txts'
      PROVE  x.type # Legacy /\ \E r \in zone' : NamedFor(x, r)
  <2>1. CASE \E e \in fc.create \cup fc.updateNew : x = gen(e)
    <3>1. PICK e \in fc.create \cup fc.updateNew : x = gen(e)
      BY <2>1
    <3>2. Stored(e) \in zone'
      BY <1>1 DEF Together
    <3> QED
      BY <1>3, <1>4, <1>5, <1>6, <3>1, <3>2
  <2>2. CASE x \in txts /\ ~\E e \in fc.create \cup fc.updateNew \cup fc.delete : NamedFor(x, e)
    <3>1. PICK r \in zone : NamedFor(x, r)
      BY <1>2, <2>2
    <3>2. ~In(r, fc.updateNew \cup fc.delete)
      BY <1>7, <2>2, <3>1 DEF In, NamedFor, SameRecord
    <3>3. r \in zone'
      BY <1>1, <3>2 DEF Together
    <3> QED
      BY <1>2, <2>2, <3>1, <3>3
  <2> QED
    BY <1>1, <1>8, <2>1, <2>2 DEF Together
<1>9. ASSUME NEW r \in zone'
      PROVE  \/ In(r, InitZone)
             \/ \E x \in txts' : NamedFor(x, r) /\ x.targets.owner \in Instances
  <2>1. CASE \E e \in fc.create \cup fc.updateNew : r = Stored(e)
    <3>1. PICK e \in fc.create \cup fc.updateNew : r = Stored(e)
      BY <2>1
    <3>2. gen(e) \in txts'
      BY <1>1 DEF Together
    <3> QED
      BY <1>4, <1>6, <3>1, <3>2
  <2>2. CASE r \in zone /\ ~In(r, fc.create \cup fc.updateNew \cup fc.delete)
    <3> SUFFICES ASSUME ~In(r, InitZone)
                 PROVE  \E x \in txts' : NamedFor(x, r) /\ x.targets.owner \in Instances
      OBVIOUS
    <3>1. PICK x \in txts : NamedFor(x, r) /\ x.targets.owner \in Instances
      BY <1>2, <2>2
    <3>2. ~\E e \in fc.updateNew \cup fc.delete : NamedFor(x, e)
      BY <1>7, <2>2, <3>1 DEF In, NamedFor
    <3>3. x \in txts'
      BY <1>1, <3>2 DEF Together
    <3> QED
      BY <3>1, <3>3
  <2> QED
    BY <1>1, <1>9, <2>1, <2>2 DEF Together
<1> QED
  BY <1>8, <1>9 DEF PairedInv, NamedFor

\* A batch of i neither gives nor takes a record of j.
LEMMA ApplyElsewhere ==
    ASSUME Separated, RegistryInv, PairedInv, NEW i \in Instances, AccurateInv(i), ApplyChanges(i),
           NEW j \in Instances \ {i}, NEW e
    PROVE  Owned(j, zone, txts, e) <=> Owned(j, zone', txts', e)
<1> DEFINE fc == Filtered(i)
           g == generateTXTRecord(j, e)
<1>1. /\ Together(i, fc, zone, txts, zone', txts')
      /\ MayApply(i, Basis(i), fc)
      /\ \A f \in Concerned(fc) : Known(f)
  BY ApplyTogether
<1>2. /\ Unique(txts)
      /\ \A r \in zone : Known(r)
      /\ \A x \in txts : \E r \in zone : NamedFor(x, r)
  BY DEF RegistryInv, PairedInv, NamedFor
<1> HIDE DEF fc
<1>3. /\ fc.create \subseteq Endpoint /\ fc.updateOld \subseteq Endpoint
      /\ fc.updateNew \subseteq Endpoint /\ fc.delete \subseteq Endpoint
      /\ \A f \in fc.create \cup fc.updateNew : f.owner = i
  BY <1>1 DEF MayApply, Changes
<1> SUFFICES ASSUME e \in Endpoint, e.owner = j
             PROVE  Owned(j, zone, txts, e) <=> Owned(j, zone', txts', e)
  BY DEF Owned
<1>4. /\ NamedFor(g, e) /\ g.targets.owner = j
      /\ SameRecord(Stored(e), e) /\ TXTType(Stored(e)) = TXTType(e)
  BY GeneratedTXT, SameNames DEF NamedFor
<1> HIDE DEF g
\* The TXT of a record of j is not named for anything that i updates or deletes.
<1>5. ASSUME g \in txts
      PROVE  ~\E f \in fc.updateNew \cup fc.delete : NamedFor(g, f)
  <2> SUFFICES ASSUME NEW f \in fc.updateNew \cup fc.delete, NamedFor(g, f) PROVE FALSE
    OBVIOUS
  <2>1. PICK c \in fc.updateOld \cup fc.delete :
            SameRecord(f, c) /\ TXTType(f) = TXTType(c) /\ Owned(i, zone, txts, c)
    BY <1>1 DEF Together
  <2> DEFINE h == generateTXTRecord(i, c)
  <2>2. c \in Endpoint /\ c.owner = i /\ h \in txts
    BY <2>1 DEF Owned
  <2>3. NamedFor(h, c) /\ h.targets.owner = i
    BY <2>2, GeneratedTXT DEF NamedFor
  <2> HIDE DEF h
  <2>4. g = h
    BY <1>2, <1>5, <2>1, <2>2, <2>3 DEF Unique, NamedFor, SameRecord
  <2> QED
    BY <1>4, <2>3, <2>4
<1>6. ASSUME g \in txts, Known(e), NEW f \in fc.updateNew \cup fc.delete
      PROVE  ~SameRecord(e, f)
  <2>1. Known(f)
    BY <1>1 DEF Concerned
  <2>2. SameRecord(e, f) => NamedFor(g, f)
    BY <1>4, <1>6, <2>1, KnownApart DEF Separated, NamedFor, SameRecord
  <2> QED
    BY <1>5, <1>6, <2>2
<1>7. ASSUME Owned(j, zone, txts, e)
      PROVE  Owned(j, zone', txts', e)
  <2>1. Stored(e) \in zone /\ g \in txts
    BY <1>7 DEF Owned, g
  <2>2. Known(e)
    BY <1>2, <1>4, <2>1 DEF Known, SameRecord
  <2>3. ~In(Stored(e), fc.updateNew \cup fc.delete)
    BY <1>4, <1>6, <2>1, <2>2 DEF In, SameRecord
  <2>4. Stored(e) \in zone' /\ g \in txts'
    BY <1>1, <1>5, <2>1, <2>3 DEF Together
  <2> QED
    BY <2>4 DEF Owned, g
<1>8. ASSUME Owned(j, zone', txts', e)
      PROVE  Owned(j, zone, txts, e)
  <2>1. Stored(e) \in zone' /\ g \in txts'
    BY <1>8 DEF Owned, g
  <2>2. g \in txts
    <3>1. ~\E f \in fc.create \cup fc.updateNew : g = generateTXTRecord(i, f)
      BY <1>3, <1>4, GeneratedTXT
    <3> QED
      BY <1>1, <2>1, <3>1 DEF Together
  <2>3. ASSUME NEW f \in fc.create \cup fc.updateNew, Stored(e) = Stored(f)
        PROVE  FALSE
    <3>1. f \in Endpoint /\ Known(f)
      BY <1>1, <1>3 DEF Concerned
    <3>2. SameRecord(Stored(f), f) /\ TXTType(Stored(f)) = TXTType(f)
      BY <3>1, SameNames
    <3>3. SameRecord(e, f) /\ TXTType(e) = TXTType(f)
      BY <1>4, <2>3, <3>2 DEF SameRecord
    <3>4. Known(e)
      BY <3>1, <3>3 DEF Known, SameRecord
    <3>5. f \in fc.create
      BY <1>6, <2>2, <3>3, <3>4
    <3>6. NamedFor(g, f)
      BY <1>4, <3>3 DEF NamedFor, SameRecord
    <3> QED
      BY <1>1, <2>2, <3>5, <3>6 DEF Together
  <2>4. Stored(e) \in zone
    BY <1>1, <2>1, <2>3 DEF Together
  <2> QED
    BY <2>2, <2>4 DEF Owned, g
<1> QED
  BY <1>7, <1>8

\* The patched cache of i has the records of i that the batch leaves, if it had those
\* that were there before.
LEMMA ApplyHere ==
    ASSUME Separated, RegistryInv, RegistryInv', PairedInv, NEW i \in Instances, AccurateInv(i),
           ApplyChanges(i), fresh[i], NEW e
    PROVE  e \in Patched(cache[i], Filtered(i)) /\ e.owner = i <=> Owned(i, zone', txts', e)
<1> DEFINE fc == Filtered(i)
           c == cache[i]
           gen(f) == generateTXTRecord(i, f)
<1>0. /\ TypeOK /\ Unique(txts) /\ Unique(zone') /\ Unique(txts')
      /\ (\A r \in zone : Known(r)) /\ \A r \in zone' : Known(r)
      /\ \A x \in txts : x.type # Legacy
  BY DEF RegistryInv, PairedInv
<1>1. /\ Together(i, fc, zone, txts, zone', txts')
      /\ MayApply(i, Basis(i), fc) /\ Unique(Basis(i))
      /\ \A f \in Concerned(fc) : Known(f)
  BY ApplyTogether
<1>2. Basis(i) = c
  BY DEF Basis
<1>3. \A f : f \in c /\ f.owner = i <=> Owned(i, zone, txts, f)
  <2>1. FilterEndpointsByOwnerID(i, c) = OwnedBy(i)
    BY DEF AccurateInv
  <2>2. \A f : f \in OwnedBy(i) <=> Owned(i, zone, txts, f)
    BY <1>0, OwnedRecords DEF OwnedBy, TypeOK, Separated
  <2>3. \A f : f \in FilterEndpointsByOwnerID(i, c) <=> f \in c /\ f.owner = i
    BY DEF FilterEndpointsByOwnerID
  <2> QED
    BY <2>1, <2>2, <2>3
<1> HIDE DEF fc, c
<1>4. /\ fc.create \subseteq Endpoint /\ fc.updateOld \subseteq Endpoint
      /\ fc.updateNew \subseteq Endpoint /\ fc.delete \subseteq Endpoint
      /\ \A f \in fc.create \cup fc.updateNew : f.owner = i
      /\ \A f \in fc.create, d \in c : ~SameRecord(f, d)
      /\ \A n \in fc.updateNew : \E d \in fc.updateOld : SameRecord(n, d)
      /\ \A d \in fc.updateOld : \E n \in fc.updateNew : SameRecord(n, d)
  BY <1>1, <1>2 DEF MayApply, Changes
<1>5. /\ fc.create \cup fc.updateNew \subseteq Patched(c, fc)
      /\ \A f \in c : ~In(f, fc.delete \cup fc.updateOld) => f \in Patched(c, fc)
      /\ \A f \in Patched(c, fc) : \/ f \in fc.create \cup fc.updateNew
                                   \/ f \in c /\ ~In(f, fc.delete \cup fc.updateOld)
  BY <1>1, <1>2, PatchedCache
<1>6. \A f \in Endpoint : /\ SameRecord(Stored(f), f) /\ TXTType(Stored(f)) = TXTType(f)
                          /\ NamedFor(gen(f), f)
  BY SameNames, GeneratedTXT DEF NamedFor
<1>7. ASSUME e \in Patched(c, fc), e.owner = i
      PROVE  Owned(i, zone', txts', e)
  <2>1. CASE e \in fc.create \cup fc.updateNew
    BY <1>1, <1>4, <1>7, <2>1 DEF Together, Owned
  <2>2. CASE e \in c /\ ~In(e, fc.delete \cup fc.updateOld)
    <3>1. e \in Endpoint /\ Stored(e) \in zone /\ gen(e) \in txts
      BY <1>3, <1>7, <2>2 DEF Owned
    <3>2. Known(e)
      BY <1>0, <1>6, <3>1 DEF Known, SameRecord
    <3>3. ~In(e, fc.updateNew \cup fc.delete)
      BY <1>4, <2>2 DEF In, SameRecord
    <3>4. ASSUME NEW f \in fc.updateNew \cup fc.delete PROVE ~NamedFor(gen(e), f)
      <4>1. Known(f)
        BY <1>1 DEF Concerned
      <4>2. NamedFor(gen(e), f) => SameRecord(e, f)
        BY <1>6, <3>1, <3>2, <4>1, KnownApart DEF Separated, NamedFor, SameRecord
      <4> QED
        BY <3>3, <4>2 DEF In
    <3>5. ~In(Stored(e), fc.updateNew \cup fc.delete)
      BY <1>6, <3>1, <3>3 DEF In, SameRecord
    <3>6. Stored(e) \in zone' /\ gen(e) \in txts'
      BY <1>1, <3>1, <3>4, <3>5 DEF Together
    <3> QED
      BY <1>7, <3>1, <3>6 DEF Owned
  <2> QED
    BY <1>5, <1>7, <2>1, <2>2
<1>8. ASSUME Owned(i, zone', txts', e)
      PROVE  e \in Patched(c, fc) /\ e.owner = i
  <2>1. e \in Endpoint /\ e.owner = i /\ Stored(e) \in zone' /\ gen(e) \in txts'
    BY <1>8 DEF Owned
  <2>2. Known(e)
    BY <1>0, <1>6, <2>1 DEF Known, SameRecord
  \* What has the name of a new or changed record is that record.
  <2>3. ASSUME NEW f \in fc.create \cup fc.updateNew, NamedFor(gen(e), f)
        PROVE  e = f
    <3>1. f \in Endpoint /\ f.owner = i /\ Known(f) /\ Stored(f) \in zone' /\ gen(f) \in txts'
      BY <1>1, <1>4 DEF Together, Concerned
    <3>2. e.key = f.key /\ TXTType(e) = TXTType(f)
      BY <1>6, <2>1, <2>3 DEF NamedFor
    <3>3. SameRecord(e, f)
      BY <2>2, <3>1, <3>2, KnownApart DEF Separated, SameRecord
    <3>4. Stored(e) = Stored(f)
      BY <1>0, <1>6, <2>1, <3>1, <3>3 DEF Unique, SameRecord
    <3>5. gen(e) = gen(f)
      BY <1>0, <1>6, <2>1, <3>1, <3>2 DEF Unique, SameRecord, NamedFor
    <3>6. e.resource = f.resource
      BY <2>1, <3>1, <3>5, GeneratedTXT
    <3>7. /\ e.key = f.key /\ e.type = f.type /\ e.targets = f.targets /\ e.ttl = f.ttl
          /\ e.props = f.props
      BY <3>4 DEF Stored
    <3> QED
      BY <2>1, <3>1, <3>6, <3>7 DEF Endpoint
  <2>4. CASE \E f \in fc.create \cup fc.updateNew : gen(e) = gen(f)
    <3>1. PICK f \in fc.create \cup fc.updateNew : gen(e) = gen(f)
      BY <2>4
    <3>2. NamedFor(gen(e), f)
      BY <1>4, <1>6, <3>1
    <3>3. e = f
      BY <2>3, <3>2
    <3> QED
      BY <1>5, <2>1, <3>3
  <2>5. CASE /\ gen(e) \in txts
             /\ ~\E f \in fc.create \cup fc.updateNew \cup fc.delete : NamedFor(gen(e), f)
    <3>1. ASSUME NEW f \in fc.create \cup fc.updateNew \cup fc.delete, SameRecord(e, f)
          PROVE  FALSE
      <4>1. Known(f)
        BY <1>1 DEF Concerned
      <4>2. NamedFor(gen(e), f)
        BY <1>6, <2>1, <2>2, <3>1, <4>1, KnownApart DEF Separated, NamedFor, SameRecord
      <4> QED
        BY <2>5, <4>2
    <3>2. Stored(e) \in zone
      <4>1. ASSUME NEW f \in fc.create \cup fc.updateNew, Stored(e) = Stored(f) PROVE FALSE
        <5>1. SameRecord(e, f)
          BY <1>4, <1>6, <2>1, <4>1 DEF SameRecord
        <5> QED
          BY <3>1, <5>1
      <4> QED
        BY <1>1, <2>1, <4>1 DEF Together
    <3>3. e \in c
      BY <1>3, <2>1, <2>5, <3>2 DEF Owned
    <3>4. ~In(e, fc.delete \cup fc.updateOld)
      BY <1>4, <3>1 DEF In, SameRecord
    <3> QED
      BY <1>5, <2>1, <3>3, <3>4
  <2> QED
    BY <1>1, <2>1, <2>4, <2>5 DEF Together
<1> QED
  BY <1>7, <1>8 DEF fc, c
\* If zone and TXTs are left alone, so are the records of everybody.
LEMMA OwnedUnchanged ==
    ASSUME zone' = zone, txts' = txts, NEW i
    PROVE  OwnedBy(i)' = OwnedBy(i)
  BY DEF OwnedBy

\* What a process that is not touched knows stays right as long as its records do.
LEMMA UntouchedAccurate ==
    ASSUME NEW j \in Instances, AccurateInv(j), Untouched(j), OwnedBy(j)' = OwnedBy(j)
    PROVE  AccurateInv(j)'
<1>1. Filtered(j)' = Filtered(j)
  BY DEF Untouched, Filtered
<1> QED
  BY <1>1 DEF Untouched, AccurateInv

\* Records reads every ownership record with the record that it is for.
LEMMA RecordsFromZoneAccurate ==
    ASSUME RegistryInv, PairedInv, NEW i \in Instances, RecordsFromZone(i)
    PROVE  AccurateInv(i)'
<1>0. zone \subseteq Record /\ txts \in SUBSET TXT
  BY DEF RegistryInv, TypeOK
<1>1. /\ zone' = zone /\ txts' = txts /\ pc'[i] = "planning"
      /\ view'[i] = Labelling(i, zone, txts)
      /\ existing'[i] = {<<x.key, x.type>> : x \in txts}
      /\ fresh'[i] = CacheRecords
      /\ CacheRecords => cache'[i] = view'[i]
  BY DEF RecordsFromZone, RegistryInv, TypeOK
<1>2. OwnedBy(i)' = FilterEndpointsByOwnerID(i, view'[i])
  BY <1>1, OwnedUnchanged DEF OwnedBy
<1>3. \A x \in existing'[i] : \E e \in view'[i] : x = <<e.key, TXTType(e)>>
  <2> SUFFICES ASSUME NEW x \in txts
               PROVE  \E e \in view'[i] : <<x.key, x.type>> = <<e.key, TXTType(e)>>
    BY <1>1
  <2>1. PICK r \in zone : r.key = x.key /\ TXTType(r) = x.type
    BY DEF PairedInv
  <2>2. Labelled(i, txts, r) \in view'[i]
    BY <1>1 DEF Labelling
  <2>3. Labelled(i, txts, r).key = x.key /\ TXTType(Labelled(i, txts, r)) = x.type
    BY <1>0, <2>1, LabelledType DEF SameRecord
  <2> QED
    BY <2>2, <2>3
<1> QED
  BY <1>1, <1>2, <1>3 DEF AccurateInv

\* The plan changes records that are there, and creates none whose TXT Records saw.
LEMMA PlanChangesAccurate ==
    ASSUME Separated, RegistryInv, NEW i \in Instances, AccurateInv(i), PlanChanges(i)
    PROVE  AccurateInv(i)'
<1> DEFINE ch == Calculate(i, OldOwnerID, view[i], source[i])
           fc == filteredChanges(i, ch)
<1>0. /\ TypeOK /\ view[i] \in SUBSET Endpoint /\ source[i] \in SUBSET Desirable
      /\ ProcessInv(i)
  BY DEF RegistryInv, TypeOK
<1>1. /\ pc[i] = "planning" /\ fresh'[i] = fresh[i] /\ cache'[i] = cache[i]
      /\ existing'[i] = existing[i] /\ zone' = zone /\ txts' = txts
      /\ \/ pc'[i] = "applying" /\ changes'[i] = ch
         \/ pc'[i] = "idle"
  BY <1>0 DEF PlanChanges, TypeOK
<1>2. /\ FilterEndpointsByOwnerID(i, view[i]) = OwnedBy(i)
      /\ \A x \in existing[i] : \E e \in view[i] : x = <<e.key, TXTType(e)>>
      /\ fresh[i] => FilterEndpointsByOwnerID(i, cache[i]) = OwnedBy(i)
      /\ \A e \in view[i] : Known(e)
  BY <1>0, <1>1 DEF AccurateInv, ProcessInv
<1>3. OwnedBy(i)' = OwnedBy(i)
  BY <1>1, OwnedUnchanged
<1>4. pc'[i] = "applying" => Filtered(i)' = fc
  BY <1>1 DEF Filtered
<1>5. MayApply(i, view[i], fc) /\ \A e \in Concerned(fc) : Known(e)
  BY <1>0, <1>2, FilteredChanges
<1> HIDE DEF ch, fc
<1>6. fc.updateOld \cup fc.delete \subseteq OwnedBy(i)
  BY <1>2, <1>5 DEF MayApply, FilterEndpointsByOwnerID
<1>7. \A e \in fc.create : <<e.key, TXTType(e)>> \notin existing[i]
  <2> SUFFICES ASSUME NEW e \in fc.create, <<e.key, TXTType(e)>> \in existing[i] PROVE FALSE
    OBVIOUS
  <2>1. PICK v \in view[i] : e.key = v.key /\ TXTType(e) = TXTType(v)
    BY <1>2
  <2>2. Known(e) /\ Known(v)
    BY <1>2, <1>5 DEF Concerned
  <2>3. SameRecord(e, v)
    BY <2>1, <2>2, KnownApart DEF Separated, SameRecord
  <2> QED
    BY <1>5, <2>3 DEF MayApply
<1> QED
  BY <1>1, <1>2, <1>3, <1>4, <1>6, <1>7 DEF AccurateInv

\* A batch that the provider takes leaves the cache right.
LEMMA ApplyChangesAccurate ==
    ASSUME Separated, RegistryInv, RegistryInv', PairedInv, PairedInv',
           NEW i \in Instances, AccurateInv(i), ApplyChanges(i)
    PROVE  AccurateInv(i)'
<1>1. /\ pc[i] = "applying" /\ UpdateCache(i) /\ pc'[i] = "idle"
      /\ view'[i] = view[i] /\ fresh'[i] = fresh[i]
  BY DEF ApplyChanges, RegistryInv, TypeOK
<1>2. ASSUME fresh[i]
      PROVE  FilterEndpointsByOwnerID(i, cache'[i]) = OwnedBy(i)'
  <2>1. cache'[i] = Patched(cache[i], Filtered(i))
    BY <1>1, <1>2, UpdateCacheInv
  <2>2. \A e : e \in Patched(cache[i], Filtered(i)) /\ e.owner = i <=> Owned(i, zone', txts', e)
    BY <1>2, ApplyHere
  <2>3. /\ zone' \in SUBSET Record /\ txts' \in SUBSET TXT /\ Unique(txts')
        /\ \A x \in txts' : x.type # Legacy
    BY DEF RegistryInv, TypeOK, PairedInv
  <2>4. \A e : e \in OwnedBy(i)' <=> Owned(i, zone', txts', e)
    BY <2>3, OwnedRecords DEF OwnedBy, Separated
  <2>5. \A e : e \in FilterEndpointsByOwnerID(i, cache'[i]) <=> e \in cache'[i] /\ e.owner = i
    BY DEF FilterEndpointsByOwnerID
  <2> QED
    BY <2>1, <2>2, <2>4, <2>5
<1> QED
  BY <1>1, <1>2 DEF AccurateInv

\* Every step of i leaves it right about its records, unless it is a fault.
LEMMA StepAccurate ==
    ASSUME Separated, RegistryInv, RegistryInv', PairedInv, NEW i \in Instances, AccurateInv(i),
           Step(i), faults' = faults
    PROVE  PairedInv' /\ AccurateInv(i)'
<1>0. TypeOK
  BY DEF RegistryInv
<1>1. CASE ApplyChanges(i)
  BY <1>1, ApplyKeepsPaired, ApplyChangesAccurate
<1>2. CASE ~ApplyChanges(i)
  <2>1. zone' = zone /\ txts' = txts
    BY <1>0, <1>2, StepFrame
  <2>2. PairedInv'
    BY <2>1 DEF PairedInv
  <2>3. OwnedBy(i)' = OwnedBy(i)
    BY <2>1, OwnedUnchanged
  <2>4. CASE RecordsFromCache(i)
    <3>1. /\ fresh[i] /\ fresh'[i] /\ view'[i] = cache[i] /\ cache'[i] = cache[i]
          /\ existing'[i] = {} /\ pc'[i] = "planning"
      BY <1>0, <2>4 DEF RecordsFromCache, TypeOK
    <3> QED
      BY <2>2, <2>3, <3>1 DEF AccurateInv
  <2>5. CASE ApplyChangesRejected(i)
    <3>1. pc'[i] = "exited" /\ ~fresh'[i]
      BY <1>0, <2>5 DEF ApplyChangesRejected, Forget, TypeOK
    <3> QED
      BY <2>2, <3>1 DEF AccurateInv
  <2>6. CASE Restart(i)
    <3>1. pc'[i] = "idle" /\ fresh'[i] = fresh[i] /\ cache'[i] = cache[i]
      BY <1>0, <2>6 DEF Restart, TypeOK
    <3> QED
      BY <2>2, <2>3, <3>1 DEF AccurateInv
  <2>7. CASE CacheExpires(i)
    <3>1. /\ ~fresh'[i] /\ pc'[i] = pc[i] /\ view'[i] = view[i] /\ existing'[i] = existing[i]
          /\ Filtered(i)' = Filtered(i)
      BY <1>0, <2>7 DEF CacheExpires, TypeOK, Filtered
    <3> QED
      BY <2>2, <2>3, <3>1 DEF AccurateInv
  <2>8. CASE SourceChanges(i)
    <3>1. Untouched(i)
      BY <2>8 DEF SourceChanges, Untouched
    <3> QED
      BY <2>2, <2>3, <3>1, UntouchedAccurate
  <2>9. ~ApplyChangesFailsSoftly(i) /\ ~Kill(i)
    BY <1>0 DEF ApplyChangesFailsSoftly, Kill, TypeOK
  <2> QED
    BY <1>2, <2>2, <2>4, <2>5, <2>6, <2>7, <2>8, <2>9,
       RecordsFromZoneAccurate, PlanChangesAccurate DEF Step
<1> QED
  BY <1>1, <1>2

\* And leaves everybody else right about theirs.
LEMMA OthersAccurate ==
    ASSUME Separated, RegistryInv, RegistryInv', PairedInv, PairedInv',
           NEW i \in Instances, AccurateInv(i), Step(i),
           NEW j \in Instances \ {i}, AccurateInv(j)
    PROVE  AccurateInv(j)'
<1>0. TypeOK
  BY DEF RegistryInv
<1>1. Untouched(j) /\ (ApplyChanges(i) \/ (zone' = zone /\ txts' = txts))
  BY <1>0, StepFrame
<1>2. OwnedBy(j)' = OwnedBy(j)
  <2>1. CASE ApplyChanges(i)
    <3>1. /\ zone \in SUBSET Record /\ txts \in SUBSET TXT /\ Unique(txts)
          /\ \A x \in txts : x.type # Legacy
      BY DEF RegistryInv, TypeOK, PairedInv
    <3>2. /\ zone' \in SUBSET Record /\ txts' \in SUBSET TXT /\ Unique(txts')
          /\ \A x \in txts' : x.type # Legacy
      BY DEF RegistryInv, TypeOK, PairedInv
    <3>3. \A e : e \in OwnedBy(j) <=> Owned(j, zone, txts, e)
      BY <3>1, OwnedRecords DEF OwnedBy, Separated
    <3>4. \A e : e \in OwnedBy(j)' <=> Owned(j, zone', txts', e)
      BY <3>2, OwnedRecords DEF OwnedBy, Separated
    <3>5. \A e : Owned(j, zone, txts, e) <=> Owned(j, zone', txts', e)
      BY <2>1, ApplyElsewhere
    <3>6. \A e : e \in OwnedBy(j) <=> e \in OwnedBy(j)'
      BY <3>3, <3>4, <3>5
    <3> QED
      BY <3>6 DEF OwnedBy, FilterEndpointsByOwnerID
  <2> QED
    BY <1>1, <2>1, OwnedUnchanged
<1> QED
  BY <1>1, <1>2, UntouchedAccurate

LEMMA FaultFreeInit ==
    ASSUME Separated, Init
    PROVE  FaultFreeInv
<1>1. PairedInv
  BY DEF Init, PairedInv, Separated, StartsPaired, In, SameRecord
<1>2. \A i \in Instances : AccurateInv(i)
  BY DEF Init, AccurateInv
<1> QED
  BY <1>1, <1>2 DEF FaultFreeInv

LEMMA FaultFreeNext ==
    ASSUME Separated
    PROVE  RegistryInv /\ RegistryInv' /\ FaultFreeInv /\ [Next]_vars => FaultFreeInv'
<1> SUFFICES ASSUME RegistryInv, RegistryInv', FaultFreeInv, [Next]_vars, faults' = 0
             PROVE  PairedInv' /\ \A j \in Instances : AccurateInv(j)'
  BY DEF FaultFreeInv
<1>0. TypeOK /\ faults \in Nat
  BY DEF RegistryInv, TypeOK
<1>1. CASE UNCHANGED vars
  <2>1. PairedInv /\ \A j \in Instances : AccurateInv(j)
    BY <1>1 DEF FaultFreeInv, vars
  <2>2. /\ PairedInv' /\ \A j \in Instances : Untouched(j) /\ OwnedBy(j)' = OwnedBy(j)
    BY <1>1, <2>1, OwnedUnchanged DEF vars, Untouched, PairedInv
  <2> QED
    BY <2>1, <2>2, UntouchedAccurate
<1>2. ASSUME NEW i \in Instances, Step(i)
      PROVE  PairedInv' /\ \A j \in Instances : AccurateInv(j)'
  <2>1. faults' = faults
    BY <1>0, <1>2, StepFrame
  <2>2. PairedInv /\ \A j \in Instances : AccurateInv(j)
    BY <2>1 DEF FaultFreeInv
  <2>3. PairedInv' /\ AccurateInv(i)'
    BY <1>2, <2>1, <2>2, StepAccurate
  <2>4. \A j \in Instances \ {i} : AccurateInv(j)'
    BY <1>2, <2>2, <2>3, OthersAccurate
  <2> QED
    BY <2>3, <2>4
<1>3. ~ThirdPartyEdits
  BY <1>0 DEF ThirdPartyEdits
<1> QED
  BY <1>1, <1>2, <1>3, NextSteps

\* Until the first fault records and ownership records are paired and every process
\* is right about its own, whatever the others do in between.
THEOREM FaultFree ==
    ASSUME Separated
    PROVE  Spec => []FaultFreeInv
<1>1. Init => FaultFreeInv
  BY FaultFreeInit
<1>2. RegistryInv /\ RegistryInv' /\ FaultFreeInv /\ [Next]_vars => FaultFreeInv'
  BY FaultFreeNext
<1> QED
  BY <1>1, <1>2, RegistryCorrect, PTL DEF Spec

\* TXT and record are created, updated and deleted together (ApplyChanges).
THEOREM RecordsPaired ==
    ASSUME Separated
    PROVE  Spec => []Paired
<1>1. RegistryInv /\ FaultFreeInv => Paired
  <2> SUFFICES ASSUME RegistryInv, PairedInv
               PROVE  /\ \A x \in txts : x.type # Legacy =>
                             \E r \in zone : r.key = x.key /\ TXTType(r) = x.type
                      /\ \A r \in zone : In(r, InitZone) \/ LabelsOf(txts, r).owner \in Instances
    BY DEF FaultFreeInv, Paired
  <2>1. Unique(txts)
    BY DEF RegistryInv
  <2>2. \A r \in zone : \A x \in txts :
            x.key = r.key /\ x.type = TXTType(r) => LabelsOf(txts, r) = x.targets
    BY <2>1, LabelsOfNamed DEF NamedFor
  <2> QED
    BY <2>2 DEF PairedInv
<1> QED
  BY <1>1, RegistryCorrect, FaultFree, PTL

\* The records cache is right about the records of its own instance, although
\* ApplyChanges only patches it (addToCache, removeFromCache).
THEOREM CachesAccurate ==
    ASSUME Separated
    PROVE  Spec => []CacheAccurate
<1>1. FaultFreeInv => CacheAccurate
  BY DEF FaultFreeInv, AccurateInv, CacheAccurate, OwnedBy
<1> QED
  BY <1>1, FaultFree, PTL

\* The ownership records that ApplyChanges reconstructs from the labels, to update or
\* delete them, are those of the zone (generateTXTRecord).
THEOREM OldTXTsReconstructed ==
    ASSUME Separated
    PROVE  Spec => []TXTsReconstructed
<1>1. RegistryInv /\ FaultFreeInv => TXTsReconstructed
  <2> SUFFICES ASSUME RegistryInv, PairedInv, NEW i \in Instances, AccurateInv(i),
                      pc[i] = "applying"
               PROVE  LET b == TXTBatch(i, existing[i], filteredChanges(i, changes[i]))
                      IN  b.updateOld \cup b.delete \subseteq txts
    BY DEF FaultFreeInv, TXTsReconstructed
  <2>1. Filtered(i).updateOld \cup Filtered(i).delete \subseteq OwnedBy(i)
    BY DEF AccurateInv
  <2>2. /\ zone \in SUBSET Record /\ txts \in SUBSET TXT /\ Unique(txts)
        /\ \A x \in txts : x.type # Legacy
    BY DEF RegistryInv, TypeOK, PairedInv
  <2>3. \A e \in OwnedBy(i) : generateTXTRecord(i, e) \in txts
    BY <2>2, OwnedRecords DEF OwnedBy, Owned, Separated
  <2> QED
    BY <2>1, <2>3 DEF TXTBatch, Filtered
<1> QED
  BY <1>1, RegistryCorrect, FaultFree, PTL

-----------------------------------------------------------------------------
(***************************************************************************)
(* A CNAME is alone under its name, if one instance writes the zone.       *)
(***************************************************************************)

\* No record is beside a CNAME of the same name.
Alone(Z) == \A x, y \in Z : x.key = y.key /\ x.type = "CNAME" => x = y

\* The assumptions of this section: one instance, which may delete and is shown every
\* record of the zone by its filters of record types, and no CNAME beside another
\* record at the start.
SoleWriter ==
    /\ \A i, j \in Instances : i = j
    /\ Policy = "sync"
    /\ \A r \in InitZone : IsManagedRecord(r.type)
    /\ Alone(InitZone)

\* S and Z have the same records, whatever their targets.
SameRecords(S, Z) == (\A r \in Z : In(r, S)) /\ (\A e \in S : In(e, Z))

\* What i knows covers the zone, whoever owns the records, and the plan of i
\* withdraws what is in the way of a CNAME.
CoversInv(i) ==
    /\ fresh[i] => SameRecords(cache[i], zone)
    /\ pc[i] = "planning" => SameRecords(view[i], zone)
    /\ pc[i] = "applying" =>
           /\ \A e \in Filtered(i).create \cup Filtered(i).updateNew : IsManagedRecord(e.type)
           /\ \A n \in Filtered(i).updateNew : In(n, zone)
           /\ \A e \in Filtered(i).create, r \in zone :
                  e.key = r.key /\ "CNAME" \in {e.type, r.type} => In(r, Filtered(i).delete)

AloneInv ==
    faults = 0 =>
        /\ Alone(zone)
        /\ \A r \in zone : IsManagedRecord(r.type)
        /\ \A i \in Instances : CoversInv(i)

\* Records returns every record of the zone.
LEMMA RecordsFromZoneCovers ==
    ASSUME RegistryInv, NEW i \in Instances, RecordsFromZone(i)
    PROVE  CoversInv(i)'
<1>0. zone \subseteq Record /\ txts \in SUBSET TXT
  BY DEF RegistryInv, TypeOK
<1>1. /\ zone' = zone /\ pc'[i] = "planning"
      /\ view'[i] = {Labelled(i, txts, r) : r \in zone}
      /\ fresh'[i] = CacheRecords
      /\ CacheRecords => cache'[i] = view'[i]
  BY DEF RecordsFromZone, RegistryInv, TypeOK, Labelling
<1>2. \A r \in zone : SameRecord(Labelled(i, txts, r), r)
  BY <1>0, LabelledType
<1>3. SameRecords(view'[i], zone')
  BY <1>1, <1>2 DEF SameRecords, In, SameRecord
<1> QED
  BY <1>1, <1>3 DEF CoversInv

\* The plan takes away what is in the way of a CNAME, and leaves CNAMEs alone.
LEMMA PlanChangesCovers ==
    ASSUME SoleWriter, RegistryInv, \A r \in zone : IsManagedRecord(r.type),
           NEW i \in Instances, CoversInv(i), PlanChanges(i)
    PROVE  CoversInv(i)'
<1> DEFINE ch == Calculate(i, OldOwnerID, view[i], source[i])
           fc == filteredChanges(i, ch)
           cur == filterRecordsForPlan(view[i])
<1>0. /\ TypeOK /\ view[i] \in SUBSET Endpoint /\ source[i] \in SUBSET Desirable
      /\ i \in Owners /\ source[i] \in SUBSET Endpoint
  BY TXTAssumption DEF RegistryInv, TypeOK
<1>1. /\ pc[i] = "planning" /\ fresh'[i] = fresh[i] /\ cache'[i] = cache[i] /\ zone' = zone
      /\ \/ pc'[i] = "applying" /\ changes'[i] = ch
         \/ pc'[i] = "idle"
  BY <1>0 DEF PlanChanges, TypeOK
<1>2. SameRecords(view[i], zone) /\ (fresh[i] => SameRecords(cache[i], zone))
  BY <1>1 DEF CoversInv
<1>3. pc'[i] = "applying" => Filtered(i)' = fc
  BY <1>1 DEF Filtered
<1>4. PlannedFor(i, view[i], source[i], ch)
  BY <1>0, FilteredChanges
<1>5. /\ fc.updateOld = ch.updateOld /\ fc.updateNew = ch.updateNew /\ fc.delete = ch.delete
      /\ \A e \in fc.create : \E d \in ch.create : SameRecord(e, d)
  <2>1. fc = OwnedPlan(i, ch)
    BY DEF filteredChanges, ownedCreates, OwnedPlan
  <2>2. ch.create \subseteq Endpoint
    BY <1>4 DEF PlannedFor, Changes
  <2>3. \A d \in Endpoint : SameRecord([d EXCEPT !.owner = i], d)
    BY SameNames
  <2>4. fc.create = {[e EXCEPT !.owner = i] : e \in ch.create}
    BY <2>1 DEF OwnedPlan
  <2> HIDE DEF fc, ch
  <2>5. \A e \in fc.create : \E d \in ch.create : SameRecord(e, d)
    BY <2>2, <2>3, <2>4
  <2> QED
    BY <1>0, <1>4, <2>1, <2>5, OwnedPlanApplies
<1> HIDE DEF ch, fc
<1>6. /\ ch.create \cup ch.updateOld \subseteq filterRecordsForPlan(view[i] \cup source[i])
      /\ ch.updateOld \subseteq view[i]
      /\ \A e \in ch.create, c \in view[i] : ~SameRecord(e, c)
      /\ \A e \in ch.create, c \in view[i] :
             IsManagedRecord(c.type) /\ c.key = e.key => c.owner = i
      /\ \A n \in ch.updateNew : \E c \in ch.updateOld : SameRecord(n, c)
      /\ \A x, y \in ch.create \cup {c \in cur \ ch.delete : c.owner = i} :
             x.key = y.key /\ x.type = "CNAME" => y.type = "CNAME"
  BY <1>4 DEF PlannedFor, SoleWriter
<1>7. \A e \in fc.create \cup fc.updateNew : IsManagedRecord(e.type)
  BY <1>5, <1>6 DEF filterRecordsForPlan, SameRecord
<1>8. \A n \in fc.updateNew : In(n, zone)
  BY <1>2, <1>5, <1>6 DEF SameRecords, In, SameRecord
<1>9. ASSUME NEW e \in fc.create, NEW r \in zone, e.key = r.key, "CNAME" \in {e.type, r.type}
      PROVE  In(r, fc.delete)
  <2>1. PICK d \in ch.create : SameRecord(e, d)
    BY <1>5
  <2>2. PICK v \in view[i] : SameRecord(r, v)
    BY <1>2 DEF SameRecords, In
  <2>3. v.owner = i /\ v \in cur
    <3>1. IsManagedRecord(v.type) /\ v.key = d.key
      BY <1>9, <2>1, <2>2 DEF SameRecord
    <3>2. d.key[1] \in DomainNames
      BY <1>6 DEF filterRecordsForPlan
    <3> QED
      BY <1>6, <2>1, <2>2, <3>1, <3>2 DEF filterRecordsForPlan
  <2>4. d.type # v.type /\ "CNAME" \in {d.type, v.type} /\ d.key = v.key
    BY <1>6, <1>9, <2>1, <2>2 DEF SameRecord
  <2>5. v \in ch.delete
    BY <1>6, <2>3, <2>4
  <2> QED
    BY <1>5, <2>2, <2>5 DEF In
<1> QED
  BY <1>1, <1>2, <1>3, <1>7, <1>8, <1>9 DEF CoversInv

\* The batch leaves CNAMEs alone, and the cache covers what it leaves.
LEMMA ApplyChangesCovers ==
    ASSUME RegistryInv, RegistryInv', NEW i \in Instances, CoversInv(i), ApplyChanges(i),
           Alone(zone), \A r \in zone : IsManagedRecord(r.type)
    PROVE  /\ Alone(zone)' /\ (\A r \in zone : IsManagedRecord(r.type))'
           /\ CoversInv(i)'
<1> DEFINE fc == Filtered(i)
           rb == RecordBatch(fc)
<1>0. TypeOK /\ ProcessInv(i) /\ Unique(zone')
  BY DEF RegistryInv
<1>1. /\ pc[i] = "applying" /\ UpdateCache(i) /\ pc'[i] = "idle"
      /\ view'[i] = view[i] /\ fresh'[i] = fresh[i]
      /\ zone' = Applied(zone, rb)
  BY <1>0 DEF ApplyChanges, TypeOK, Filtered
<1>2. /\ MayApply(i, Basis(i), fc) /\ Unique(Basis(i))
      /\ \A e \in fc.create \cup fc.updateNew : IsManagedRecord(e.type)
      /\ \A n \in fc.updateNew : In(n, zone)
      /\ \A e \in fc.create, r \in zone :
             e.key = r.key /\ "CNAME" \in {e.type, r.type} => In(r, fc.delete)
      /\ fresh[i] => SameRecords(cache[i], zone)
  BY <1>0, <1>1 DEF ProcessInv, CoversInv
<1>3. fresh[i] => Basis(i) = cache[i] /\ cache'[i] = Patched(cache[i], fc)
  BY <1>1, UpdateCacheInv DEF Basis
<1> HIDE DEF fc
<1>4. /\ fc.create \subseteq Endpoint /\ fc.updateNew \subseteq Endpoint /\ fc.delete \subseteq Endpoint
      /\ \A x, y \in fc.create \cup fc.updateNew :
             x.key = y.key /\ x.type = "CNAME" => y.type = "CNAME"
      /\ \A n \in fc.updateNew : \E c \in fc.updateOld : SameRecord(n, c)
      /\ \A c \in fc.updateOld : \E n \in fc.updateNew : SameRecord(n, c)
      /\ \A e \in fc.create, c \in Basis(i) : ~SameRecord(e, c)
  BY <1>2 DEF MayApply, Changes
<1>5. \A e \in Endpoint : SameRecord(Stored(e), e)
  BY SameNames
<1>6. /\ \A r \in zone' : \/ r \in zone /\ ~In(r, fc.create \cup fc.updateNew \cup fc.delete)
                          \/ \E e \in fc.create \cup fc.updateNew : r = Stored(e)
      /\ \A r \in zone : r \in zone' \/ In(r, fc.create \cup fc.updateNew \cup fc.delete)
      /\ \A e \in fc.create \cup fc.updateNew : Stored(e) \in zone'
  <2>1. /\ rb.create = {Stored(e) : e \in fc.create}
        /\ rb.updateNew = {Stored(e) : e \in fc.updateNew}
        /\ rb.delete = {Stored(e) : e \in fc.delete}
    BY DEF RecordBatch
  <2> HIDE DEF rb
  <2>2. \A r : In(r, rb.create \cup rb.updateNew \cup rb.delete)
                  <=> In(r, fc.create \cup fc.updateNew \cup fc.delete)
    BY <1>4, <1>5, <2>1 DEF In, SameRecord
  <2> QED
    BY <1>1, <2>1, <2>2 DEF Applied
<1>7. \A r \in zone' : IsManagedRecord(r.type)
  BY <1>2, <1>4, <1>5, <1>6 DEF SameRecord
<1>8. Alone(zone')
  <2> SUFFICES ASSUME NEW x \in zone', NEW y \in zone', x.key = y.key, x.type = "CNAME"
               PROVE  y.type = "CNAME"
    BY <1>0 DEF Alone, Unique, SameRecord
  \* A record that the batch adds or changes is not beside one that it leaves.
  <2>1. ASSUME NEW e \in fc.create \cup fc.updateNew, NEW r \in zone,
               ~In(r, fc.create \cup fc.updateNew \cup fc.delete),
               e.key = r.key, "CNAME" \in {e.type, r.type}
        PROVE  FALSE
    <3>1. e \in fc.updateNew
      BY <1>2, <2>1 DEF In
    <3>2. PICK z \in zone : SameRecord(e, z)
      BY <1>2, <3>1 DEF In
    <3>3. z = r
      BY <2>1, <3>2 DEF Alone, SameRecord
    <3> QED
      BY <2>1, <3>1, <3>2, <3>3 DEF In, SameRecord
  <2>2. CASE x \in zone /\ ~In(x, fc.create \cup fc.updateNew \cup fc.delete)
    <3>1. \A e \in fc.create \cup fc.updateNew : y # Stored(e)
      BY <1>4, <1>5, <2>1, <2>2 DEF SameRecord
    <3>2. y \in zone
      BY <1>6, <3>1
    <3> QED
      BY <2>2, <3>2 DEF Alone
  <2>3. CASE \E e \in fc.create \cup fc.updateNew : x = Stored(e)
    <3>1. PICK e \in fc.create \cup fc.updateNew : x = Stored(e)
      BY <2>3
    <3>2. SameRecord(x, e)
      BY <1>4, <1>5, <3>1
    <3>3. ~(y \in zone /\ ~In(y, fc.create \cup fc.updateNew \cup fc.delete))
      BY <2>1, <3>2 DEF SameRecord
    <3>4. PICK f \in fc.create \cup fc.updateNew : y = Stored(f)
      BY <1>6, <3>3
    <3>5. SameRecord(y, f)
      BY <1>4, <1>5, <3>4
    <3> QED
      BY <1>4, <3>2, <3>5 DEF SameRecord
  <2> QED
    BY <1>6, <2>2, <2>3
<1>9. ASSUME fresh[i]
      PROVE  SameRecords(cache'[i], zone')
  <2> DEFINE c == cache[i]
             d == cache'[i]
  <2>1. /\ \A e \in fc.create \cup fc.updateNew : e \in d
        /\ \A e \in c : ~In(e, fc.delete \cup fc.updateOld) => e \in d
        /\ \A e \in d : \/ e \in fc.create \cup fc.updateNew
                        \/ e \in c /\ ~In(e, fc.delete \cup fc.updateOld)
        /\ \A e \in fc.create : \A f \in c : ~SameRecord(e, f)
    <3>1. MayApply(i, c, fc) /\ Unique(c) /\ d = Patched(c, fc)
      BY <1>2, <1>3, <1>9
    <3> HIDE DEF c, d
    <3> QED
      BY <3>1, PatchedCache DEF MayApply
  <2>2. SameRecords(c, zone)
    BY <1>2, <1>9
  <2> HIDE DEF c, d
  <2>3. ASSUME NEW r \in zone' PROVE In(r, d)
    <3>1. CASE \E e \in fc.create \cup fc.updateNew : r = Stored(e)
      BY <1>4, <1>5, <2>1, <3>1 DEF In
    <3>2. CASE r \in zone /\ ~In(r, fc.create \cup fc.updateNew \cup fc.delete)
      <4>1. PICK v \in c : SameRecord(r, v)
        BY <2>2, <3>2 DEF SameRecords, In
      <4>2. ~In(v, fc.delete \cup fc.updateOld)
        BY <1>4, <3>2, <4>1 DEF In, SameRecord
      <4> QED
        BY <2>1, <4>1, <4>2 DEF In
    <3> QED
      BY <1>6, <3>1, <3>2
  <2>4. ASSUME NEW e \in d PROVE In(e, zone')
    <3>1. CASE e \in fc.create \cup fc.updateNew
      <4>1. Stored(e) \in zone' /\ SameRecord(e, Stored(e))
        BY <1>4, <1>5, <1>6, <3>1 DEF SameRecord
      <4> QED
        BY <4>1 DEF In
    <3>2. CASE e \in c /\ ~In(e, fc.delete \cup fc.updateOld)
      <4>1. PICK r \in zone : SameRecord(e, r)
        BY <2>2, <3>2 DEF SameRecords, In
      <4>2. ~In(r, fc.create \cup fc.updateNew \cup fc.delete)
        BY <1>4, <2>1, <3>2, <4>1 DEF In, SameRecord
      <4> QED
        BY <1>6, <4>1, <4>2 DEF In
    <3> QED
      BY <2>1, <3>1, <3>2
  <2> QED
    BY <2>3, <2>4 DEF SameRecords, d
<1> QED
  BY <1>1, <1>7, <1>8, <1>9 DEF CoversInv

LEMMA AloneInit ==
    ASSUME SoleWriter, Init
    PROVE  AloneInv
  BY DEF SoleWriter, Init, AloneInv, CoversInv

LEMMA AloneNext ==
    ASSUME SoleWriter
    PROVE  RegistryInv /\ RegistryInv' /\ AloneInv /\ [Next]_vars => AloneInv'
<1> SUFFICES ASSUME RegistryInv, RegistryInv', AloneInv, [Next]_vars, faults' = 0
             PROVE  /\ Alone(zone)' /\ (\A r \in zone : IsManagedRecord(r.type))'
                    /\ \A j \in Instances : CoversInv(j)'
  BY DEF AloneInv
<1>0. TypeOK /\ faults \in Nat
  BY DEF RegistryInv, TypeOK
<1>1. CASE UNCHANGED vars
  <2>1. /\ Alone(zone) /\ (\A r \in zone : IsManagedRecord(r.type))
        /\ \A j \in Instances : CoversInv(j)
    BY <1>1 DEF AloneInv, vars
  <2>2. \A j \in Instances : Filtered(j)' = Filtered(j)
    BY <1>1 DEF vars, Filtered
  <2> QED
    BY <1>1, <2>1, <2>2 DEF vars, CoversInv
<1>2. ASSUME NEW i \in Instances, Step(i)
      PROVE  /\ Alone(zone)' /\ (\A r \in zone : IsManagedRecord(r.type))'
             /\ \A j \in Instances : CoversInv(j)'
  <2>0. faults' = faults /\ \A j \in Instances : j = i
    BY <1>0, <1>2, StepFrame DEF SoleWriter
  <2>1. /\ Alone(zone) /\ (\A r \in zone : IsManagedRecord(r.type)) /\ CoversInv(i)
    BY <2>0 DEF AloneInv
  <2>2. CASE ApplyChanges(i)
    BY <2>0, <2>1, <2>2, ApplyChangesCovers
  <2>3. CASE ~ApplyChanges(i)
    <3>1. zone' = zone
      BY <1>0, <1>2, <2>3, StepFrame
    <3> SUFFICES CoversInv(i)'
      BY <2>0, <2>1, <3>1
    <3>2. CASE RecordsFromCache(i)
      <4>1. fresh[i] /\ view'[i] = cache[i] /\ cache'[i] = cache[i] /\ pc'[i] = "planning"
        BY <1>0, <3>2 DEF RecordsFromCache, TypeOK
      <4> QED
        BY <2>1, <3>1, <4>1 DEF CoversInv
    <3>3. CASE ApplyChangesRejected(i)
      <4>1. pc'[i] = "exited" /\ ~fresh'[i]
        BY <1>0, <3>3 DEF ApplyChangesRejected, Forget, TypeOK
      <4> QED
        BY <4>1 DEF CoversInv
    <3>4. CASE Restart(i)
      <4>1. pc'[i] = "idle" /\ fresh'[i] = fresh[i] /\ cache'[i] = cache[i]
        BY <1>0, <3>4 DEF Restart, TypeOK
      <4> QED
        BY <2>1, <3>1, <4>1 DEF CoversInv
    <3>5. CASE CacheExpires(i)
      <4>1. ~fresh'[i] /\ pc'[i] = pc[i] /\ view'[i] = view[i] /\ Filtered(i)' = Filtered(i)
        BY <1>0, <3>5 DEF CacheExpires, TypeOK, Filtered
      <4> QED
        BY <2>1, <3>1, <4>1 DEF CoversInv
    <3>6. CASE SourceChanges(i)
      <4>1. /\ fresh'[i] = fresh[i] /\ cache'[i] = cache[i] /\ pc'[i] = pc[i]
            /\ view'[i] = view[i] /\ Filtered(i)' = Filtered(i)
        BY <3>6 DEF SourceChanges, Filtered
      <4> QED
        BY <2>1, <3>1, <4>1 DEF CoversInv
    <3>7. ~ApplyChangesFailsSoftly(i) /\ ~Kill(i)
      BY <1>0, <2>0 DEF ApplyChangesFailsSoftly, Kill, TypeOK
    <3> QED
      BY <1>2, <2>1, <2>3, <3>2, <3>3, <3>4, <3>5, <3>6, <3>7,
         RecordsFromZoneCovers, PlanChangesCovers DEF Step
  <2> QED
    BY <2>2, <2>3
<1>3. ~ThirdPartyEdits
  BY <1>0 DEF ThirdPartyEdits
<1> QED
  BY <1>1, <1>2, <1>3, NextSteps

\* One instance that may delete never puts a CNAME beside another record nor another
\* record beside a CNAME, whatever its sources want, whoever owns the records, and
\* whatever the provider checks (ResolveRecordTypes, appendTakenDNSNameChanges).
THEOREM CNAMEsAlone ==
    ASSUME SoleWriter
    PROVE  Spec => []CNAMEAlone
<1>1. Init => AloneInv
  BY AloneInit
<1>2. RegistryInv /\ RegistryInv' /\ AloneInv /\ [Next]_vars => AloneInv'
  BY AloneNext
<1>3. AloneInv => CNAMEAlone
  BY DEF AloneInv, Alone, CNAMEAlone
<1> QED
  BY <1>1, <1>2, <1>3, RegistryCorrect, PTL DEF Spec

-----------------------------------------------------------------------------
(***************************************************************************)
(* The registry implements Ownership.                                      *)
(***************************************************************************)

\* The assumptions of this section: names tell apart, no owner is migrated, the
\* provider compares what is deleted or updated with what it has.
Compared ==
    /\ NamesTellApart
    /\ OldOwnerID = NoOwner
    /\ ProviderChecks = "all"

\* There is an ownership record of i for r.
Covered(i, r) == \E x \in txts : NamedFor(x, r) /\ x.targets.owner = i

\* What one batch of i does to records and ownership records.
LEMMA ApplyChangesActs ==
    ASSUME Compared, RegistryInv, NEW i \in Instances, ApplyChanges(i)
    PROVE  /\ \A r \in zone \ zone' : Covered(i, r)
           /\ \A r \in zone' \ zone :
                  Covered(i, r) \/ \A q \in zone : q.key = r.key => TXTType(q) # TXTType(r)
           /\ \A x \in txts \ txts' : x.targets.owner = i
           /\ \A x \in txts' \ txts :
                  /\ x.targets.owner = i
                  /\ \A y \in txts : y.key = x.key /\ y.type = x.type => y.targets.owner = i
<1> DEFINE fc == Filtered(i)
           rb == RecordBatch(fc)
           tb == TXTBatch(i, existing[i], fc)
<1>0. /\ TypeOK /\ ProcessInv(i) /\ Unique(txts) /\ \A r \in zone : Known(r)
      /\ (\A r \in zone : Known(r))'
  BY ApplyChangesZone DEF RegistryInv
<1>1. /\ pc[i] = "applying"
      /\ validateChangeBatch(zone, rb) /\ validateChangeBatch(txts, tb)
      /\ zone' = Applied(zone, rb) /\ txts' = Applied(txts, tb)
  BY DEF ApplyChanges, Acceptable, Filtered
<1>2. MayApply(i, Basis(i), fc) /\ \A e \in Concerned(fc) : Known(e)
  BY <1>0, <1>1 DEF ProcessInv
<1>3. AliasesKept /\ NamesTellApart /\ ProviderChecks = "all" /\ \A o : Migrated(i, o) = o
  BY DEF Compared, NamesTellApart, AliasesKept, SameRecord, Migrated
<1> HIDE DEF fc
<1>4. /\ fc \in Changes /\ fc.create \subseteq Endpoint /\ fc.updateNew \subseteq Endpoint
      /\ fc.delete \subseteq Endpoint
      /\ \A e \in fc.create \cup fc.updateNew : e.owner = i
      /\ zone \in SUBSET Record
  BY <1>0, <1>2 DEF MayApply, Changes, TypeOK
\* What is updated or deleted has an ownership record of i.
<1>5. \A e \in fc.updateNew \cup fc.delete :
          \E x \in txts : NamedFor(x, e) /\ x.targets.owner = i
  BY <1>1, <1>2, <1>3, ValidatedTXTs DEF NamedFor
<1>6. \A r : Known(r) /\ In(r, fc.updateNew \cup fc.delete) => Covered(i, r)
  <2> SUFFICES ASSUME NEW r, Known(r), NEW e \in fc.updateNew \cup fc.delete, SameRecord(r, e)
               PROVE  Covered(i, r)
    BY DEF In
  <2>1. TXTType(r) = TXTType(e)
    BY <1>2, <1>3, KnownNames DEF Concerned
  <2> QED
    BY <1>5, <2>1 DEF Covered, NamedFor, SameRecord
<1>7. \A r : In(r, fc.create) => ~In(r, zone)
  <2>1. \A e \in fc.create : ~In(Stored(e), zone)
    BY <1>1, <1>3 DEF validateChangeBatch, RecordBatch
  <2>2. \A e \in fc.create : SameRecord(Stored(e), e)
    BY <1>4, AppliedZone
  <2> QED
    BY <2>1, <2>2 DEF In, SameRecord
<1>8. \A r \in (zone \ zone') \cup (zone' \ zone) :
          In(r, fc.create \cup fc.updateNew \cup fc.delete)
  BY <1>1, <1>4, AppliedDifference
<1>9. \A r \in zone \ zone' : Covered(i, r)
  <2> SUFFICES ASSUME NEW r \in zone, r \notin zone' PROVE Covered(i, r)
    OBVIOUS
  <2>1. ~In(r, fc.create)
    BY <1>7 DEF In, SameRecord
  <2> QED
    BY <1>0, <1>6, <1>8, <2>1 DEF In
<1>10. \A r \in zone' \ zone :
           Covered(i, r) \/ \A q \in zone : q.key = r.key => TXTType(q) # TXTType(r)
  <2> SUFFICES ASSUME NEW r \in zone', r \notin zone, In(r, fc.create),
                      NEW q \in zone, q.key = r.key, TXTType(q) = TXTType(r)
               PROVE  FALSE
    BY <1>0, <1>6, <1>8 DEF In
  <2>1. q.type = r.type
    BY <1>0, <1>3, KnownApart
  <2> QED
    BY <1>7, <2>1 DEF In, SameRecord
\* A TXT of the batch is that of an endpoint of i.
<1>11. \A x \in tb.create \cup tb.updateNew : x.targets.owner = i
  BY <1>4, GeneratedTXT DEF TXTBatch
<1>12. \A x \in tb.create : ~In(x, txts)
  BY <1>1, <1>3 DEF validateChangeBatch
<1>13. \A x \in tb.updateNew \cup tb.delete : \A y \in txts : SameRecord(x, y) => y.targets.owner = i
  <2> SUFFICES ASSUME NEW e \in fc.updateNew \cup fc.delete, NEW y \in txts,
                      SameRecord(generateTXTRecord(i, e), y)
               PROVE  y.targets.owner = i
    BY DEF TXTBatch
  <2>1. NamedFor(y, e)
    BY <1>4, GeneratedTXT DEF NamedFor, SameRecord
  <2> QED
    BY <1>0, <1>5, <2>1 DEF NamedFor, Unique, SameRecord
<1> HIDE DEF rb, tb
<1>14. \A x \in txts \ txts' : x.targets.owner = i
  BY <1>1, <1>12, <1>13 DEF Applied, In, SameRecord
<1>15. \A x \in txts' \ txts :
           /\ x.targets.owner = i
           /\ \A y \in txts : y.key = x.key /\ y.type = x.type => y.targets.owner = i
  <2> SUFFICES ASSUME NEW x \in tb.create \cup tb.updateNew
               PROVE  /\ x.targets.owner = i
                      /\ \A y \in txts : y.key = x.key /\ y.type = x.type => y.targets.owner = i
    BY <1>1 DEF Applied
  <2> QED
    BY <1>11, <1>12, <1>13 DEF In, SameRecord
<1> QED
  BY <1>9, <1>10, <1>14, <1>15

\* Every step is one of Ownership, or changes nothing there.
LEMMA StepKeepsPromise ==
    ASSUME Compared, RegistryInv, [Next]_vars
    PROVE  [Promise!Next]_Promise!vars
<1> DEFINE rec == {[id |-> <<r.key, TXTType(r)>>, data |-> r] : r \in zone}
           cl == {[id |-> <<x.key, x.type>>, owner |-> x.targets.owner] : x \in txts}
<1>1. CASE zone' = zone /\ txts' = txts /\ faults' = faults
  BY <1>1 DEF Promise!vars
<1>2. CASE zone' = zone /\ txts' = txts /\ faults' # faults
  BY <1>2 DEF Promise!Next, Promise!Edit
<1>3. CASE ThirdPartyEdits
  <2>1. faults' # faults /\ txts' \subseteq txts
    BY <1>3 DEF ThirdPartyEdits, RegistryInv, TypeOK
  <2>2. cl' \subseteq cl
    BY <2>1
  <2> QED
    BY <2>1, <2>2 DEF Promise!Next, Promise!Edit
<1>4. ASSUME NEW i \in Instances, ApplyChanges(i)
      PROVE  Promise!Act(i)
  <2>1. /\ \A r \in zone \ zone' : Covered(i, r)
        /\ \A r \in zone' \ zone :
               Covered(i, r) \/ \A q \in zone : q.key = r.key => TXTType(q) # TXTType(r)
        /\ \A x \in txts \ txts' : x.targets.owner = i
        /\ \A x \in txts' \ txts :
               /\ x.targets.owner = i
               /\ \A y \in txts : y.key = x.key /\ y.type = x.type => y.targets.owner = i
    BY <1>4, ApplyChangesActs
  <2>2. \A r : Covered(i, r) => [id |-> <<r.key, TXTType(r)>>, owner |-> i] \in cl
    BY DEF Covered, NamedFor
  <2>3. \A x \in rec \ rec' : [id |-> x.id, owner |-> i] \in cl
    <3> SUFFICES ASSUME NEW x \in rec, x \notin rec'
                 PROVE  [id |-> x.id, owner |-> i] \in cl
      OBVIOUS
    <3>1. PICK r \in zone : x = [id |-> <<r.key, TXTType(r)>>, data |-> r]
      OBVIOUS
    <3>2. r \notin zone'
      BY <3>1
    <3> QED
      BY <2>1, <2>2, <3>1, <3>2
  <2>4. \A x \in rec' \ rec : [id |-> x.id, owner |-> i] \in cl \/ \A y \in rec : y.id # x.id
    <3> SUFFICES ASSUME NEW x \in rec', x \notin rec
                 PROVE  [id |-> x.id, owner |-> i] \in cl \/ \A y \in rec : y.id # x.id
      OBVIOUS
    <3>1. PICK r \in zone' : x = [id |-> <<r.key, TXTType(r)>>, data |-> r]
      OBVIOUS
    <3>2. r \notin zone
      BY <3>1
    <3>3. CASE Covered(i, r)
      BY <2>2, <3>1, <3>3
    <3>4. CASE \A q \in zone : q.key = r.key => TXTType(q) # TXTType(r)
      <4> SUFFICES ASSUME NEW y \in rec PROVE y.id # x.id
        OBVIOUS
      <4>1. PICK q \in zone : y.id = <<q.key, TXTType(q)>>
        OBVIOUS
      <4> QED
        BY <3>1, <3>4, <4>1
    <3> QED
      BY <2>1, <3>2, <3>3, <3>4
  <2>5. \A c \in cl \ cl' : c.owner = i
    BY <2>1
  <2>6. \A c \in cl' \ cl : c.owner = i /\ \A d \in cl : d.id = c.id => d.owner = i
    BY <2>1
  <2>7. faults' = faults
    BY <1>4 DEF ApplyChanges
  <2> QED
    BY <2>3, <2>4, <2>5, <2>6, <2>7 DEF Promise!Act, Promise!Holds
<1>5. CASE UNCHANGED vars
  BY <1>1, <1>5 DEF vars
<1>6. ASSUME NEW i \in Instances, Step(i)
      PROVE  ApplyChanges(i) \/ (zone' = zone /\ txts' = txts)
  BY <1>6, StepFrame DEF RegistryInv
<1> QED
  BY <1>1, <1>2, <1>3, <1>4, <1>5, <1>6, NextSteps DEF Promise!Next

\* The TXT registry implements Ownership, for any number of instances, records, faults
\* and edits: whatever happens between Records and ApplyChanges, an instance takes no
\* record and no ownership record from another one.
THEOREM ImplementsOwnership ==
    ASSUME Compared
    PROVE  Spec => KeepsPromise
<1>1. Init => Promise!Init
  BY TXTAssumption DEF Init, Promise!Init, Promise!OneOwner, Unique, SameRecord
<1>2. RegistryInv /\ [Next]_vars => [Promise!Next]_Promise!vars
  BY StepKeepsPromise
<1> QED
  BY <1>1, <1>2, RegistryCorrect, PTL DEF Spec, KeepsPromise, Promise!Spec


=============================================================================
