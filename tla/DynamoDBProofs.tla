--------------------------- MODULE DynamoDBProofs ---------------------------
(***************************************************************************)
(* Proofs about DynamoDBRegistry, for any number of processes, records and *)
(* faults, all policies and all providers.                                 *)
(***************************************************************************)
EXTENDS DynamoDBRegistry, PlanProofs

\* What the planner and the owner filter of ApplyChanges leave.
LEMMA FilteredChanges ==
    ASSUME NEW i \in Instances,
           NEW V \in SUBSET Endpoint, NEW S \in SUBSET Desirable
    PROVE  MayApply(i, V, filteredChanges(i, Calculate(i, NoOwner, V, S)))
<1> DEFINE ch == Calculate(i, NoOwner, V, S)
<1>1. i \in Owners /\ S \in SUBSET Endpoint
  BY DynamoDBAssumption
<1>2. PlannedFor(i, V, S, ch)
  BY <1>1, CalculateChanges
<1>3. filteredChanges(i, ch) = OwnedPlan(i, ch)
  BY DEF filteredChanges, OwnedPlan
<1> HIDE DEF ch
<1> QED
  BY <1>1, <1>2, <1>3, OwnedPlanApplies DEF ch

\* RowOf is a row of its owner, about the same record.
LEMMA RowOfEndpoint ==
    ASSUME NEW i \in Instances, NEW e \in Endpoint
    PROVE  RowOf(i, e) \in Row /\ RowOf(i, e).owner = i /\ SameRecord(RowOf(i, e), e)
  BY DynamoDBAssumption DEF RowOf, Row, Endpoint, SameRecord

\* A statement leaves a table, keeps it free of duplicates unless it is a duplicate
\* itself, takes a row only from its own owner and only by a DELETE, gives one only
\* to its own owner and only by an INSERT, which leaves its row in the table.
LEMMA ExecutedTable ==
    ASSUME NEW T, T \subseteq Row, NEW s \in Statement
    PROVE  /\ Executed(T, s) \subseteq Row
           /\ Unique(T) /\ ~Duplicate(T, s) => Unique(Executed(T, s))
           /\ \A w \in T :
                  \/ \E v \in Executed(T, s) : SameRecord(v, w) /\ v.owner = w.owner
                  \/ s.op = "DELETE" /\ SameRecord(s.row, w) /\ s.row.owner = w.owner
           /\ s.op = "INSERT" => s.row \in Executed(T, s)
           /\ \A v \in Executed(T, s) :
                  \/ \E w \in T : SameRecord(w, v) /\ w.owner = v.owner
                  \/ s.op = "INSERT" /\ v = s.row
<1>1. CASE s.op = "INSERT"
  <2>1. Executed(T, s) = T \cup {s.row}
    BY <1>1 DEF Executed
  <2>2. s.row \in Row
    BY DEF Statement
  <2>3. Unique(T) /\ ~Duplicate(T, s) => Unique(Executed(T, s))
    BY <1>1, <2>1 DEF Unique, Duplicate, In, SameRecord
  <2>4. \A w \in T : \E v \in Executed(T, s) : SameRecord(v, w) /\ v.owner = w.owner
    BY <2>1 DEF SameRecord
  <2>5. \A v \in Executed(T, s) :
            \/ \E w \in T : SameRecord(w, v) /\ w.owner = v.owner
            \/ v = s.row
    BY <2>1 DEF SameRecord
  <2> QED
    BY <1>1, <2>1, <2>2, <2>3, <2>4, <2>5
<1>2. CASE s.op = "UPDATE"
  <2> DEFINE f(w) == IF SameRecord(w, s.row) THEN [w EXCEPT !.resource = s.row.resource] ELSE w
  <2>1. Executed(T, s) = {f(w) : w \in T}
    BY <1>2 DEF Executed
  <2>2. s.row.resource \in Resources \cup {NoResource}
    BY DEF Statement, Row
  <2>3. \A w \in T : f(w) \in Row /\ SameRecord(f(w), w) /\ f(w).owner = w.owner
    BY <2>2 DEF Row, SameRecord
  <2> HIDE DEF f
  <2>4. Unique(T) => Unique(Executed(T, s))
    BY <2>1, <2>3 DEF Unique, SameRecord
  <2>5. \A v \in Executed(T, s) : \E w \in T : SameRecord(w, v) /\ w.owner = v.owner
    BY <2>1, <2>3 DEF SameRecord
  <2> QED
    BY <1>2, <2>1, <2>3, <2>4, <2>5
<1>3. CASE s.op = "DELETE"
  <2>1. Executed(T, s) = {w \in T : ~(SameRecord(w, s.row) /\ w.owner = s.row.owner)}
    BY <1>3 DEF Executed
  <2>2. Unique(T) => Unique(Executed(T, s))
    BY <2>1 DEF Unique
  <2>3. \A w \in T :
            \/ \E v \in Executed(T, s) : SameRecord(v, w) /\ v.owner = w.owner
            \/ SameRecord(s.row, w) /\ s.row.owner = w.owner
    BY <2>1 DEF SameRecord
  <2>4. \A v \in Executed(T, s) : \E w \in T : SameRecord(w, v) /\ w.owner = v.owner
    BY <2>1 DEF SameRecord
  <2> QED
    BY <1>3, <2>1, <2>2, <2>3, <2>4
<1> QED
  BY <1>1, <1>2, <1>3 DEF Statement

-----------------------------------------------------------------------------
(***************************************************************************)
(* Types.                                                                  *)
(***************************************************************************)

\* Records returns endpoints.
LEMMA LabelledType ==
    ASSUME NEW i \in Instances, NEW L \in SUBSET Row, NEW r \in Record
    PROVE  /\ Labelled(i, L, r) \in Endpoint
           /\ SameRecord(Labelled(i, L, r), r)
           /\ Labelled(i, L, r).owner = i => In(r, L)
<1> DEFINE own == {w \in L : SameRecord(w, r)}
           res == IF own # {} THEN (CHOOSE w \in own : TRUE).resource ELSE NoResource
<1>1. res \in Resources \cup {NoResource}
  <2>1. own # {} => (CHOOSE w \in own : TRUE) \in L
    OBVIOUS
  <2> QED
    BY <2>1 DEF Row
<1>2. i \in Owners
  BY DynamoDBAssumption
<1>3. NoOwner \notin Owners
  BY PlanAssumption
<1> DEFINE o == IF own # {} THEN i ELSE NoOwner
<1>4. o \in Owners \cup {NoOwner} /\ (o = i => In(r, L))
  BY <1>2, <1>3 DEF In, SameRecord
<1>5. Labelled(i, L, r) =
          [key |-> r.key, type |-> r.type, targets |-> r.targets, ttl |-> r.ttl,
           props |-> r.props, owner |-> o, resource |-> res]
  BY DEF Labelled
<1> HIDE DEF o, res
<1> QED
  BY <1>1, <1>4, <1>5 DEF Record, Endpoint, SameRecord

\* The labels, the statements and the cache that ApplyChanges derives.
LEMMA PlannedTypes ==
    ASSUME NEW i \in Instances, NEW L \in SUBSET Row, NEW O \in SUBSET Row,
           NEW c \in SUBSET Endpoint, NEW fc \in Changes
    PROVE  /\ ClaimStatements(i, L, fc) \in SUBSET Statement
           /\ ReleaseStatements(i, O, fc) \in SUBSET Statement
           /\ LabelsAfter(i, L, fc) \in SUBSET Row
           /\ CacheAfter(c, fc) \in SUBSET Endpoint
<1>1. \A e \in Endpoint : RowOf(i, e) \in Row
  BY RowOfEndpoint
<1>2. /\ fc.create \subseteq Endpoint
      /\ fc.updateOld \subseteq Endpoint
      /\ fc.updateNew \subseteq Endpoint
      /\ fc.delete \subseteq Endpoint
  BY DEF Changes
<1>3. \A op \in {"INSERT", "UPDATE", "DELETE"}, w \in Row : [op |-> op, row |-> w] \in Statement
  BY DEF Statement
<1>4. ClaimStatements(i, L, fc) \in SUBSET Statement
  BY <1>1, <1>2, <1>3 DEF ClaimStatements, InsertStatements, UpdateStatements
<1>5. ReleaseStatements(i, O, fc) \in SUBSET Statement
  BY <1>1, <1>2, <1>3 DEF ReleaseStatements
<1>6. LabelsAfter(i, L, fc) \in SUBSET Row
  BY <1>1, <1>2 DEF LabelsAfter
<1>7. CacheAfter(c, fc) \in SUBSET Endpoint
  BY <1>2 DEF CacheAfter
<1> QED
  BY <1>4, <1>5, <1>6, <1>7

\* A step of instance i keeps the types.
LEMMA TypeStep ==
    ASSUME TypeOK, NEW i \in Instances,
           \/ RecordsFromCache(i) \/ ReadLabels(i) \/ RecordsFromZone(i) \/ PlanChanges(i)
           \/ ExecuteStatement(i) \/ InsertLost(i) \/ SubmitChanges(i) \/ SubmitRejected(i)
           \/ Finish(i) \/ SubmitFailsSoftly(i) \/ Kill(i) \/ Restart(i) \/ CacheExpires(i)
           \/ SourceChanges(i)
    PROVE  TypeOK'
<1> USE DEF TypeOK
<1>0. NoChanges \in Changes /\ CacheRecords \in BOOLEAN
  BY DynamoDBAssumption DEF NoChanges, Changes
<1>1. CASE RecordsFromCache(i)
  BY <1>1 DEF RecordsFromCache
<1>2. CASE ReadLabels(i)
  BY <1>2 DEF ReadLabels
<1>3. CASE RecordsFromZone(i)
  <2>1. {Labelled(i, labels[i], r) : r \in zone} \in SUBSET Endpoint
    <3>1. labels[i] \in SUBSET Row /\ zone \subseteq Record
      OBVIOUS
    <3>2. \A r \in zone : Labelled(i, labels[i], r) \in Endpoint
      BY <3>1, LabelledType
    <3> QED
      BY <3>2
  <2>2. view' \in [Instances -> SUBSET Endpoint]
    BY <1>3, <2>1 DEF RecordsFromZone
  <2>3. view'[i] \in SUBSET Endpoint
    BY <2>2
  <2>4. fresh' \in [Instances -> BOOLEAN] /\ cache' \in [Instances -> SUBSET Endpoint]
    BY <1>0, <1>3, <2>3 DEF RecordsFromZone
  <2> QED
    BY <1>3, <2>2, <2>4 DEF RecordsFromZone
<1>4. CASE PlanChanges(i)
  <2> DEFINE ch == Calculate(i, NoOwner, view[i], source[i])
             fc == filteredChanges(i, ch)
  <2>1. fc \in Changes
    <3>1. view[i] \in SUBSET Endpoint /\ source[i] \in SUBSET Desirable
      OBVIOUS
    <3>2. MayApply(i, view[i], fc)
      BY <3>1, FilteredChanges
    <3> HIDE DEF fc
    <3> QED
      BY <3>2 DEF MayApply
  <2> HIDE DEF fc
  <2>2. CASE HasChanges(ch)
    <3>1. /\ changes' = [changes EXCEPT ![i] = fc]
          /\ statements' = [statements EXCEPT ![i] = ClaimStatements(i, labels[i], fc)]
          /\ orphaned' = [orphaned EXCEPT ![i] = {w \in @ : ~In(w, fc.create)}]
          /\ labels' = [labels EXCEPT ![i] = LabelsAfter(i, @, fc)]
          /\ cache' = [cache EXCEPT ![i] = IF fresh[i] THEN CacheAfter(@, fc) ELSE {}]
          /\ pc' = [pc EXCEPT ![i] = "claiming"]
      BY <1>4, <2>2 DEF PlanChanges, fc
    <3>2. /\ ClaimStatements(i, labels[i], fc) \in SUBSET Statement
          /\ LabelsAfter(i, labels[i], fc) \in SUBSET Row
          /\ CacheAfter(cache[i], fc) \in SUBSET Endpoint
      BY <2>1, PlannedTypes
    <3> QED
      BY <1>4, <2>1, <3>1, <3>2 DEF PlanChanges
  <2>3. CASE ~HasChanges(ch)
    BY <1>4, <2>3 DEF PlanChanges
  <2> QED
    BY <2>2, <2>3
<1>5. CASE ExecuteStatement(i)
  <2>1. PICK s \in statements[i] :
            /\ table' = Executed(table, s)
            /\ statements' = [statements EXCEPT ![i] = @ \ {s}]
    BY <1>5 DEF ExecuteStatement
  <2>2. s \in Statement
    OBVIOUS
  <2>3. table' \subseteq Row
    BY <2>1, <2>2, ExecutedTable
  <2> QED
    BY <1>5, <2>1, <2>3 DEF ExecuteStatement
<1>6. CASE InsertLost(i)
  <2>1. PICK s \in statements[i] :
            /\ statements' = [statements EXCEPT ![i] = @ \ {s}]
            /\ changes' = [changes EXCEPT ![i].create = {e \in @ : ~SameRecord(e, s.row)}]
            /\ labels' = [labels EXCEPT ![i] = {w \in @ : ~SameRecord(w, s.row)}]
            /\ cache' = [cache EXCEPT ![i] =
                  {c \in @ : ~Matches(c, {e \in changes[i].create : SameRecord(e, s.row)})}]
    BY <1>6 DEF InsertLost
  <2> DEFINE left == {e \in changes[i].create : ~SameRecord(e, s.row)}
  <2>2. changes' \in [Instances -> Changes]
    <3>1. changes[i] \in Changes
      OBVIOUS
    <3>2. [changes[i] EXCEPT !.create = left] \in Changes
      BY <3>1 DEF Changes
    <3>3. changes' = [changes EXCEPT ![i] = [changes[i] EXCEPT !.create = left]]
      BY <2>1
    <3> QED
      BY <3>2, <3>3
  <2> QED
    BY <1>6, <2>1, <2>2 DEF InsertLost
<1>7. CASE SubmitChanges(i)
  <2>1. Applied(zone, RecordBatch(changes[i])) \subseteq Record
    BY AppliedZone
  <2>2. ReleaseStatements(i, orphaned[i], changes[i]) \in SUBSET Statement
    BY PlannedTypes
  <2> QED
    BY <1>0, <1>7, <2>1, <2>2 DEF SubmitChanges
<1>8. CASE SubmitRejected(i)
  BY <1>0, <1>8 DEF SubmitRejected, Forget
<1>9. CASE Finish(i)
  BY <1>9 DEF Finish
<1>10. CASE SubmitFailsSoftly(i)
  BY <1>0, <1>10 DEF SubmitFailsSoftly
<1>11. CASE Kill(i)
  BY <1>0, <1>11 DEF Kill, Forget
<1>12. CASE Restart(i)
  BY <1>12 DEF Restart
<1>13. CASE CacheExpires(i)
  BY <1>13 DEF CacheExpires
<1>14. CASE SourceChanges(i)
  BY <1>14 DEF SourceChanges, SourceStates
<1> QED
  BY <1>1, <1>2, <1>3, <1>4, <1>5, <1>6, <1>7, <1>8, <1>9, <1>10, <1>11, <1>12, <1>13, <1>14

-----------------------------------------------------------------------------
(***************************************************************************)
(* The invariant of a process.                                             *)
(***************************************************************************)

\* A step leaves alone what process j remembers ...
Untouched(j) ==
    /\ pc'[j] = pc[j]
    /\ loaded'[j] = loaded[j]
    /\ labels'[j] = labels[j]
    /\ orphaned'[j] = orphaned[j]
    /\ view'[j] = view[j]
    /\ changes'[j] = changes[j]
    /\ statements'[j] = statements[j]
    /\ fresh'[j] = fresh[j]
    /\ cache'[j] = cache[j]

\* ... and takes no record from it.
RowsKept(j) ==
    \A w \in table : w.owner = j => \E v \in table' : SameRecord(v, w) /\ v.owner = j

\* Then the invariant of j is kept.
LEMMA UntouchedInv ==
    ASSUME NEW j \in Instances, ProcessInv(j), Untouched(j), RowsKept(j)
    PROVE  ProcessInv(j)'
<1>1. \A e : Owns(j, e) => Owns(j, e)'
  BY DEF RowsKept, Owns, SameRecord
<1>2. \A op, e : Pending(j, op, e)' <=> Pending(j, op, e)
  BY DEF Untouched, Pending
<1>3. Claimed(j)' = Claimed(j)
  BY DEF Untouched, Claimed
<1>4. StatementsInv(j)'
  BY DEF ProcessInv, StatementsInv, Untouched
<1>5. ClaimInv(j)'
  BY <1>1, <1>2, <1>3 DEF ProcessInv, ClaimInv
<1>6. ChangesInv(j)'
  BY <1>1, <1>2, <1>3 DEF ProcessInv, ChangesInv, Untouched
<1>7. CacheInv(j)'
  BY DEF ProcessInv, CacheInv, Untouched
<1>8. OrphanInv(j)'
  BY DEF ProcessInv, OrphanInv, Untouched
<1> QED
  BY <1>4, <1>5, <1>6, <1>7, <1>8 DEF ProcessInv

\* A process that knows nothing satisfies its invariant.
LEMMA NothingKnown ==
    ASSUME NEW i \in Instances,
           pc[i] \in {"idle", "exited"}, statements[i] = {}, labels[i] = {},
           view[i] = {}, cache[i] = {}, fresh[i] = FALSE,
           \A w \in orphaned[i] : w.owner = i
    PROVE  ProcessInv(i)
  BY DEF ProcessInv, StatementsInv, ClaimInv, ChangesInv, CacheInv, OrphanInv, Claimed,
         Unique, Pending

\* The steps that leave the table alone and claim nothing new.
LEMMA PlainSteps ==
    ASSUME TypeOK, NEW i \in Instances, ProcessInv(i),
           \/ RecordsFromCache(i) \/ ReadLabels(i) \/ Finish(i) \/ SubmitRejected(i)
           \/ SubmitFailsSoftly(i) \/ Kill(i) \/ Restart(i) \/ CacheExpires(i)
           \/ SourceChanges(i)
    PROVE  ProcessInv(i)'
<1> USE DEF TypeOK
<1>1. CASE RecordsFromCache(i)
  BY <1>1 DEF RecordsFromCache, ProcessInv, StatementsInv, ClaimInv, ChangesInv, CacheInv,
              OrphanInv, Claimed, Owns, Pending, Unique
<1>2. CASE ReadLabels(i)
  BY <1>2 DEF ReadLabels, ProcessInv, StatementsInv, ClaimInv, ChangesInv, CacheInv,
              OrphanInv, Claimed, Owns, Pending, Unique, SameRecord
<1>3. CASE Finish(i)
  BY <1>3 DEF Finish, ProcessInv, StatementsInv, ClaimInv, ChangesInv, CacheInv,
              OrphanInv, Claimed, Owns, Pending, Unique
<1>4. CASE SubmitRejected(i) \/ Kill(i)
  <2>1. /\ pc'[i] = "exited" /\ statements'[i] = {} /\ labels'[i] = {}
        /\ view'[i] = {} /\ cache'[i] = {} /\ fresh'[i] = FALSE /\ orphaned'[i] = {}
    BY <1>4 DEF SubmitRejected, Kill, Forget
  <2> QED
    BY <2>1 DEF ProcessInv, StatementsInv, ClaimInv, ChangesInv, CacheInv, OrphanInv, Claimed,
         Unique, Pending
<1>5. CASE SubmitFailsSoftly(i)
  <2>1. /\ pc'[i] = "idle" /\ statements'[i] = {} /\ labels'[i] = {}
        /\ view'[i] = {} /\ cache'[i] = {} /\ fresh'[i] = FALSE
        /\ \A w \in orphaned'[i] : w.owner = i
    BY <1>5 DEF SubmitFailsSoftly, ProcessInv, StatementsInv, CacheInv
  <2> QED
    BY <2>1 DEF ProcessInv, StatementsInv, ClaimInv, ChangesInv, CacheInv, OrphanInv, Claimed,
         Unique, Pending
<1>6. CASE Restart(i)
  BY <1>6 DEF Restart, ProcessInv, StatementsInv, ClaimInv, ChangesInv, CacheInv,
              OrphanInv, Claimed, Owns, Pending, Unique
<1>7. CASE CacheExpires(i)
  BY <1>7 DEF CacheExpires, ProcessInv, StatementsInv, ClaimInv, ChangesInv, CacheInv,
              OrphanInv, Claimed, Owns, Pending, Unique
<1>8. CASE SourceChanges(i)
  <2>1. Untouched(i) /\ RowsKept(i)
    BY <1>8 DEF SourceChanges, Untouched, RowsKept, SameRecord
  <2> QED
    BY <2>1, UntouchedInv
<1> QED
  BY <1>1, <1>2, <1>3, <1>4, <1>5, <1>6, <1>7, <1>8

\* Records labels what the zone has; what is labelled is not an orphan.
LEMMA RecordsFromZoneInv ==
    ASSUME TypeOK, Unique(zone), NEW i \in Instances, ProcessInv(i), RecordsFromZone(i)
    PROVE  ProcessInv(i)'
<1> DEFINE lab(r) == Labelled(i, labels[i], r)
<1>1. labels[i] \in SUBSET Row /\ zone \subseteq Record
  BY DEF TypeOK
<1>2. \A r \in zone : SameRecord(lab(r), r) /\ (lab(r).owner = i => In(r, labels[i]))
  BY <1>1, LabelledType
<1> HIDE DEF lab
<1>3. /\ pc[i] = "idle" /\ ~fresh[i] /\ view'[i] = {lab(r) : r \in zone}
      /\ pc'[i] = "planning"
      /\ orphaned'[i] = {w \in labels[i] : ~In(w, zone)}
      /\ fresh'[i] = CacheRecords
      /\ cache'[i] = IF CacheRecords THEN view'[i] ELSE {}
      /\ labels'[i] = labels[i] /\ statements'[i] = statements[i] /\ table' = table
  BY DEF RecordsFromZone, TypeOK, lab
<1>4. statements[i] = {}
  BY <1>3 DEF ProcessInv, StatementsInv
<1>5. CacheInv(i)'
  <2>1. Unique(view[i])'
    BY <1>2, <1>3 DEF Unique, SameRecord
  <2> QED
    BY <1>3, <2>1 DEF CacheInv, Unique
<1>6. \A w \in labels[i] : Owns(i, w)
  BY <1>4 DEF ProcessInv, ClaimInv, Claimed, Pending
<1>7. \A e \in view'[i] : e.owner = i => /\ \E w \in labels[i] : SameRecord(w, e)
                                         /\ \E r \in zone : SameRecord(r, e)
  BY <1>2, <1>3 DEF In, SameRecord
<1>8. \A e \in Claimed(i)' : \E w \in labels[i] : SameRecord(w, e)
  BY <1>3, <1>7 DEF Claimed, SameRecord
<1>9. ClaimInv(i)'
  BY <1>3, <1>4, <1>6, <1>8 DEF ClaimInv, Owns, Pending, SameRecord
<1>10. OrphanInv(i)'
  <2>1. \A w \in labels'[i] : In(w, orphaned'[i]) => w \in orphaned'[i]
    BY <1>3 DEF In, SameRecord
  <2>2. \A e \in view'[i] : e.owner = i => ~In(e, orphaned'[i])
    BY <1>3, <1>7 DEF In, SameRecord
  <2> QED
    BY <1>3, <2>1, <2>2 DEF OrphanInv, In, SameRecord
<1>11. StatementsInv(i)' /\ ChangesInv(i)'
  BY <1>3, <1>4 DEF ProcessInv, StatementsInv, ChangesInv
<1> QED
  BY <1>5, <1>9, <1>10, <1>11 DEF ProcessInv

\* Executing a statement: a claim becomes a row, and a release takes no row that a
\* claim needs.
LEMMA ExecuteStatementInv ==
    ASSUME TypeOK, NEW i \in Instances, ProcessInv(i), ExecuteStatement(i)
    PROVE  ProcessInv(i)' /\ \A j \in Instances \ {i} : ProcessInv(j) => ProcessInv(j)'
<1>1. PICK s \in statements[i] :
          /\ ~Duplicate(table, s)
          /\ table' = Executed(table, s)
          /\ statements' = [statements EXCEPT ![i] = @ \ {s}]
  BY DEF ExecuteStatement
<1>2. s \in Statement /\ table \subseteq Row /\ s.row.owner = i
  BY DEF TypeOK, ProcessInv, StatementsInv
<1>3. statements'[i] = statements[i] \ {s}
  BY <1>1 DEF TypeOK
<1>4. /\ pc' = pc /\ labels' = labels /\ orphaned' = orphaned /\ view' = view
      /\ changes' = changes /\ fresh' = fresh /\ cache' = cache /\ loaded' = loaded
  BY DEF ExecuteStatement
<1>5. \A w \in table :
          \/ \E v \in table' : SameRecord(v, w) /\ v.owner = w.owner
          \/ s.op = "DELETE" /\ SameRecord(s.row, w) /\ i = w.owner
  <2>1. \A w \in table :
            \/ \E v \in Executed(table, s) : SameRecord(v, w) /\ v.owner = w.owner
            \/ s.op = "DELETE" /\ SameRecord(s.row, w) /\ s.row.owner = w.owner
    BY <1>2, ExecutedTable
  <2> QED
    BY <1>1, <1>2, <2>1
<1>6. s.op = "INSERT" => s.row \in table'
  BY <1>1, <1>2, ExecutedTable
<1>7. ASSUME NEW j \in Instances \ {i}, ProcessInv(j)
      PROVE  ProcessInv(j)'
  <2>1. Untouched(j)
    BY <1>1, <1>4 DEF Untouched, TypeOK
  <2>2. RowsKept(j)
    BY <1>5 DEF RowsKept
  <2> QED
    BY <1>7, <2>1, <2>2, UntouchedInv
<1>8. \A e : Owns(i, e) /\ ~Pending(i, "DELETE", e) => Owns(i, e)'
  BY <1>5 DEF Owns, Pending, SameRecord
<1>9. \A e : Pending(i, "INSERT", e) => Pending(i, "INSERT", e)' \/ Owns(i, e)'
  BY <1>2, <1>3, <1>6 DEF Owns, Pending
<1>10. \A e : Pending(i, "DELETE", e)' => Pending(i, "DELETE", e)
  BY <1>3 DEF Pending
<1>11. Claimed(i)' = Claimed(i)
  BY <1>4 DEF Claimed
<1>12. ClaimInv(i)'
  BY <1>8, <1>9, <1>10, <1>11 DEF ProcessInv, ClaimInv
<1>13. StatementsInv(i)'
  BY <1>3, <1>4 DEF ProcessInv, StatementsInv
<1>14. pc[i] = "claiming" => \A e : ~Pending(i, "DELETE", e)
  BY DEF ProcessInv, StatementsInv, Pending
<1>15. ChangesInv(i)'
  BY <1>3, <1>4, <1>8, <1>9, <1>11, <1>14 DEF ProcessInv, ChangesInv
<1>16. CacheInv(i)' /\ OrphanInv(i)'
  BY <1>4 DEF ProcessInv, CacheInv, OrphanInv
<1> QED
  BY <1>7, <1>12, <1>13, <1>15, <1>16 DEF ProcessInv

\* An INSERT that meets another row: the endpoint disappears from the changes, the
\* labels and the cache, and nothing else does that needs its INSERT.
LEMMA InsertLostInv ==
    ASSUME TypeOK, NEW i \in Instances, ProcessInv(i), InsertLost(i)
    PROVE  ProcessInv(i)'
<1> DEFINE ch == changes[i]
<1>1. PICK s \in statements[i] :
          /\ Duplicate(table, s)
          /\ statements' = [statements EXCEPT ![i] = @ \ {s}]
          /\ changes' = [changes EXCEPT ![i].create = {e \in @ : ~SameRecord(e, s.row)}]
          /\ labels' = [labels EXCEPT ![i] = {w \in @ : ~SameRecord(w, s.row)}]
          /\ cache' = [cache EXCEPT ![i] =
                {c \in @ : ~Matches(c, {e \in changes[i].create : SameRecord(e, s.row)})}]
  BY DEF InsertLost
<1>2. s.op = "INSERT"
  BY <1>1 DEF Duplicate
<1>3. /\ pc[i] = "claiming" /\ pc'[i] = "claiming" /\ table' = table
      /\ orphaned'[i] = orphaned[i] /\ view'[i] = view[i] /\ fresh'[i] = fresh[i]
      /\ labels'[i] = {w \in labels[i] : ~SameRecord(w, s.row)}
      /\ statements'[i] = statements[i] \ {s}
      /\ cache'[i] = {c \in cache[i] : ~Matches(c, {e \in ch.create : SameRecord(e, s.row)})}
  BY <1>1 DEF InsertLost, TypeOK
<1>4. /\ changes'[i].create = {e \in ch.create : ~SameRecord(e, s.row)}
      /\ changes'[i].updateNew = ch.updateNew
      /\ changes'[i].delete = ch.delete
  BY <1>1 DEF TypeOK, Changes
<1>5. /\ \A e \in ch.create : Owns(i, e) \/ Pending(i, "INSERT", e)
      /\ \A e \in ch.updateNew \cup ch.delete : Owns(i, e)
      /\ \A e \in Claimed(i) : ~In(e, ch.delete)
      /\ \A e \in ch.create \cup ch.updateNew : ~In(e, orphaned[i])
      /\ Unique(ch.create)
      /\ Unique(ch.updateNew)
      /\ fresh[i] => ch.create \subseteq cache[i]
      /\ In(s.row, ch.create)
      /\ \A q \in statements[i] : q.op = "INSERT" =>
             /\ In(q.row, ch.create)
             /\ SameRecord(q.row, s.row) => q = s
             /\ \A t \in statements[i] :
                    t.op = "INSERT" /\ SameRecord(t.row, q.row) => t = q
  BY <1>2, <1>3 DEF ProcessInv, ChangesInv
<1>6. view[i] = {} /\ Unique(cache[i]) /\ (~fresh[i] => cache[i] = {})
  BY <1>3 DEF ProcessInv, CacheInv
<1>7. PICK e0 \in ch.create : SameRecord(s.row, e0)
  BY <1>5 DEF In
\* A cached record of the lost name is the endpoint that lost.
<1>8. \A c \in cache'[i] : c \in cache[i] /\ ~SameRecord(c, s.row)
  <2> SUFFICES ASSUME NEW c \in cache[i], SameRecord(c, s.row)
               PROVE  Matches(c, {e \in ch.create : SameRecord(e, s.row)})
    BY <1>3
  <2>1. e0 \in cache[i]
    BY <1>5, <1>6, <1>7
  <2>2. c = e0
    BY <1>6, <1>7, <2>1 DEF Unique, SameRecord
  <2> QED
    BY <1>7, <2>2 DEF Matches, SameRecord
<1>9. \A e \in Claimed(i)' : e \in Claimed(i) /\ ~SameRecord(e, s.row)
  BY <1>3, <1>6, <1>8 DEF Claimed
<1>10. \A e : ~SameRecord(e, s.row) /\ Pending(i, "INSERT", e) => Pending(i, "INSERT", e)'
  BY <1>3 DEF Pending, SameRecord
<1>11. \A e : Owns(i, e)' <=> Owns(i, e)
  BY <1>3 DEF Owns
<1>12. \A e : Pending(i, "DELETE", e)' => Pending(i, "DELETE", e)
  BY <1>3 DEF Pending
<1>13. ClaimInv(i)'
  BY <1>9, <1>10, <1>11, <1>12 DEF ProcessInv, ClaimInv
<1>14. ChangesInv(i)'
  <2>1. \A e \in changes'[i].create : Owns(i, e)' \/ Pending(i, "INSERT", e)'
    BY <1>4, <1>5, <1>10, <1>11
  <2>2. \A e \in changes'[i].updateNew \cup changes'[i].delete : Owns(i, e)'
    BY <1>4, <1>5, <1>11
  <2>3. \A e \in Claimed(i)' : ~In(e, changes'[i].delete)
    BY <1>4, <1>5, <1>9
  <2>4. /\ Unique(changes'[i].create) /\ Unique(changes'[i].updateNew)
        /\ \A e \in changes'[i].create \cup changes'[i].updateNew : ~In(e, orphaned'[i])
    BY <1>3, <1>4, <1>5 DEF Unique
  <2>5. fresh'[i] => changes'[i].create \subseteq cache'[i]
    BY <1>3, <1>4, <1>5 DEF Matches, SameRecord
  <2>6. \A q \in statements'[i] : q.op = "INSERT" => In(q.row, changes'[i].create)
    BY <1>3, <1>4, <1>5 DEF In, SameRecord
  <2>7. \A q \in statements'[i] : q.op = "INSERT" =>
            \A t \in statements'[i] : t.op = "INSERT" /\ SameRecord(t.row, q.row) => t = q
    BY <1>3, <1>5
  <2> QED
    BY <2>1, <2>2, <2>3, <2>4, <2>5, <2>6, <2>7 DEF ChangesInv
<1>15. StatementsInv(i)'
  BY <1>3 DEF ProcessInv, StatementsInv
<1>16. CacheInv(i)'
  BY <1>3, <1>6, <1>8 DEF CacheInv, Unique
<1>17. OrphanInv(i)'
  BY <1>3, <1>6, <1>8 DEF ProcessInv, OrphanInv
<1> QED
  BY <1>13, <1>14, <1>15, <1>16, <1>17 DEF ProcessInv

\* The statements made for changes fc: an INSERT for every new record without a row
\* among the labels, one per record, and no DELETE.
LEMMA ClaimStatementsFor ==
    ASSUME NEW i \in Instances, NEW L \in SUBSET Row, NEW fc \in Changes, Unique(fc.create)
    PROVE  LET claims == ClaimStatements(i, L, fc)
           IN  /\ \A s \in claims : s.row.owner = i /\ s.op # "DELETE"
               /\ \A e \in fc.create : \/ In(e, L)
                                       \/ \E s \in claims : s.op = "INSERT" /\ SameRecord(s.row, e)
               /\ \A s \in claims : s.op = "INSERT" =>
                      /\ In(s.row, fc.create)
                      /\ \A q \in claims :
                             q.op = "INSERT" /\ SameRecord(q.row, s.row) => q = s
<1> DEFINE claims == ClaimStatements(i, L, fc)
           rows == {RowOf(i, e) : e \in fc.create}
<1>1. fc.create \subseteq Endpoint /\ fc.updateNew \subseteq Endpoint
  BY DEF Changes
<1>2. \A e \in Endpoint : RowOf(i, e).owner = i /\ SameRecord(RowOf(i, e), e)
  BY RowOfEndpoint
<1> DEFINE olds == {RowOf(i, e) : e \in fc.updateOld}
           news == {RowOf(i, e) : e \in fc.updateNew}
<1>3. /\ claims = InsertStatements(L, rows) \cup UpdateStatements(L, rows)
                      \cup UpdateStatements(olds, news)
      /\ \A s \in InsertStatements(L, rows) : s.op = "INSERT" /\ s.row \in rows
      /\ \A s \in UpdateStatements(L, rows) : s.op = "UPDATE" /\ s.row \in rows
      /\ \A s \in UpdateStatements(olds, news) : s.op = "UPDATE" /\ s.row \in news
  <2>1. claims = InsertStatements(L, rows) \cup UpdateStatements(L, rows)
                      \cup UpdateStatements(olds, news)
    BY DEF ClaimStatements
  <2> HIDE DEF claims, rows, olds, news
  <2>2. \A s \in InsertStatements(L, rows) : s.op = "INSERT" /\ s.row \in rows
    BY DEF InsertStatements
  <2>3. \A s \in UpdateStatements(L, rows) : s.op = "UPDATE" /\ s.row \in rows
    BY DEF UpdateStatements
  <2>4. \A s \in UpdateStatements(olds, news) : s.op = "UPDATE" /\ s.row \in news
    BY DEF UpdateStatements
  <2> QED
    BY <2>1, <2>2, <2>3, <2>4
<1>4. /\ \A s \in claims : s.row.owner = i /\ s.op # "DELETE"
      /\ \A s \in claims : s.op = "INSERT" => s \in InsertStatements(L, rows)
  <2>1. \A w \in rows \cup news : w.owner = i
    BY <1>1, <1>2
  <2> HIDE DEF claims, rows, olds, news
  <2> QED
    BY <1>3, <2>1
<1>5. \A s \in InsertStatements(L, rows) : \E e \in fc.create :
          s = [op |-> "INSERT", row |-> RowOf(i, e)] /\ SameRecord(s.row, e)
  BY <1>1, <1>2 DEF InsertStatements
<1>6. \A e \in fc.create : ~In(e, L) =>
          [op |-> "INSERT", row |-> RowOf(i, e)] \in claims
  <2> SUFFICES ASSUME NEW e \in fc.create, ~In(e, L)
               PROVE  [op |-> "INSERT", row |-> RowOf(i, e)] \in claims
    OBVIOUS
  <2>1. RowOf(i, e) \in rows /\ ~In(RowOf(i, e), L)
    BY <1>1, <1>2 DEF In, SameRecord
  <2> QED
    BY <2>1 DEF ClaimStatements, InsertStatements
<1> HIDE DEF claims, rows
<1>7. \A e \in fc.create : \/ In(e, L)
                           \/ \E s \in claims : s.op = "INSERT" /\ SameRecord(s.row, e)
  BY <1>1, <1>2, <1>6
<1>8. ASSUME NEW s \in claims, s.op = "INSERT"
      PROVE  /\ In(s.row, fc.create)
             /\ \A q \in claims : q.op = "INSERT" /\ SameRecord(q.row, s.row) => q = s
  <2>1. PICK e \in fc.create :
            s = [op |-> "INSERT", row |-> RowOf(i, e)] /\ SameRecord(s.row, e)
    BY <1>4, <1>5, <1>8
  <2> SUFFICES ASSUME NEW q \in claims, q.op = "INSERT", SameRecord(q.row, s.row)
               PROVE  q = s
    BY <2>1 DEF In
  <2>2. PICK f \in fc.create :
            q = [op |-> "INSERT", row |-> RowOf(i, f)] /\ SameRecord(q.row, f)
    BY <1>4, <1>5
  <2>3. e = f
    BY <2>1, <2>2 DEF Unique, SameRecord
  <2> QED
    BY <2>1, <2>2, <2>3
<1> QED
  BY <1>4, <1>7, <1>8 DEF claims

\* The cache that ApplyChanges leaves, if it was what Records returned: new records
\* are in it, changed ones in their new version and deleted ones not at all.
LEMMA CacheAfterChanges ==
    ASSUME NEW i \in Instances, NEW V \in SUBSET Endpoint, NEW fc, MayApply(i, V, fc), Unique(V)
    PROVE  /\ Unique(CacheAfter(V, fc))
           /\ fc.create \subseteq CacheAfter(V, fc)
           /\ \A e \in CacheAfter(V, fc) : e.owner = i =>
                  \/ e \in fc.create \cup fc.updateNew
                  \/ e \in V /\ ~In(e, fc.delete)
<1>1. CacheAfter(V, fc) = Patched(V, fc)
  BY DEF CacheAfter, Patched
<1>2. /\ Unique(Patched(V, fc))
      /\ fc.create \subseteq Patched(V, fc)
      /\ \A e \in Patched(V, fc) :
             \/ e \in fc.create \cup fc.updateNew
             \/ e \in V /\ ~In(e, fc.delete \cup fc.updateOld)
  BY PatchedCache
<1> QED
  BY <1>1, <1>2 DEF In

\* The first part of ApplyChanges: everything it claims has a row of this process or
\* an INSERT, and it forgets the labels and the cached records of what it deletes.
LEMMA PlanChangesInv ==
    ASSUME TypeOK, NEW i \in Instances, ProcessInv(i), PlanChanges(i)
    PROVE  ProcessInv(i)'
<1> DEFINE V == view[i]
           ch == Calculate(i, NoOwner, V, source[i])
           fc == filteredChanges(i, ch)
<1>1. /\ V \in SUBSET Endpoint /\ source[i] \in SUBSET Desirable
      /\ labels[i] \in SUBSET Row /\ i \in DOMAIN view
  BY DEF TypeOK
<1>2. MayApply(i, V, fc)
  BY <1>1, FilteredChanges
<1>3. /\ pc[i] = "planning" /\ view'[i] = {} /\ fresh'[i] = fresh[i] /\ table' = table
  BY DEF PlanChanges, TypeOK
<1>4. /\ statements[i] = {}
      /\ \A w \in labels[i] \cup orphaned[i] : w.owner = i
      /\ \A e \in Claimed(i) : Owns(i, e)
      /\ Unique(V) /\ Unique(cache[i])
      /\ fresh[i] => cache[i] = V
      /\ ~fresh[i] => cache[i] = {}
      /\ \A w \in labels[i] : In(w, orphaned[i]) => w \in orphaned[i]
      /\ \A e \in V : e.owner = i => ~In(e, orphaned[i])
  BY <1>3 DEF ProcessInv, StatementsInv, ClaimInv, CacheInv, OrphanInv, Pending
<1>5. CASE ~HasChanges(ch)
  <2>1. /\ pc'[i] = "idle" /\ statements'[i] = {} /\ labels'[i] = labels[i]
        /\ orphaned'[i] = orphaned[i] /\ cache'[i] = cache[i]
    BY <1>4, <1>5 DEF PlanChanges, TypeOK
  <2>2. Claimed(i)' \subseteq Claimed(i)
    BY <1>3, <2>1 DEF Claimed
  <2>3. ClaimInv(i)'
    BY <1>3, <1>4, <2>1, <2>2 DEF ClaimInv, Owns, Pending
  <2>4. StatementsInv(i)' /\ ChangesInv(i)' /\ CacheInv(i)'
    BY <1>3, <1>4, <2>1 DEF StatementsInv, ChangesInv, CacheInv, Unique
  <2>5. OrphanInv(i)'
    BY <1>3, <1>4, <2>1 DEF OrphanInv
  <2> QED
    BY <2>3, <2>4, <2>5 DEF ProcessInv
<1>6. CASE HasChanges(ch)
  <2>1. /\ changes'[i] = fc
        /\ statements'[i] = ClaimStatements(i, labels[i], fc)
        /\ orphaned'[i] = {w \in orphaned[i] : ~In(w, fc.create)}
        /\ labels'[i] = LabelsAfter(i, labels[i], fc)
        /\ cache'[i] = IF fresh[i] THEN CacheAfter(cache[i], fc) ELSE {}
        /\ pc'[i] = "claiming"
    BY <1>6 DEF PlanChanges, TypeOK
  <2> HIDE DEF V, fc
  <2>2. /\ fc \in Changes
        /\ \A e \in fc.create : e.owner = i
        /\ \A e \in fc.create, c \in V : ~SameRecord(e, c)
        /\ Unique(fc.create)
        /\ fc.updateOld \subseteq {c \in V : c.owner = i}
        /\ \A n \in fc.updateNew : \E c \in fc.updateOld : SameRecord(n, c) /\ n.owner = i
        /\ fc.delete \subseteq {c \in V : c.owner = i}
        /\ \A c \in fc.delete, n \in fc.updateNew : ~SameRecord(c, n)
        /\ Unique(fc.updateNew)
    BY <1>2, <1>4 DEF MayApply
  <2>3. fc.create \subseteq Endpoint /\ fc.updateNew \subseteq Endpoint
    BY <2>2 DEF Changes
  <2>4. /\ \A s \in statements'[i] : s.row.owner = i /\ s.op # "DELETE"
        /\ \A e \in fc.create : In(e, labels[i]) \/ Pending(i, "INSERT", e)'
        /\ \A s \in statements'[i] : s.op = "INSERT" =>
               /\ In(s.row, fc.create)
               /\ \A q \in statements'[i] :
                      q.op = "INSERT" /\ SameRecord(q.row, s.row) => q = s
    <3> DEFINE claims == ClaimStatements(i, labels[i], fc)
    <3>1. /\ \A s \in claims : s.row.owner = i /\ s.op # "DELETE"
          /\ \A e \in fc.create : \/ In(e, labels[i])
                                  \/ \E s \in claims : s.op = "INSERT" /\ SameRecord(s.row, e)
          /\ \A s \in claims : s.op = "INSERT" =>
                 /\ In(s.row, fc.create)
                 /\ \A q \in claims : q.op = "INSERT" /\ SameRecord(q.row, s.row) => q = s
      BY <1>1, <2>2, ClaimStatementsFor
    <3> HIDE DEF claims
    <3>2. statements'[i] = claims
      BY <2>1 DEF claims
    <3> QED
      BY <3>1, <3>2 DEF Pending
  <2>5. \A e : Owns(i, e)' <=> Owns(i, e)
    BY <1>3 DEF Owns
  <2>6. \A e : In(e, labels[i]) => Owns(i, e)
    BY <1>4 DEF Claimed, Owns, In, SameRecord
  <2>7. \A c \in V : c.owner = i => Owns(i, c)
    BY <1>4 DEF Claimed, V
  <2>8. /\ \A e \in fc.create : Owns(i, e)' \/ Pending(i, "INSERT", e)'
        /\ \A e \in fc.updateNew \cup fc.delete : Owns(i, e)'
    BY <2>2, <2>4, <2>5, <2>6, <2>7 DEF Owns, SameRecord
  \* What is claimed: a new or changed record, or one that was claimed and stays.
  <2>9. \A w \in labels'[i] :
            \/ w \in labels[i] /\ ~In(w, fc.delete)
            \/ w.owner = i /\ In(w, fc.create \cup fc.updateNew)
    <3>1. \A e \in fc.create \cup fc.updateNew :
              RowOf(i, e).owner = i /\ SameRecord(RowOf(i, e), e)
      BY <2>3, RowOfEndpoint
    <3> QED
      BY <2>1, <3>1 DEF LabelsAfter, In
  <2>10. \A e \in cache'[i] : e.owner = i =>
            \/ e \in fc.create \cup fc.updateNew
            \/ fresh[i] /\ e \in V /\ ~In(e, fc.delete)
    <3>1. fresh[i] => cache'[i] = CacheAfter(V, fc)
      BY <1>4, <2>1
    <3>2. ~fresh[i] => cache'[i] = {}
      BY <2>1
    <3>3. \A e \in CacheAfter(V, fc) : e.owner = i =>
              \/ e \in fc.create \cup fc.updateNew
              \/ e \in V /\ ~In(e, fc.delete)
      BY <1>1, <1>2, <1>4, CacheAfterChanges
    <3> QED
      BY <3>1, <3>2, <3>3
  <2>11. fresh[i] => Unique(cache'[i]) /\ fc.create \subseteq cache'[i]
    BY <1>1, <1>2, <1>4, <2>1, CacheAfterChanges
  <2>12. \A e \in Claimed(i)' : \/ e \in Claimed(i) /\ ~In(e, fc.delete)
                                \/ In(e, fc.create \cup fc.updateNew)
    BY <1>3, <2>9, <2>10 DEF Claimed, V, In, SameRecord
  <2>13. \A e \in fc.create \cup fc.updateNew : ~In(e, fc.delete)
    BY <2>2 DEF In, SameRecord
  <2>14. ClaimInv(i)'
    <3>1. \A e : ~Pending(i, "DELETE", e)'
      BY <2>4 DEF Pending
    <3>2. \A e : In(e, fc.create \cup fc.updateNew) => Owns(i, e)' \/ Pending(i, "INSERT", e)'
      BY <2>8 DEF In, Owns, Pending, SameRecord
    <3> QED
      BY <1>4, <2>5, <2>12, <3>1, <3>2 DEF ClaimInv
  <2>15. \A e \in Claimed(i)' : ~In(e, fc.delete)
    BY <2>12, <2>13 DEF In, SameRecord
  <2>16. \A e \in fc.create \cup fc.updateNew : ~In(e, orphaned'[i])
    <3>1. \A e \in fc.create : ~In(e, orphaned'[i])
      BY <2>1 DEF In, SameRecord
    <3>2. \A e \in fc.updateNew : ~In(e, orphaned'[i])
      BY <1>4, <2>1, <2>2 DEF In, SameRecord
    <3> QED
      BY <3>1, <3>2
  <2>17. ChangesInv(i)'
    BY <1>3, <2>1, <2>2, <2>4, <2>8, <2>11, <2>15, <2>16 DEF ChangesInv
  <2>18. StatementsInv(i)'
    BY <1>4, <2>1, <2>4, <2>9 DEF StatementsInv
  <2>19. CacheInv(i)'
    BY <1>3, <2>1, <2>11 DEF CacheInv, Unique
  <2>20. OrphanInv(i)'
    <3>1. \A e : In(e, fc.create \cup fc.updateNew) => ~In(e, orphaned'[i])
      BY <2>16 DEF In, SameRecord
    <3>2. \A w \in labels[i] : In(w, orphaned'[i]) => w \in orphaned'[i]
      BY <1>4, <2>1 DEF In, SameRecord
    <3>3. \A w \in labels'[i] : In(w, orphaned'[i]) => w \in orphaned'[i]
      BY <2>9, <3>1, <3>2
    <3>4. \A e \in V : e.owner = i => ~In(e, orphaned'[i])
      BY <1>4, <2>1 DEF In
    <3>5. \A e \in cache'[i] : e.owner = i => ~In(e, orphaned'[i])
      BY <2>10, <3>1, <3>4 DEF In, SameRecord
    <3> QED
      BY <1>3, <3>3, <3>5 DEF OrphanInv
  <2> QED
    BY <2>14, <2>17, <2>18, <2>19, <2>20 DEF ProcessInv
<1> QED
  BY <1>5, <1>6

\* The changes are submitted when all claims are rows, and the rows that are given
\* up afterwards are those of nothing that is still claimed.
LEMMA SubmitChangesInv ==
    ASSUME TypeOK, NEW i \in Instances, ProcessInv(i), SubmitChanges(i)
    PROVE  /\ ProcessInv(i)'
           /\ \A e \in changes[i].create \cup changes[i].updateNew \cup changes[i].delete :
                  Owns(i, e)
<1> DEFINE ch == changes[i]
<1>1. /\ pc[i] = "claiming" /\ pc'[i] = "releasing" /\ statements[i] = {} /\ table' = table
      /\ statements'[i] = ReleaseStatements(i, orphaned[i], ch)
      /\ labels'[i] = labels[i] \ orphaned[i]
      /\ orphaned'[i] = {} /\ view'[i] = view[i] /\ fresh'[i] = fresh[i]
      /\ cache'[i] = cache[i]
  BY DEF SubmitChanges, TypeOK
<1>2. /\ \A e \in ch.create \cup ch.updateNew \cup ch.delete : Owns(i, e)
      /\ \A e \in Claimed(i) : Owns(i, e) /\ ~In(e, ch.delete)
  BY <1>1 DEF ProcessInv, ClaimInv, ChangesInv, Pending
<1>3. /\ view[i] = {} /\ Unique(cache[i]) /\ (~fresh[i] => cache[i] = {})
      /\ \A w \in labels[i] : In(w, orphaned[i]) => w \in orphaned[i]
      /\ \A e \in cache[i] : e.owner = i => ~In(e, orphaned[i])
      /\ \A w \in labels[i] \cup orphaned[i] : w.owner = i
  BY <1>1 DEF ProcessInv, CacheInv, OrphanInv, StatementsInv
<1>4. \A s \in statements'[i] :
          /\ s.op = "DELETE" /\ s.row.owner = i
          /\ In(s.row, ch.delete) \/ s.row \in orphaned[i]
  <2>1. ch.delete \subseteq Endpoint
    BY DEF TypeOK, Changes
  <2>2. \A e \in ch.delete : RowOf(i, e).owner = i /\ SameRecord(RowOf(i, e), e)
    BY <2>1, RowOfEndpoint
  <2> DEFINE rows == {RowOf(i, e) : e \in ch.delete} \cup orphaned[i]
  <2>3. \A w \in rows : w.owner = i /\ (In(w, ch.delete) \/ w \in orphaned[i])
    BY <1>3, <2>2 DEF In
  <2>4. statements'[i] = {[op |-> "DELETE", row |-> w] : w \in rows}
    BY <1>1 DEF ReleaseStatements
  <2> HIDE DEF rows
  <2> QED
    BY <2>3, <2>4
<1>5. \A e \in Claimed(i)' : e \in Claimed(i) /\ ~In(e, orphaned[i])
  BY <1>1, <1>3 DEF Claimed
<1>6. \A e \in Claimed(i)' : ~Pending(i, "DELETE", e)'
  BY <1>2, <1>4, <1>5 DEF Pending, In, SameRecord
<1>7. ClaimInv(i)'
  BY <1>1, <1>2, <1>5, <1>6 DEF ClaimInv, Owns
<1>8. StatementsInv(i)' /\ ChangesInv(i)'
  BY <1>1, <1>3, <1>4 DEF StatementsInv, ChangesInv
<1>9. CacheInv(i)' /\ OrphanInv(i)'
  BY <1>1, <1>3 DEF CacheInv, OrphanInv, In, Unique
<1> QED
  BY <1>2, <1>7, <1>8, <1>9 DEF ProcessInv

-----------------------------------------------------------------------------
(***************************************************************************)
(* The invariant of the registry and what follows from it.                 *)
(***************************************************************************)

\* The steps of instance i.
Step(i) ==
    \/ RecordsFromCache(i) \/ ReadLabels(i) \/ RecordsFromZone(i) \/ PlanChanges(i)
    \/ ExecuteStatement(i) \/ InsertLost(i) \/ SubmitChanges(i) \/ SubmitRejected(i)
    \/ Finish(i) \/ SubmitFailsSoftly(i) \/ Kill(i) \/ Restart(i) \/ CacheExpires(i)
    \/ SourceChanges(i)

LEMMA NextSteps == Next <=> (\E i \in Instances : Step(i)) \/ ThirdPartyRemoves
  BY Zenon DEF Next, Step

\* Only executing a statement changes the table, only submitting the zone, and a
\* process changes nobody else's memory.
LEMMA StepFrame ==
    ASSUME TypeOK, NEW i \in Instances, Step(i)
    PROVE  /\ ExecuteStatement(i) \/ table' = table
           /\ SubmitChanges(i) \/ zone' = zone
           /\ SubmitChanges(i) \/ pc[i] # "claiming" \/ pc'[i] # "releasing"
           /\ \A j \in Instances \ {i} : Untouched(j)
<1> USE DEF TypeOK, Untouched
<1>1. CASE RecordsFromCache(i) \/ ReadLabels(i) \/ RecordsFromZone(i)
  BY <1>1 DEF RecordsFromCache, ReadLabels, RecordsFromZone
<1>2. CASE PlanChanges(i)
  BY <1>2 DEF PlanChanges
<1>3. CASE ExecuteStatement(i) \/ InsertLost(i)
  BY <1>3 DEF ExecuteStatement, InsertLost
<1>4. CASE SubmitChanges(i)
  BY <1>4 DEF SubmitChanges
<1>5. CASE SubmitRejected(i) \/ Kill(i)
  BY <1>5 DEF SubmitRejected, Kill, Forget
<1>6. CASE Finish(i) \/ SubmitFailsSoftly(i) \/ Restart(i) \/ CacheExpires(i) \/ SourceChanges(i)
  BY <1>6 DEF Finish, SubmitFailsSoftly, Restart, CacheExpires, SourceChanges
<1> QED
  BY <1>1, <1>2, <1>3, <1>4, <1>5, <1>6 DEF Step

\* At the start the table is empty and nobody knows anything.
LEMMA InitInv == Init => RegistryInv
<1> SUFFICES ASSUME Init PROVE RegistryInv
  OBVIOUS
<1>1. TypeOK
  BY DynamoDBAssumption DEF Init, TypeOK, SourceStates, NoChanges, Changes
<1>2. RowPerRecord /\ Unique(zone)
  BY DynamoDBAssumption DEF Init, RowPerRecord, Unique
<1>3. \A i \in Instances : ProcessInv(i)
  BY NothingKnown DEF Init
<1> QED
  BY <1>1, <1>2, <1>3 DEF RegistryInv

\* Every step keeps the invariant.
LEMMA NextInv == RegistryInv /\ [Next]_vars => RegistryInv'
<1> SUFFICES ASSUME RegistryInv, [Next]_vars PROVE RegistryInv'
  OBVIOUS
<1>0. TypeOK /\ RowPerRecord /\ Unique(zone) /\ \A j \in Instances : ProcessInv(j)
  BY DEF RegistryInv
<1>1. CASE UNCHANGED vars
  <2>1. TypeOK' /\ RowPerRecord' /\ Unique(zone)'
    BY <1>0, <1>1 DEF vars, TypeOK, RowPerRecord, Unique
  <2>2. \A j \in Instances : Untouched(j) /\ RowsKept(j)
    BY <1>1 DEF vars, Untouched, RowsKept, SameRecord
  <2> QED
    BY <1>0, <2>1, <2>2, UntouchedInv DEF RegistryInv
<1>2. CASE ThirdPartyRemoves
  <2>1. PICK r \in zone : zone' = zone \ {r}
    BY <1>2 DEF ThirdPartyRemoves
  <2>2. TypeOK' /\ RowPerRecord' /\ Unique(zone)'
    BY <1>0, <1>2, <2>1 DEF ThirdPartyRemoves, TypeOK, RowPerRecord, Unique
  <2>3. \A j \in Instances : Untouched(j) /\ RowsKept(j)
    BY <1>2 DEF ThirdPartyRemoves, Untouched, RowsKept, SameRecord
  <2> QED
    BY <1>0, <2>2, <2>3, UntouchedInv DEF RegistryInv
<1>3. ASSUME NEW i \in Instances, Step(i) PROVE RegistryInv'
  <2>1. TypeOK'
    BY <1>0, <1>3, TypeStep DEF Step
  <2>2. /\ ExecuteStatement(i) \/ table' = table
        /\ SubmitChanges(i) \/ zone' = zone
        /\ \A j \in Instances \ {i} : Untouched(j)
    BY <1>0, <1>3, StepFrame
  <2>3. RowPerRecord'
    <3>1. CASE table' = table
      BY <1>0, <3>1 DEF RowPerRecord
    <3>2. CASE ExecuteStatement(i)
      <4>1. PICK s \in statements[i] : ~Duplicate(table, s) /\ table' = Executed(table, s)
        BY <3>2 DEF ExecuteStatement
      <4>2. s \in Statement /\ table \subseteq Row /\ Unique(table)
        BY <1>0 DEF TypeOK, RowPerRecord, Unique
      <4>3. Unique(table')
        BY <4>1, <4>2, ExecutedTable
      <4> QED
        BY <4>3 DEF RowPerRecord, Unique
    <3> QED
      BY <2>2, <3>1, <3>2
  <2>4. Unique(zone)'
    <3>1. CASE zone' = zone
      BY <1>0, <3>1 DEF Unique
    <3>2. CASE SubmitChanges(i)
      <4>1. /\ pc[i] = "claiming" /\ validateChangeBatch(zone, RecordBatch(changes[i]))
            /\ zone' = Applied(zone, RecordBatch(changes[i]))
        BY <3>2 DEF SubmitChanges, Acceptable
      <4>2. Unique(changes[i].create) /\ Unique(changes[i].updateNew)
        BY <1>0, <4>1 DEF ProcessInv, ChangesInv
      <4>3. changes[i] \in Changes /\ zone \in SUBSET Record
        BY <1>0 DEF TypeOK
      <4>4. Unique(zone')
        BY <1>0, <4>1, <4>2, <4>3, AppliedUnique
      <4> QED
        BY <4>4 DEF Unique
    <3> QED
      BY <2>2, <3>1, <3>2
  <2>5. ProcessInv(i)'
    BY <1>0, <1>3, PlainSteps, RecordsFromZoneInv, PlanChangesInv, ExecuteStatementInv,
       InsertLostInv, SubmitChangesInv DEF Step
  <2>6. \A j \in Instances \ {i} : ProcessInv(j)'
    <3>1. CASE ExecuteStatement(i)
      BY <1>0, <3>1, ExecuteStatementInv
    <3>2. CASE table' = table
      <4>1. \A j \in Instances \ {i} : RowsKept(j)
        BY <3>2 DEF RowsKept, SameRecord
      <4> QED
        BY <1>0, <2>2, <4>1, UntouchedInv
    <3> QED
      BY <2>2, <3>1, <3>2
  <2> QED
    BY <2>1, <2>3, <2>4, <2>5, <2>6 DEF RegistryInv
<1> QED
  BY <1>1, <1>2, <1>3, NextSteps

\* The invariant holds for any number of processes, records, faults and edits.
THEOREM RegistryCorrect == Spec => []RegistryInv
  BY InitInv, NextInv, PTL DEF Spec

\* Zone, table and memories keep their types.
THEOREM TypeCorrect == Spec => []TypeOK
<1>1. RegistryInv => TypeOK
  BY DEF RegistryInv
<1> QED
  BY <1>1, RegistryCorrect, PTL

\* Every record that a submission creates, changes or removes has, at that moment, a
\* row of the instance that submits it (executeStatements before ApplyChanges).
THEOREM TableArbitrates == Spec => Arbitrated
<1> DEFINE A == \A i \in Instances : pc[i] = "claiming" /\ pc'[i] = "releasing" =>
                    \A r \in (zone \ zone') \cup (zone' \ zone) :
                        \E w \in table : SameRecord(w, r) /\ w.owner = i
<1>1. RegistryInv /\ [Next]_vars => [A]_vars
  <2> SUFFICES ASSUME RegistryInv, Next,
                      NEW i \in Instances, pc[i] = "claiming", pc'[i] = "releasing",
                      NEW r \in (zone \ zone') \cup (zone' \ zone)
               PROVE  \E w \in table : SameRecord(w, r) /\ w.owner = i
    OBVIOUS
  <2>1. TypeOK /\ ProcessInv(i)
    BY DEF RegistryInv
  <2>2. ~ThirdPartyRemoves
    BY DEF ThirdPartyRemoves
  <2>3. PICK j \in Instances : Step(j)
    BY <2>2, NextSteps
  <2>4. j = i
    BY <2>1, <2>3, StepFrame DEF Untouched
  <2>5. SubmitChanges(i)
    BY <2>1, <2>3, <2>4, StepFrame
  <2>6. changes[i] \in Changes /\ zone \in SUBSET Record
    BY <2>1 DEF TypeOK
  <2>7. zone' = Applied(zone, RecordBatch(changes[i]))
    BY <2>5 DEF SubmitChanges
  <2>8. In(r, changes[i].create \cup changes[i].updateNew \cup changes[i].delete)
    BY <2>6, <2>7, AppliedDifference
  <2>9. \A e \in changes[i].create \cup changes[i].updateNew \cup changes[i].delete : Owns(i, e)
    BY <2>1, <2>5, SubmitChangesInv
  <2> QED
    BY <2>8, <2>9 DEF In, Owns, SameRecord
<1> QED
  BY <1>1, RegistryCorrect, PTL DEF Spec, Arbitrated

-----------------------------------------------------------------------------
(***************************************************************************)
(* Rows outlive their records.                                             *)
(***************************************************************************)

\* A step neither gives nor takes a row of j, and puts no record that j has the row
\* of into the zone.
KeepsAway(j) ==
    /\ \A e : Owns(j, e)' <=> Owns(j, e)
    /\ \A e : Owns(j, e) /\ ~In(e, zone) => ~In(e, zone')

\* Then what j is about to give up stays out of the zone.
LEMMA ReleaseUntouched ==
    ASSUME NEW j \in Instances, ReleaseInv(j), Untouched(j), KeepsAway(j)
    PROVE  ReleaseInv(j)'
  BY DEF ReleaseInv, Untouched, KeepsAway

\* A step of i keeps away from everybody else's rows and records.
LEMMA StepKeepsAway ==
    ASSUME RegistryInv, NEW i \in Instances, Step(i), NEW j \in Instances \ {i}
    PROVE  KeepsAway(j)
<1>0. TypeOK /\ RowPerRecord /\ ProcessInv(i)
  BY DEF RegistryInv
<1>1. CASE ExecuteStatement(i)
  <2>1. PICK s \in statements[i] : table' = Executed(table, s)
    BY <1>1 DEF ExecuteStatement
  <2>2. s \in Statement /\ table \subseteq Row /\ s.row.owner = i
    BY <1>0 DEF TypeOK, ProcessInv, StatementsInv
  <2>3. \A w \in table :
            \/ \E v \in Executed(table, s) : SameRecord(v, w) /\ v.owner = w.owner
            \/ s.op = "DELETE" /\ SameRecord(s.row, w) /\ s.row.owner = w.owner
    BY <2>2, ExecutedTable
  <2>4. \A v \in Executed(table, s) :
            \/ \E w \in table : SameRecord(w, v) /\ w.owner = v.owner
            \/ s.op = "INSERT" /\ v = s.row
    BY <2>2, ExecutedTable
  <2>5. \A e : Owns(j, e) => Owns(j, e)'
    BY <2>1, <2>2, <2>3 DEF Owns, SameRecord
  <2>6. \A e : Owns(j, e)' => Owns(j, e)
    BY <2>1, <2>2, <2>4 DEF Owns, SameRecord
  <2>7. zone' = zone
    BY <1>1 DEF ExecuteStatement
  <2> QED
    BY <2>5, <2>6, <2>7 DEF KeepsAway
<1>2. CASE SubmitChanges(i)
  <2>1. table' = table /\ zone' = Applied(zone, RecordBatch(changes[i]))
    BY <1>2 DEF SubmitChanges
  <2>2. changes[i] \in Changes /\ zone \in SUBSET Record
    BY <1>0 DEF TypeOK
  <2>3. \A e \in changes[i].create \cup changes[i].updateNew \cup changes[i].delete : Owns(i, e)
    BY <1>0, <1>2, SubmitChangesInv
  <2>4. \A r \in zone' \ zone : Owns(i, r)
    <3>1. \A r \in zone' \ zone :
              In(r, changes[i].create \cup changes[i].updateNew \cup changes[i].delete)
      BY <2>1, <2>2, AppliedDifference
    <3> QED
      BY <2>3, <3>1 DEF In, Owns, SameRecord
  <2>5. \A e : ~(Owns(i, e) /\ Owns(j, e))
    BY <1>0 DEF RowPerRecord, Owns, SameRecord
  <2>6. \A e : Owns(j, e) /\ ~In(e, zone) => ~In(e, zone')
    BY <2>4, <2>5 DEF In, Owns, SameRecord
  <2> QED
    BY <2>1, <2>6 DEF KeepsAway, Owns
<1>3. CASE table' = table /\ zone' = zone
  BY <1>3 DEF KeepsAway, Owns
<1> QED
  BY <1>0, <1>1, <1>2, <1>3, StepFrame

\* Nor does a step of i bring back what i itself is about to give up.
LEMMA ReleaseStep ==
    ASSUME RegistryInv, RegistryInv', NEW i \in Instances, ReleaseInv(i), Step(i)
    PROVE  ReleaseInv(i)'
<1>0. TypeOK /\ ProcessInv(i) /\ ProcessInv(i)'
  BY DEF RegistryInv
<1> USE DEF TypeOK
<1>1. CASE RecordsFromCache(i) \/ ReadLabels(i) \/ Finish(i) \/ Restart(i) \/ CacheExpires(i)
               \/ SourceChanges(i)
  BY <1>0, <1>1 DEF RecordsFromCache, ReadLabels, Finish, Restart, CacheExpires, SourceChanges,
                    ReleaseInv, Owns
<1>2. CASE SubmitRejected(i) \/ Kill(i)
  <2>1. statements'[i] = {} /\ fresh'[i] = FALSE /\ pc'[i] = "exited"
    BY <1>0, <1>2 DEF SubmitRejected, Kill, Forget
  <2> QED
    BY <2>1 DEF ReleaseInv
<1>3. CASE SubmitFailsSoftly(i)
  <2>1. statements'[i] = {} /\ fresh'[i] = FALSE /\ pc'[i] = "idle"
    BY <1>0, <1>3 DEF SubmitFailsSoftly
  <2> QED
    BY <2>1 DEF ReleaseInv
<1>4. CASE RecordsFromZone(i)
  <2>1. /\ statements'[i] = statements[i] /\ pc[i] = "idle" /\ pc'[i] = "planning"
        /\ table' = table /\ zone' = zone
        /\ orphaned'[i] = {w \in labels[i] : ~In(w, zone)}
    BY <1>0, <1>4 DEF RecordsFromZone
  <2>2. statements[i] = {}
    BY <1>0, <2>1 DEF ProcessInv, StatementsInv
  <2>3. \A w \in labels[i] : Owns(i, w)
    BY <1>0, <2>2 DEF ProcessInv, ClaimInv, Claimed, Pending
  <2> QED
    BY <2>1, <2>2, <2>3 DEF ReleaseInv, Owns
<1>5. CASE PlanChanges(i)
  <2>1. /\ pc[i] = "planning" /\ table' = table /\ zone' = zone
        /\ orphaned'[i] \subseteq orphaned[i] /\ pc'[i] \in {"claiming", "idle"}
    BY <1>0, <1>5 DEF PlanChanges
  <2>2. \A s \in statements'[i] : s.op # "DELETE"
    BY <1>0, <2>1 DEF ProcessInv, StatementsInv
  <2> QED
    BY <2>1, <2>2 DEF ReleaseInv, Owns
<1>6. CASE ExecuteStatement(i)
  <2>1. PICK s \in statements[i] : /\ table' = Executed(table, s)
                                   /\ statements'[i] = statements[i] \ {s}
    BY <1>0, <1>6 DEF ExecuteStatement
  <2>2. /\ zone' = zone /\ orphaned'[i] = orphaned[i] /\ fresh'[i] = fresh[i] /\ pc'[i] = pc[i]
        /\ pc[i] \in {"claiming", "releasing"}
    BY <1>0, <1>6 DEF ExecuteStatement
  <2>3. s \in Statement /\ table \subseteq Row
    BY <1>0
  <2>4. CASE pc[i] = "claiming"
    <3>1. \A t \in statements[i] : t.op # "DELETE"
      BY <1>0, <2>4 DEF ProcessInv, StatementsInv
    <3>2. \A w \in table : \E v \in table' : SameRecord(v, w) /\ v.owner = w.owner
      <4>1. \A w \in table :
                \/ \E v \in Executed(table, s) : SameRecord(v, w) /\ v.owner = w.owner
                \/ s.op = "DELETE" /\ SameRecord(s.row, w) /\ s.row.owner = w.owner
        BY <2>3, ExecutedTable
      <4> QED
        BY <2>1, <3>1, <4>1
    <3>3. \A e : Owns(i, e) => Owns(i, e)'
      BY <3>2 DEF Owns, SameRecord
    <3> QED
      BY <2>1, <2>2, <2>4, <3>1, <3>3 DEF ReleaseInv
  <2>5. CASE pc[i] = "releasing"
    <3>1. s.op = "DELETE"
      BY <1>0, <2>5 DEF ProcessInv, StatementsInv
    <3>2. \A v \in table' : \E w \in table : SameRecord(w, v) /\ w.owner = v.owner
      <4>1. \A v \in Executed(table, s) :
                \/ \E w \in table : SameRecord(w, v) /\ w.owner = v.owner
                \/ s.op = "INSERT" /\ v = s.row
        BY <2>3, ExecutedTable
      <4> QED
        BY <2>1, <3>1, <4>1
    <3>3. \A e : Owns(i, e)' => Owns(i, e)
      BY <3>2 DEF Owns, SameRecord
    <3> QED
      BY <2>1, <2>2, <2>5, <3>3 DEF ReleaseInv
  <2> QED
    BY <2>2, <2>4, <2>5
<1>7. CASE InsertLost(i)
  <2>1. /\ zone' = zone /\ table' = table /\ orphaned'[i] = orphaned[i] /\ fresh'[i] = fresh[i]
        /\ pc'[i] = pc[i] /\ statements'[i] \subseteq statements[i]
    BY <1>0, <1>7 DEF InsertLost
  <2> QED
    BY <2>1 DEF ReleaseInv, Owns
<1>8. CASE SubmitChanges(i)
  <2> DEFINE ch == changes[i]
             b == RecordBatch(ch)
  <2>1. /\ pc[i] = "claiming" /\ validateChangeBatch(zone, b) /\ zone' = Applied(zone, b)
        /\ statements'[i] = ReleaseStatements(i, orphaned[i], ch)
        /\ orphaned'[i] = {}
    BY <1>0, <1>8 DEF SubmitChanges, Acceptable
  <2>2. /\ ch.create \subseteq Endpoint /\ ch.updateNew \subseteq Endpoint
        /\ ch.delete \subseteq Endpoint
    BY <1>0 DEF Changes
  <2>3. \A e \in Endpoint : SameRecord(Stored(e), e) /\ SameRecord(RowOf(i, e), e)
    BY RowOfEndpoint, AppliedZone DEF Stored, SameRecord
  <2>4. /\ b.create = {Stored(e) : e \in ch.create}
        /\ b.updateNew = {Stored(e) : e \in ch.updateNew}
        /\ b.delete = {Stored(e) : e \in ch.delete}
    BY DEF RecordBatch
  <2>5. \A e \in b.create \cup b.updateNew : ~In(e, b.delete)
    BY <2>1 DEF validateChangeBatch, In
  <2> HIDE DEF b
  <2>6. \A r \in zone' : r \in b.create \cup b.updateNew \/ (r \in zone /\ ~In(r, b.delete))
    BY <2>1 DEF Applied, In
  <2>7. \A r \in zone' : ~In(r, b.delete)
    BY <2>5, <2>6
  <2>8. \A e \in ch.delete : ~In(RowOf(i, e), zone')
    BY <2>2, <2>3, <2>4, <2>7 DEF In, SameRecord
  <2>9. \A w \in orphaned[i] : ~In(w, zone')
    <3>1. \A w \in orphaned[i] : ~In(w, zone)
      BY <2>1 DEF ReleaseInv
    <3>2. \A e \in ch.create \cup ch.updateNew : ~In(e, orphaned[i])
      BY <1>0, <2>1 DEF ProcessInv, ChangesInv
    <3>3. \A r \in b.create \cup b.updateNew : ~In(r, orphaned[i])
      BY <2>2, <2>3, <2>4, <3>2 DEF In, SameRecord
    <3> QED
      BY <2>6, <3>1, <3>3 DEF In, SameRecord
  <2>10. \A s \in statements'[i] : ~In(s.row, zone')
    BY <2>1, <2>8, <2>9 DEF ReleaseStatements
  <2> QED
    BY <2>1, <2>10 DEF ReleaseInv
<1> QED
  BY <1>1, <1>2, <1>3, <1>4, <1>5, <1>6, <1>7, <1>8 DEF Step

\* A step of i takes no row away from a record of the zone and adds no record
\* without one.
LEMMA UnclaimedStep ==
    ASSUME RegistryInv, NEW i \in Instances, ReleaseInv(i), NeverUnclaimed, Step(i)
    PROVE  NeverUnclaimed'
<1>0. TypeOK /\ ProcessInv(i)
  BY DEF RegistryInv
<1>1. CASE ExecuteStatement(i)
  <2>1. PICK s \in statements[i] : table' = Executed(table, s)
    BY <1>1 DEF ExecuteStatement
  <2>2. s \in Statement /\ table \subseteq Row /\ s.row.owner = i /\ zone' = zone
    BY <1>0, <1>1 DEF TypeOK, ProcessInv, StatementsInv, ExecuteStatement
  <2>3. \A w \in table :
            \/ \E v \in Executed(table, s) : SameRecord(v, w) /\ v.owner = w.owner
            \/ s.op = "DELETE" /\ SameRecord(s.row, w) /\ s.row.owner = w.owner
    BY <2>2, ExecutedTable
  <2>4. \A w \in table : In(w, table') \/ ~In(w, zone)
    BY <2>1, <2>2, <2>3 DEF ReleaseInv, Owns, In, SameRecord
  <2> QED
    BY <2>2, <2>4 DEF NeverUnclaimed, In, SameRecord
<1>2. CASE SubmitChanges(i)
  <2>1. table' = table /\ zone' = Applied(zone, RecordBatch(changes[i]))
    BY <1>2 DEF SubmitChanges
  <2>2. changes[i] \in Changes /\ zone \in SUBSET Record
    BY <1>0 DEF TypeOK
  <2>3. \A e \in changes[i].create \cup changes[i].updateNew \cup changes[i].delete : Owns(i, e)
    BY <1>0, <1>2, SubmitChangesInv
  <2>4. \A r \in zone' \ zone :
            In(r, changes[i].create \cup changes[i].updateNew \cup changes[i].delete)
    BY <2>1, <2>2, AppliedDifference
  <2>5. \A r \in zone' \ zone : In(r, table)
    BY <2>3, <2>4 DEF In, Owns, SameRecord
  <2> QED
    BY <2>1, <2>5 DEF NeverUnclaimed
<1>3. CASE table' = table /\ zone' = zone
  BY <1>3 DEF NeverUnclaimed
<1> QED
  BY <1>0, <1>1, <1>2, <1>3, StepFrame

\* A record that ExternalDNS put into the zone never loses its row, whatever crashes,
\* failures and races come between the INSERT, the DNS change and the DELETE.
THEOREM RecordsStayClaimed == Spec => []NeverUnclaimed
<1>1. Init => ZoneInv
  <2> SUFFICES ASSUME Init PROVE ZoneInv
    OBVIOUS
  <2>1. RegistryInv
    BY InitInv
  <2>2. NeverUnclaimed
    BY DEF Init, NeverUnclaimed, In, SameRecord
  <2>3. \A i \in Instances : ReleaseInv(i)
    BY DEF Init, ReleaseInv
  <2> QED
    BY <2>1, <2>2, <2>3 DEF ZoneInv
<1>2. ZoneInv /\ [Next]_vars => ZoneInv'
  <2> SUFFICES ASSUME ZoneInv, [Next]_vars PROVE ZoneInv'
    OBVIOUS
  <2>0. RegistryInv /\ NeverUnclaimed /\ \A j \in Instances : ReleaseInv(j)
    BY DEF ZoneInv
  <2>1. RegistryInv'
    BY <2>0, NextInv
  <2>2. CASE UNCHANGED vars
    <3>1. NeverUnclaimed' /\ \A j \in Instances : ReleaseInv(j)'
      BY <2>0, <2>2 DEF vars, NeverUnclaimed, ReleaseInv, Owns
    <3> QED
      BY <2>1, <3>1 DEF ZoneInv
  <2>3. CASE ThirdPartyRemoves
    <3>1. zone' \subseteq zone /\ table' = table
      BY <2>3 DEF ThirdPartyRemoves
    <3>2. NeverUnclaimed'
      BY <2>0, <3>1 DEF NeverUnclaimed
    <3>3. \A j \in Instances : Untouched(j) /\ KeepsAway(j)
      BY <2>3, <3>1 DEF ThirdPartyRemoves, Untouched, KeepsAway, Owns, In
    <3> QED
      BY <2>0, <2>1, <3>2, <3>3, ReleaseUntouched DEF ZoneInv
  <2>4. ASSUME NEW i \in Instances, Step(i) PROVE ZoneInv'
    <3>1. NeverUnclaimed'
      BY <2>0, <2>4, UnclaimedStep
    <3>2. ReleaseInv(i)'
      BY <2>0, <2>1, <2>4, ReleaseStep
    <3>3. TypeOK
      BY <2>0 DEF RegistryInv
    <3>4. \A j \in Instances \ {i} : ReleaseInv(j)'
      BY <2>0, <2>4, <3>3, StepFrame, StepKeepsAway, ReleaseUntouched
    <3> QED
      BY <2>1, <3>1, <3>2, <3>4 DEF ZoneInv
  <2> QED
    BY <2>2, <2>3, <2>4, NextSteps
<1>3. ZoneInv => NeverUnclaimed
  BY DEF ZoneInv
<1> QED
  BY <1>1, <1>2, <1>3, PTL DEF Spec
-----------------------------------------------------------------------------
(***************************************************************************)
(* The labels that a process remembers are its rows.                       *)
(***************************************************************************)

RowsOf(i) == {w \in table : w.owner = i}

\* While i claims, its labels are already what its rows will be: a label has its row,
\* or a statement that makes it; a row has its label, or is to be updated, or is that
\* of a record to be deleted.
ClaimingInv(i) ==
    /\ Unique(labels[i])
    /\ \A s \in statements[i] : /\ s.row \in labels[i]
                                /\ s.op = "INSERT" => ~Owns(i, s.row)
    /\ \A w \in labels[i] : w \in RowsOf(i) \/ \E s \in statements[i] : s.row = w
    /\ \A w \in RowsOf(i) : \/ w \in labels[i]
                            \/ In(w, changes[i].delete)
                            \/ \E s \in statements[i] : s.op = "UPDATE" /\ SameRecord(s.row, w)

\* An UPDATE is of a row of i, and the labels of i, once read, follow its rows; the
\* records that i knows as its own have labels, the resource included.
LabelsInv(i) ==
    /\ \A s \in statements[i] : s.op = "UPDATE" => Owns(i, s.row)
    /\ pc[i] = "exited" => ~loaded[i]
    /\ loaded[i] =>
           /\ \A e \in cache[i] \cup view[i] : e.owner = i => RowOf(i, e) \in labels[i]
           /\ pc[i] \in {"idle", "planning"} => labels[i] = RowsOf(i)
           /\ pc[i] = "claiming" => ClaimingInv(i)
           /\ pc[i] = "releasing" =>
                  labels[i] = {w \in RowsOf(i) : ~\E s \in statements[i] : SameRecord(s.row, w)}

\* A statement about a row of i changes rows of i only: it adds its row, gives it its
\* labels, or removes it.
LEMMA ExecutedRows ==
    ASSUME NEW i, NEW T, T \subseteq Row, Unique(T), NEW s \in Statement, s.row.owner = i,
           s.op = "UPDATE" => \E w \in T : SameRecord(w, s.row) /\ w.owner = i
    PROVE  /\ \A w : w.owner # i => (w \in Executed(T, s) <=> w \in T)
           /\ s.op = "INSERT" => Executed(T, s) = T \cup {s.row}
           /\ s.op = "UPDATE" => Executed(T, s) = {w \in T : ~SameRecord(w, s.row)} \cup {s.row}
           /\ s.op = "DELETE" => Executed(T, s) = {w \in T : ~(SameRecord(w, s.row) /\ w.owner = i)}
<1>1. s.op = "INSERT" => Executed(T, s) = T \cup {s.row}
  BY DEF Executed
<1>2. s.op = "DELETE" => Executed(T, s) = {w \in T : ~(SameRecord(w, s.row) /\ w.owner = i)}
  BY DEF Executed
<1>3. ASSUME s.op = "UPDATE"
      PROVE  /\ Executed(T, s) = {w \in T : ~SameRecord(w, s.row)} \cup {s.row}
             /\ \A w \in T : SameRecord(w, s.row) => w.owner = i
  <2> DEFINE f(w) == IF SameRecord(w, s.row) THEN [w EXCEPT !.resource = s.row.resource] ELSE w
  <2>1. Executed(T, s) = {f(w) : w \in T}
    BY <1>3 DEF Executed
  <2>2. PICK v \in T : SameRecord(v, s.row) /\ v.owner = i
    BY <1>3
  <2>3. \A w \in T : SameRecord(w, s.row) => w = v
    BY <2>2 DEF Unique, SameRecord
  <2>4. f(v) = s.row
    <3>1. s.row \in Row /\ v \in Row
      BY DEF Statement
    <3> QED
      BY <2>2, <3>1 DEF Row, SameRecord
  <2>5. \A w \in T : f(w) = IF SameRecord(w, s.row) THEN s.row ELSE w
    BY <2>3, <2>4
  <2> HIDE DEF f
  <2> QED
    BY <2>1, <2>2, <2>3, <2>5
<1>4. s.op \in {"INSERT", "UPDATE", "DELETE"}
  BY DEF Statement
<1> QED
  BY <1>1, <1>2, <1>3, <1>4

\* A process that is not touched and keeps its rows keeps its labels right.
LEMMA LabelsUntouched ==
    ASSUME NEW j \in Instances, LabelsInv(j), Untouched(j), RowsOf(j)' = RowsOf(j)
    PROVE  LabelsInv(j)'
<1>1. \A e : Owns(j, e)' <=> Owns(j, e)
  BY DEF RowsOf, Owns
<1>2. ClaimingInv(j) => ClaimingInv(j)'
  BY <1>1 DEF ClaimingInv, Untouched
<1> QED
  BY <1>1, <1>2 DEF LabelsInv, Untouched

\* Executing a statement brings the rows nearer to the labels, and leaves everybody
\* else's rows alone.
LEMMA ExecuteStatementLabels ==
    ASSUME RegistryInv, NEW i \in Instances, LabelsInv(i), ExecuteStatement(i)
    PROVE  LabelsInv(i)' /\ \A j \in Instances \ {i} : RowsOf(j)' = RowsOf(j)
<1>0. TypeOK /\ RowPerRecord /\ ProcessInv(i)
  BY DEF RegistryInv
<1>1. PICK s \in statements[i] :
          /\ table' = Executed(table, s)
          /\ statements' = [statements EXCEPT ![i] = @ \ {s}]
  BY DEF ExecuteStatement
<1>2. s \in Statement /\ table \subseteq Row /\ Unique(table) /\ s.row.owner = i
  BY <1>0 DEF TypeOK, ProcessInv, StatementsInv, RowPerRecord, Unique
<1>3. /\ statements'[i] = statements[i] \ {s} /\ pc[i] \in {"claiming", "releasing"}
      /\ pc' = pc /\ labels' = labels /\ loaded' = loaded /\ view' = view
      /\ changes' = changes /\ cache' = cache
  BY <1>0, <1>1 DEF TypeOK, ExecuteStatement
<1>4. /\ \A w : w.owner # i => (w \in table' <=> w \in table)
      /\ s.op = "INSERT" => table' = table \cup {s.row}
      /\ s.op = "UPDATE" => table' = {w \in table : ~SameRecord(w, s.row)} \cup {s.row}
      /\ s.op = "DELETE" => table' = {w \in table : ~(SameRecord(w, s.row) /\ w.owner = i)}
  <2>1. s.op = "UPDATE" => \E w \in table : SameRecord(w, s.row) /\ w.owner = i
    BY DEF LabelsInv, Owns
  <2> QED
    BY <1>1, <1>2, <2>1, ExecutedRows
<1>5. \A j \in Instances \ {i} : RowsOf(j)' = RowsOf(j)
  BY <1>4 DEF RowsOf
<1>6. \A q \in statements[i] : IF q.op = "DELETE" THEN pc[i] = "releasing"
                                                  ELSE pc[i] = "claiming"
  BY <1>0 DEF ProcessInv, StatementsInv
<1>7. \A q \in statements'[i] : q.op = "UPDATE" => Owns(i, q.row)'
  <2> SUFFICES ASSUME NEW q \in statements[i], q.op = "UPDATE" PROVE Owns(i, q.row)'
    BY <1>3
  <2>1. PICK w \in table : SameRecord(w, q.row) /\ w.owner = i
    BY DEF LabelsInv, Owns
  <2>2. s.op # "DELETE"
    BY <1>6
  <2>3. w \in table' \/ (SameRecord(w, s.row) /\ s.row \in table')
    BY <1>2, <1>4, <2>2 DEF Statement
  <2> QED
    BY <1>2, <2>1, <2>3 DEF Owns, SameRecord
<1>8. ASSUME loaded[i], pc[i] = "claiming"
      PROVE  ClaimingInv(i)'
  <2>1. /\ Unique(labels[i])
        /\ \A q \in statements[i] : q.row \in labels[i] /\ (q.op = "INSERT" => ~Owns(i, q.row))
        /\ \A w \in labels[i] : w \in RowsOf(i) \/ \E q \in statements[i] : q.row = w
        /\ \A w \in RowsOf(i) : \/ w \in labels[i]
                                \/ In(w, changes[i].delete)
                                \/ \E q \in statements[i] : q.op = "UPDATE" /\ SameRecord(q.row, w)
    BY <1>8 DEF LabelsInv, ClaimingInv
  <2>2. RowsOf(i)' = {w \in RowsOf(i) : s.op = "INSERT" \/ ~SameRecord(w, s.row)} \cup {s.row}
    BY <1>2, <1>4, <1>6, <1>8 DEF RowsOf, Statement
  <2>3. \A q \in statements'[i] : q.op = "INSERT" => ~Owns(i, q.row)'
    <3> SUFFICES ASSUME NEW q \in statements[i] \ {s}, q.op = "INSERT", Owns(i, q.row)'
                 PROVE  FALSE
      BY <1>3
    <3>1. PICK w \in table' : SameRecord(w, q.row) /\ w.owner = i
      BY DEF Owns
    <3>2. w = s.row
      BY <2>1, <2>2, <3>1 DEF RowsOf, Owns
    <3>3. s.op = "INSERT"
      <4>1. s.op = "UPDATE" => Owns(i, q.row)
        BY <3>1, <3>2 DEF LabelsInv, Owns, SameRecord
      <4> QED
        BY <1>2, <1>6, <1>8, <2>1, <4>1 DEF Statement
    <3> QED
      BY <1>0, <1>8, <3>1, <3>2, <3>3 DEF ProcessInv, ChangesInv, SameRecord
  <2>4. \A w \in labels[i] : w \in RowsOf(i)' \/ \E q \in statements'[i] : q.row = w
    BY <1>3, <2>1, <2>2 DEF Unique, SameRecord
  <2>5. \A w \in RowsOf(i)' :
            \/ w \in labels[i]
            \/ In(w, changes[i].delete)
            \/ \E q \in statements'[i] : q.op = "UPDATE" /\ SameRecord(q.row, w)
    BY <1>3, <2>1, <2>2 DEF SameRecord
  <2> QED
    BY <1>3, <2>1, <2>3, <2>4, <2>5 DEF ClaimingInv
<1>9. ASSUME loaded[i], pc[i] = "releasing"
      PROVE  labels[i] = {w \in RowsOf(i)' : ~\E q \in statements'[i] : SameRecord(q.row, w)}
  <2>1. RowsOf(i)' = {w \in RowsOf(i) : ~SameRecord(w, s.row)}
    BY <1>4, <1>6, <1>9 DEF RowsOf
  <2>2. labels[i] = {w \in RowsOf(i) : ~\E q \in statements[i] : SameRecord(q.row, w)}
    BY <1>9 DEF LabelsInv
  <2> QED
    BY <1>3, <2>1, <2>2 DEF SameRecord
<1> QED
  BY <1>3, <1>5, <1>7, <1>8, <1>9 DEF LabelsInv

\* A record whose INSERT is lost has no row of i and no label any more.
LEMMA InsertLostLabels ==
    ASSUME RegistryInv, NEW i \in Instances, LabelsInv(i), InsertLost(i)
    PROVE  LabelsInv(i)'
<1>0. TypeOK /\ ProcessInv(i)
  BY DEF RegistryInv
<1>1. PICK s \in statements[i] :
          /\ Duplicate(table, s)
          /\ statements' = [statements EXCEPT ![i] = @ \ {s}]
          /\ changes' = [changes EXCEPT ![i].create = {e \in @ : ~SameRecord(e, s.row)}]
          /\ labels' = [labels EXCEPT ![i] = {w \in @ : ~SameRecord(w, s.row)}]
          /\ cache' = [cache EXCEPT ![i] =
                {c \in @ : ~Matches(c, {e \in changes[i].create : SameRecord(e, s.row)})}]
  BY DEF InsertLost
<1>2. /\ pc[i] = "claiming" /\ pc' = pc /\ loaded' = loaded /\ table' = table /\ fresh' = fresh
      /\ view' = view
      /\ s.op = "INSERT"
      /\ statements'[i] = statements[i] \ {s}
      /\ labels'[i] = {w \in labels[i] : ~SameRecord(w, s.row)}
      /\ cache'[i] = {c \in cache[i] : ~Matches(c, {e \in changes[i].create : SameRecord(e, s.row)})}
      /\ changes'[i].delete = changes[i].delete
  BY <1>0, <1>1 DEF InsertLost, TypeOK, Duplicate, Changes
<1>3. \A e : Owns(i, e)' <=> Owns(i, e)
  BY <1>2 DEF Owns
<1>4. \A q \in statements'[i] : q.op = "UPDATE" => Owns(i, q.row)'
  BY <1>2, <1>3 DEF LabelsInv
<1>5. ASSUME loaded[i]
      PROVE  /\ ClaimingInv(i)'
             /\ \A e \in cache'[i] \cup view'[i] : e.owner = i => RowOf(i, e) \in labels'[i]
  <2>1. /\ Unique(labels[i])
        /\ \A q \in statements[i] : q.row \in labels[i] /\ (q.op = "INSERT" => ~Owns(i, q.row))
        /\ \A w \in labels[i] : w \in RowsOf(i) \/ \E q \in statements[i] : q.row = w
        /\ \A w \in RowsOf(i) : \/ w \in labels[i]
                                \/ In(w, changes[i].delete)
                                \/ \E q \in statements[i] : q.op = "UPDATE" /\ SameRecord(q.row, w)
    BY <1>2, <1>5 DEF LabelsInv, ClaimingInv
  <2>2. ~Owns(i, s.row) /\ RowsOf(i)' = RowsOf(i)
    BY <1>2, <2>1 DEF RowsOf
  <2>3. \A q \in statements[i] \ {s} : ~SameRecord(q.row, s.row)
    <3> SUFFICES ASSUME NEW q \in statements[i] \ {s}, SameRecord(q.row, s.row) PROVE FALSE
      OBVIOUS
    <3>1. q.op # "INSERT"
      BY <1>0, <1>2 DEF ProcessInv, ChangesInv
    <3>2. q.op # "DELETE" /\ q \in Statement
      BY <1>0, <1>2 DEF ProcessInv, StatementsInv, TypeOK
    <3>3. Owns(i, q.row)
      BY <3>1, <3>2 DEF LabelsInv, Statement
    <3> QED
      BY <2>2, <3>3 DEF Owns, SameRecord
  <2>4. \A q \in statements'[i] : q.row \in labels'[i] /\ (q.op = "INSERT" => ~Owns(i, q.row)')
    BY <1>2, <1>3, <2>1, <2>3
  <2>5. \A w \in labels'[i] : w \in RowsOf(i) \/ \E q \in statements'[i] : q.row = w
    BY <1>2, <2>1 DEF SameRecord
  <2>6. \A w \in RowsOf(i) :
            \/ w \in labels'[i]
            \/ In(w, changes[i].delete)
            \/ \E q \in statements'[i] : q.op = "UPDATE" /\ SameRecord(q.row, w)
    BY <1>2, <2>1, <2>2 DEF RowsOf, Owns
  <2>7. ClaimingInv(i)'
    BY <1>2, <2>1, <2>2, <2>4, <2>5, <2>6 DEF ClaimingInv, Unique
  <2>8. ASSUME NEW e \in cache'[i] \cup view'[i], e.owner = i
        PROVE  RowOf(i, e) \in labels'[i]
    <3>1. view'[i] = {} /\ Unique(cache[i]) /\ (~fresh[i] => cache[i] = {})
      BY <1>0, <1>2 DEF ProcessInv, CacheInv
    <3>2. e \in cache[i] /\ fresh[i]
      BY <1>2, <2>8, <3>1
    <3>3. RowOf(i, e) \in labels[i]
      BY <1>5, <2>8, <3>2 DEF LabelsInv
    <3>4. ~SameRecord(e, s.row)
      <4> SUFFICES ASSUME SameRecord(e, s.row) PROVE FALSE
        OBVIOUS
      <4>1. PICK d \in changes[i].create : SameRecord(s.row, d)
        BY <1>0, <1>2 DEF ProcessInv, ChangesInv, In
      <4>2. d \in cache[i]
        BY <1>0, <1>2, <3>2 DEF ProcessInv, ChangesInv
      <4>3. d = e
        BY <3>1, <3>2, <4>1, <4>2 DEF Unique, SameRecord
      <4>4. d \in {f \in changes[i].create : SameRecord(f, s.row)}
        BY <4>1 DEF SameRecord
      <4>5. Matches(e, {f \in changes[i].create : SameRecord(f, s.row)})
        BY <4>3, <4>4 DEF Matches, SameRecord
      <4> QED
        BY <1>2, <2>8, <3>1, <4>5
    <3>5. RowOf(i, e).key = e.key /\ RowOf(i, e).type = e.type
      BY DEF RowOf
    <3> QED
      BY <1>2, <3>3, <3>4, <3>5 DEF SameRecord
  <2> QED
    BY <2>7, <2>8
<1> QED
  BY <1>2, <1>4, <1>5 DEF LabelsInv

\* Records gives every record of i the labels of its row.
LEMMA RecordsFromZoneLabels ==
    ASSUME RegistryInv, NEW i \in Instances, LabelsInv(i), RecordsFromZone(i)
    PROVE  LabelsInv(i)'
<1>0. TypeOK /\ ProcessInv(i) /\ i # NoOwner
  BY DynamoDBAssumption, PlanAssumption DEF RegistryInv
<1>1. /\ pc[i] = "idle" /\ loaded[i] /\ loaded' = loaded /\ labels' = labels /\ table' = table
      /\ pc'[i] = "planning" /\ statements' = statements
      /\ view'[i] = {Labelled(i, labels[i], r) : r \in zone}
      /\ cache'[i] \subseteq view'[i]
  BY <1>0 DEF RecordsFromZone, TypeOK
<1>2. statements[i] = {}
  BY <1>0, <1>1 DEF ProcessInv, StatementsInv
<1>3. labels[i] = RowsOf(i) /\ labels[i] \subseteq Row
  BY <1>0, <1>1 DEF LabelsInv, TypeOK
<1>4. ASSUME NEW r \in zone, Labelled(i, labels[i], r).owner = i
      PROVE  RowOf(i, Labelled(i, labels[i], r)) \in labels[i]
  <2> DEFINE own == {w \in labels[i] : SameRecord(w, r)}
             l == Labelled(i, labels[i], r)
             v == CHOOSE w \in own : TRUE
  <2>1. l = [key |-> r.key, type |-> r.type, targets |-> r.targets, ttl |-> r.ttl,
             props |-> r.props, owner |-> IF own # {} THEN i ELSE NoOwner,
             resource |-> IF own # {} THEN v.resource ELSE NoResource]
    BY DEF Labelled
  <2>2. own # {}
    BY <1>0, <1>4, <2>1
  <2>3. v \in labels[i] /\ SameRecord(v, r) /\ v \in Row /\ v.owner = i
    BY <1>3, <2>2 DEF RowsOf
  <2> HIDE DEF v, own
  <2>4. l.key = r.key /\ l.type = r.type /\ l.resource = v.resource
    BY <2>1, <2>2
  <2>5. RowOf(i, l) = v
    BY <2>3, <2>4 DEF RowOf, Row, SameRecord
  <2> QED
    BY <2>3, <2>5
<1>5. \A e \in cache'[i] \cup view'[i] : e.owner = i => RowOf(i, e) \in labels'[i]
  BY <1>1, <1>4
<1>6. RowsOf(i)' = RowsOf(i)
  BY <1>1 DEF RowsOf
<1> QED
  BY <1>1, <1>2, <1>3, <1>5, <1>6 DEF LabelsInv

\* The statements of ApplyChanges make the labels that it notes.
LEMMA PlanChangesLabels ==
    ASSUME RegistryInv, NEW i \in Instances, LabelsInv(i), PlanChanges(i)
    PROVE  LabelsInv(i)'
<1> DEFINE V == view[i]
           L == labels[i]
           ch == Calculate(i, NoOwner, V, source[i])
           fc == filteredChanges(i, ch)
<1>0. TypeOK /\ RowPerRecord /\ ProcessInv(i)
  BY DEF RegistryInv
<1>1. /\ V \in SUBSET Endpoint /\ source[i] \in SUBSET Desirable /\ L \in SUBSET Row
  BY <1>0 DEF TypeOK
<1>2. /\ pc[i] = "planning" /\ view'[i] = {} /\ fresh' = fresh /\ table' = table /\ loaded' = loaded
  BY <1>0 DEF PlanChanges, TypeOK
<1>3. /\ statements[i] = {}
      /\ \A e \in Claimed(i) : Owns(i, e)
      /\ Unique(V) /\ Unique(cache[i])
      /\ fresh[i] => cache[i] = V
      /\ ~fresh[i] => cache[i] = {}
  BY <1>0, <1>2 DEF ProcessInv, StatementsInv, ClaimInv, CacheInv, Pending
<1>4. RowsOf(i)' = RowsOf(i) /\ \A e : Owns(i, e)' <=> Owns(i, e)
  BY <1>2 DEF RowsOf, Owns
<1>5. loaded[i] => /\ L = RowsOf(i)
                   /\ \A e \in cache[i] \cup V : e.owner = i => RowOf(i, e) \in L
  BY <1>2 DEF LabelsInv
<1>6. MayApply(i, V, fc)
  BY <1>1, FilteredChanges
<1>7. CASE ~HasChanges(ch)
  <2>1. /\ pc'[i] = "idle" /\ statements'[i] = {} /\ labels'[i] = L /\ cache'[i] = cache[i]
    BY <1>0, <1>3, <1>7 DEF PlanChanges, TypeOK
  <2> QED
    BY <1>2, <1>4, <1>5, <2>1 DEF LabelsInv
<1>8. CASE HasChanges(ch)
  <2>1. /\ changes'[i] = fc
        /\ statements'[i] = ClaimStatements(i, L, fc)
        /\ labels'[i] = LabelsAfter(i, L, fc)
        /\ cache'[i] = IF fresh[i] THEN Patched(cache[i], fc) ELSE {}
        /\ pc'[i] = "claiming"
    <3>1. CacheAfter(cache[i], fc) = Patched(cache[i], fc)
      BY DEF CacheAfter, Patched
    <3> QED
      BY <1>0, <1>8, <3>1 DEF PlanChanges, TypeOK
  <2> HIDE DEF ch, fc
  <2> DEFINE row(e) == RowOf(i, e)
             rows == {row(e) : e \in fc.create}
             olds == {row(e) : e \in fc.updateOld}
             news == {row(e) : e \in fc.updateNew}
             S == statements'[i]
             M == labels'[i]
  <2>2. /\ fc.create \subseteq Endpoint /\ fc.updateOld \subseteq Endpoint
        /\ fc.updateNew \subseteq Endpoint /\ fc.delete \subseteq Endpoint
        /\ \A e \in fc.create, c \in V : ~SameRecord(e, c)
        /\ Unique(fc.create) /\ Unique(fc.updateNew)
        /\ fc.updateOld \subseteq {c \in V : c.owner = i}
        /\ \A n \in fc.updateNew : \E c \in fc.updateOld : SameRecord(n, c)
    BY <1>3, <1>6 DEF MayApply, Changes
  <2>3. \A e \in Endpoint : SameRecord(row(e), e)
    BY RowOfEndpoint
  <2>4. /\ \A s \in S : \/ s.op = "INSERT" /\ s.row \in rows /\ ~In(s.row, L)
                        \/ s.op = "UPDATE" /\ s.row \in rows /\ In(s.row, L)
                        \/ s.op = "UPDATE" /\ s.row \in news /\ In(s.row, olds)
        /\ \A w \in rows : ~In(w, L) => \E s \in S : s.row = w
        /\ \A w \in rows : In(w, L) /\ w \notin L => \E s \in S : s.op = "UPDATE" /\ s.row = w
        /\ \A w \in news : In(w, olds) /\ w \notin olds => \E s \in S : s.op = "UPDATE" /\ s.row = w
    <3>1. S = InsertStatements(L, rows) \cup UpdateStatements(L, rows)
                  \cup UpdateStatements(olds, news)
      BY <2>1 DEF ClaimStatements
    <3> HIDE DEF rows, olds, news, S, L
    <3>2. \A s : s \in InsertStatements(L, rows) <=>
              \E w \in rows : ~In(w, L) /\ s = [op |-> "INSERT", row |-> w]
      BY DEF InsertStatements
    <3>3. \A A, B, s : s \in UpdateStatements(A, B) <=>
              \E w \in B : In(w, A) /\ w \notin A /\ s = [op |-> "UPDATE", row |-> w]
      BY DEF UpdateStatements
    <3>4. \A s \in S : \/ s.op = "INSERT" /\ s.row \in rows /\ ~In(s.row, L)
                       \/ s.op = "UPDATE" /\ s.row \in rows /\ In(s.row, L)
                       \/ s.op = "UPDATE" /\ s.row \in news /\ In(s.row, olds)
      BY <3>1, <3>2, <3>3
    <3>5. \A w \in rows : ~In(w, L) => \E s \in S : s.row = w
      <4> SUFFICES ASSUME NEW w \in rows, ~In(w, L) PROVE \E s \in S : s.row = w
        OBVIOUS
      <4>1. [op |-> "INSERT", row |-> w] \in S
        BY <3>1, <3>2
      <4> QED
        BY <4>1
    <3>6. \A A, B : UpdateStatements(A, B) \subseteq S =>
              \A w \in B : In(w, A) /\ w \notin A => \E s \in S : s.op = "UPDATE" /\ s.row = w
      <4> SUFFICES ASSUME NEW A, NEW B, UpdateStatements(A, B) \subseteq S,
                          NEW w \in B, In(w, A), w \notin A
                   PROVE  \E s \in S : s.op = "UPDATE" /\ s.row = w
        OBVIOUS
      <4>1. [op |-> "UPDATE", row |-> w] \in S
        BY <3>3
      <4> QED
        BY <4>1
    <3> QED
      BY <3>1, <3>4, <3>5, <3>6
  <2>5. /\ rows \cup news \subseteq M
        /\ \A w \in M : w \in rows \cup news \/ (w \in L /\ ~In(w, fc.delete) /\ ~In(w, rows \cup news))
        /\ \A w \in L : w \in M \/ In(w, fc.delete) \/ In(w, rows \cup news)
    <3>1. M = {w \in L : ~In(w, fc.delete) /\ ~In(w, rows \cup news)} \cup (rows \cup news)
      <4>1. {row(e) : e \in fc.create \cup fc.updateNew} = rows \cup news
        OBVIOUS
      <4> QED
        BY <2>1, <4>1 DEF LabelsAfter
    <3> HIDE DEF M, L, rows, news
    <3> QED
      BY <3>1
  <2>6. \A w \in news : In(w, olds)
    BY <2>2, <2>3 DEF In, SameRecord
  <2>7. \A w \in olds : Owns(i, w)
    <3>1. \A c \in fc.updateOld : Owns(i, c)
      BY <1>3, <2>2 DEF Claimed
    <3> QED
      BY <2>2, <2>3, <3>1 DEF Owns, SameRecord
  <2>8. \A s \in S : s.op = "UPDATE" => Owns(i, s.row)'
    <3>1. \A w \in L : Owns(i, w)
      BY <1>3 DEF Claimed
    <3> HIDE DEF S, L, rows, olds, news
    <3> QED
      BY <1>4, <2>4, <2>7, <3>1 DEF In, Owns, SameRecord
  <2>9. ASSUME loaded[i]
        PROVE  /\ ClaimingInv(i)'
               /\ \A e \in cache'[i] \cup view'[i] : e.owner = i => row(e) \in M
    <3>1. L = RowsOf(i) /\ Unique(L) /\ olds \subseteq L
      <4>1. \A c \in fc.updateOld : row(c) \in L
        BY <1>5, <2>2, <2>9
      <4> QED
        BY <1>0, <1>5, <2>9, <4>1 DEF RowPerRecord, Unique, RowsOf
    <3>2. Unique(rows \cup news)
      <4>1. \A e, f \in fc.create \cup fc.updateNew : SameRecord(e, f) => e = f
        BY <2>2 DEF Unique, SameRecord
      <4> QED
        BY <2>2, <2>3, <4>1 DEF Unique, SameRecord
    <3>3. \A w \in L : Owns(i, w)
      BY <1>3 DEF Claimed
    <3>4. \A e : Owns(i, e) => In(e, L)
      BY <3>1 DEF Owns, RowsOf, In, SameRecord
    <3>5. ASSUME NEW e \in cache'[i] \cup view'[i], e.owner = i
          PROVE  row(e) \in M
      <4>1. fresh[i] /\ e \in Patched(cache[i], fc) /\ cache[i] = V
        BY <1>2, <1>3, <2>1, <3>5
      <4>2. \/ e \in fc.create \cup fc.updateNew
            \/ e \in V /\ ~In(e, fc.delete \cup fc.updateOld)
        BY <1>3, <1>6, <4>1, PatchedCache
      <4>3. CASE e \in fc.create \cup fc.updateNew
        BY <2>5, <4>3
      <4>4. CASE e \in V /\ ~In(e, fc.delete \cup fc.updateOld)
        <5>1. row(e) \in L /\ e \in Endpoint
          BY <1>1, <1>5, <2>9, <3>5, <4>4
        <5>2. SameRecord(row(e), e)
          BY <2>3, <5>1
        <5>3. ~In(row(e), fc.delete)
          BY <4>4, <5>2 DEF In, SameRecord
        <5>4. \A f \in fc.create \cup fc.updateNew : ~SameRecord(e, f)
          BY <2>2, <4>4 DEF In, SameRecord
        <5>5. ~In(row(e), rows \cup news)
          BY <2>2, <2>3, <5>2, <5>4 DEF In, SameRecord
        <5> HIDE DEF row, rows, news, M, L
        <5> QED
          BY <2>5, <5>1, <5>3, <5>5
      <4> QED
        BY <4>2, <4>3, <4>4
    <3> HIDE DEF S, M, L, rows, olds, news
    <3>6. Unique(M)
      BY <2>5, <3>1, <3>2 DEF Unique, In, SameRecord
    <3>7. \A s \in S : s.row \in M /\ (s.op = "INSERT" => ~Owns(i, s.row)')
      BY <1>4, <2>4, <2>5, <3>4
    <3>8. \A w \in M : w \in RowsOf(i)' \/ \E s \in S : s.row = w
      BY <1>4, <2>4, <2>5, <2>6, <3>1
    <3>9. \A w \in RowsOf(i)' : \/ w \in M
                                \/ In(w, fc.delete)
                                \/ \E s \in S : s.op = "UPDATE" /\ SameRecord(s.row, w)
      <4> SUFFICES ASSUME NEW w \in L, In(w, rows \cup news)
                   PROVE  w \in M \/ \E s \in S : s.op = "UPDATE" /\ SameRecord(s.row, w)
        BY <1>4, <2>5, <3>1
      <4>1. PICK n \in rows \cup news : SameRecord(w, n)
        BY DEF In
      <4>2. n \in L => n = w
        BY <3>1, <4>1 DEF Unique
      <4>3. In(n, L) /\ SameRecord(n, w)
        BY <4>1 DEF In, SameRecord
      <4> QED
        BY <2>4, <2>5, <2>6, <3>1, <4>1, <4>2, <4>3
    <3>10. ClaimingInv(i)'
      BY <2>1, <3>6, <3>7, <3>8, <3>9 DEF ClaimingInv, S, M
    <3> QED
      BY <3>5, <3>10 DEF M
  <2> QED
    BY <1>2, <2>1, <2>8, <2>9 DEF LabelsInv
<1> QED
  BY <1>7, <1>8

\* When all statements are executed the labels are the rows that will be left.
LEMMA SubmitChangesLabels ==
    ASSUME RegistryInv, NEW i \in Instances, LabelsInv(i), SubmitChanges(i)
    PROVE  LabelsInv(i)'
<1>0. TypeOK /\ ProcessInv(i)
  BY DEF RegistryInv
<1>1. /\ pc[i] = "claiming" /\ statements[i] = {} /\ table' = table /\ loaded' = loaded
      /\ statements'[i] = ReleaseStatements(i, orphaned[i], changes[i])
      /\ labels'[i] = labels[i] \ orphaned[i]
      /\ cache' = cache /\ view' = view
      /\ pc'[i] = "releasing"
  BY <1>0 DEF SubmitChanges, TypeOK
<1>2. /\ \A w \in labels[i] : In(w, orphaned[i]) => w \in orphaned[i]
      /\ \A e \in cache[i] \cup view[i] : e.owner = i => ~In(e, orphaned[i])
      /\ \A w \in labels[i] : ~In(w, changes[i].delete)
      /\ changes[i].delete \subseteq Endpoint
  BY <1>0, <1>1 DEF ProcessInv, OrphanInv, ChangesInv, Claimed, TypeOK, Changes
<1>3. /\ \A s \in statements'[i] : s.op = "DELETE"
      /\ \A w : (\E s \in statements'[i] : SameRecord(s.row, w))
                    <=> In(w, changes[i].delete) \/ In(w, orphaned[i])
  <2> DEFINE rows == {RowOf(i, e) : e \in changes[i].delete} \cup orphaned[i]
  <2>1. statements'[i] = {[op |-> "DELETE", row |-> v] : v \in rows}
    BY <1>1 DEF ReleaseStatements
  <2>2. \A w : (\E v \in rows : SameRecord(v, w))
                   <=> In(w, changes[i].delete) \/ In(w, orphaned[i])
    <3>1. \A e \in changes[i].delete : SameRecord(RowOf(i, e), e)
      BY <1>2, RowOfEndpoint
    <3> QED
      BY <3>1 DEF In, SameRecord
  <2> HIDE DEF rows
  <2>3. ASSUME NEW w
        PROVE  (\E s \in statements'[i] : SameRecord(s.row, w)) <=> \E v \in rows : SameRecord(v, w)
    <3>1. \A s \in statements'[i] : s.row \in rows
      BY <2>1
    <3>2. ASSUME NEW v \in rows PROVE \E s \in statements'[i] : s.row = v
      <4>1. [op |-> "DELETE", row |-> v] \in statements'[i]
        BY <2>1
      <4> QED
        BY <4>1
    <3> QED
      BY <3>1, <3>2
  <2>4. \A s \in statements'[i] : s.op = "DELETE"
    BY <2>1
  <2> QED
    BY <2>2, <2>3, <2>4
<1>4. ASSUME loaded[i]
      PROVE  /\ labels'[i] =
                    {w \in RowsOf(i)' : ~\E s \in statements'[i] : SameRecord(s.row, w)}
             /\ \A e \in cache'[i] \cup view'[i] : e.owner = i => RowOf(i, e) \in labels'[i]
  <2>1. /\ \A w \in labels[i] : w \in RowsOf(i)
        /\ \A w \in RowsOf(i) : w \in labels[i] \/ In(w, changes[i].delete)
        /\ \A e \in cache[i] \cup view[i] : e.owner = i => RowOf(i, e) \in labels[i]
    BY <1>1, <1>4 DEF LabelsInv, ClaimingInv
  <2>2. RowsOf(i)' = RowsOf(i)
    BY <1>1 DEF RowsOf
  <2>3. \A w \in orphaned[i] : In(w, orphaned[i])
    BY DEF In, SameRecord
  <2>4. labels'[i] = {w \in RowsOf(i)' : ~\E s \in statements'[i] : SameRecord(s.row, w)}
    BY <1>1, <1>2, <1>3, <2>1, <2>2, <2>3
  <2>5. \A e \in cache[i] \cup view[i] : e.owner = i => RowOf(i, e) \notin orphaned[i]
    BY <1>2 DEF In, SameRecord, RowOf
  <2> QED
    BY <1>1, <2>1, <2>4, <2>5
<1> QED
  BY <1>1, <1>3, <1>4 DEF LabelsInv

\* The other steps leave the rows alone.
LEMMA PlainStepsLabels ==
    ASSUME RegistryInv, NEW i \in Instances, LabelsInv(i),
           \/ RecordsFromCache(i) \/ ReadLabels(i) \/ Finish(i) \/ SubmitRejected(i)
           \/ SubmitFailsSoftly(i) \/ Kill(i) \/ Restart(i) \/ CacheExpires(i)
           \/ SourceChanges(i)
    PROVE  LabelsInv(i)'
<1>0. TypeOK /\ ProcessInv(i)
  BY DEF RegistryInv
<1>1. pc[i] \in {"idle", "planning", "exited"} => statements[i] = {}
  BY <1>0 DEF ProcessInv, StatementsInv
<1>2. table' = table => RowsOf(i)' = RowsOf(i)
  BY DEF RowsOf
<1>3. CASE RecordsFromCache(i)
  <2>1. /\ pc[i] = "idle" /\ pc'[i] = "planning" /\ view'[i] = cache[i] /\ cache'[i] = cache[i]
        /\ table' = table /\ loaded'[i] = loaded[i] /\ labels'[i] = labels[i]
        /\ statements'[i] = statements[i]
    BY <1>0, <1>3 DEF RecordsFromCache, TypeOK
  <2> QED
    BY <1>1, <1>2, <2>1 DEF LabelsInv
<1>4. CASE ReadLabels(i)
  <2>1. /\ pc[i] = "idle" /\ ~fresh[i] /\ pc'[i] = "idle" /\ view'[i] = view[i]
        /\ cache'[i] = cache[i] /\ table' = table /\ statements'[i] = statements[i]
        /\ labels'[i] = RowsOf(i)
    BY <1>0, <1>4 DEF ReadLabels, TypeOK, RowsOf
  <2>2. cache[i] = {} /\ view[i] = {}
    BY <1>0, <2>1 DEF ProcessInv, CacheInv
  <2> QED
    BY <1>1, <1>2, <2>1, <2>2 DEF LabelsInv
<1>5. CASE Finish(i)
  <2>1. /\ pc[i] = "releasing" /\ pc'[i] = "idle" /\ statements[i] = {} /\ view'[i] = view[i]
        /\ cache'[i] = cache[i] /\ table' = table /\ statements'[i] = statements[i]
        /\ loaded'[i] = loaded[i] /\ labels'[i] = labels[i]
    BY <1>0, <1>5 DEF Finish, TypeOK
  <2> QED
    BY <1>2, <2>1 DEF LabelsInv
<1>6. CASE SubmitRejected(i) \/ SubmitFailsSoftly(i) \/ Kill(i)
  <2>1. ~loaded'[i] /\ statements'[i] = {}
    BY <1>0, <1>6 DEF SubmitRejected, SubmitFailsSoftly, Kill, Forget, TypeOK
  <2> QED
    BY <2>1 DEF LabelsInv
<1>7. CASE Restart(i)
  <2>1. /\ pc[i] = "exited" /\ pc'[i] = "idle" /\ statements'[i] = statements[i]
        /\ loaded'[i] = loaded[i]
    BY <1>0, <1>7 DEF Restart, TypeOK
  <2> QED
    BY <1>1, <2>1 DEF LabelsInv
<1>8. CASE CacheExpires(i)
  <2>1. /\ pc'[i] = pc[i] /\ view'[i] = view[i] /\ cache'[i] = {} /\ table' = table
        /\ statements'[i] = statements[i] /\ loaded'[i] = loaded[i] /\ labels'[i] = labels[i]
        /\ changes'[i] = changes[i]
    BY <1>0, <1>8 DEF CacheExpires, TypeOK
  <2>2. \A e : Owns(i, e)' <=> Owns(i, e)
    BY <2>1 DEF Owns
  <2>3. ClaimingInv(i) => ClaimingInv(i)'
    BY <1>2, <2>1, <2>2 DEF ClaimingInv
  <2> QED
    BY <1>2, <2>1, <2>2, <2>3 DEF LabelsInv
<1>9. CASE SourceChanges(i)
  <2>1. Untouched(i) /\ table' = table
    BY <1>9 DEF SourceChanges, Untouched
  <2> QED
    BY <1>2, <2>1, LabelsUntouched
<1> QED
  BY <1>3, <1>4, <1>5, <1>6, <1>7, <1>8, <1>9

LEMMA LabelsNext ==
    RegistryInv /\ (\A i \in Instances : LabelsInv(i)) /\ [Next]_vars =>
        \A i \in Instances : LabelsInv(i)'
<1> SUFFICES ASSUME RegistryInv, \A i \in Instances : LabelsInv(i), [Next]_vars
             PROVE  \A i \in Instances : LabelsInv(i)'
  OBVIOUS
<1>0. TypeOK
  BY DEF RegistryInv
<1>1. CASE UNCHANGED vars \/ ThirdPartyRemoves
  <2>1. \A j \in Instances : Untouched(j) /\ RowsOf(j)' = RowsOf(j)
    BY <1>1 DEF vars, ThirdPartyRemoves, Untouched, RowsOf
  <2> QED
    BY <2>1, LabelsUntouched
<1>2. ASSUME NEW i \in Instances, Step(i) PROVE \A j \in Instances : LabelsInv(j)'
  <2>1. LabelsInv(i)'
    BY <1>2, ExecuteStatementLabels, InsertLostLabels, RecordsFromZoneLabels, PlanChangesLabels,
       SubmitChangesLabels, PlainStepsLabels DEF Step
  <2>2. \A j \in Instances \ {i} : RowsOf(j)' = RowsOf(j) /\ Untouched(j)
    <3>1. /\ ExecuteStatement(i) \/ table' = table
          /\ \A j \in Instances \ {i} : Untouched(j)
      BY <1>0, <1>2, StepFrame
    <3>2. table' = table => \A j : RowsOf(j)' = RowsOf(j)
      BY DEF RowsOf
    <3> QED
      BY <3>1, <3>2, ExecuteStatementLabels
  <2> QED
    BY <2>1, <2>2, LabelsUntouched
<1> QED
  BY <1>1, <1>2, NextSteps

\* Between two runs the labels that a process remembers are exactly its rows of the
\* table, labels included, although it patches them as if every statement succeeded;
\* and no record is cached as its own that has the row of somebody else (readLabels,
\* ApplyChanges).
THEOREM LabelsAreAccurate == Spec => []LabelsAccurate
<1> DEFINE I == \A i \in Instances : LabelsInv(i)
<1>1. Init => I
  BY DEF Init, LabelsInv
<1>2. RegistryInv /\ I /\ [Next]_vars => I'
  BY LabelsNext
<1>3. RegistryInv /\ I => LabelsAccurate
  <2> SUFFICES ASSUME RegistryInv, I, NEW i \in Instances
               PROVE  /\ loaded[i] /\ pc[i] \in {"idle", "planning"} => labels[i] = RowsOf(i)
                      /\ \A e \in cache[i] : e.owner = i /\ pc[i] \in {"idle", "planning"} =>
                             Owns(i, e)
    BY DEF LabelsAccurate, RowsOf, Owns
  <2>1. pc[i] \in {"idle", "planning"} => statements[i] = {}
    BY DEF RegistryInv, ProcessInv, StatementsInv
  <2>2. pc[i] \in {"idle", "planning"} => \A e \in Claimed(i) : Owns(i, e)
    BY <2>1 DEF RegistryInv, ProcessInv, ClaimInv, Pending
  <2> QED
    BY <2>2 DEF LabelsInv, Claimed
<1> QED
  BY <1>1, <1>2, <1>3, RegistryCorrect, PTL DEF Spec

-----------------------------------------------------------------------------
(***************************************************************************)
(* The registry implements Ownership.                                      *)
(***************************************************************************)

\* Executing a statement takes a row where there is none, or gives up an own one.
LEMMA ExecuteStatementActs ==
    ASSUME RegistryInv, NEW i \in Instances, ExecuteStatement(i)
    PROVE  Promise!Act(i)
<1> DEFINE cl == {[id |-> <<w.key, w.type>>, owner |-> w.owner] : w \in table}
           rec == {[id |-> <<r.key, r.type>>, data |-> r] : r \in zone}
<1>1. PICK s \in statements[i] : ~Duplicate(table, s) /\ table' = Executed(table, s)
  BY DEF ExecuteStatement
<1>2. s \in Statement /\ table \subseteq Row /\ s.row.owner = i
  BY DEF RegistryInv, TypeOK, ProcessInv, StatementsInv
<1>3. \A w \in table : \/ \E v \in table' : SameRecord(v, w) /\ v.owner = w.owner
                       \/ w.owner = i
  BY <1>1, <1>2, ExecutedTable
<1>4. \A v \in table' : \/ \E w \in table : SameRecord(w, v) /\ w.owner = v.owner
                        \/ v.owner = i /\ ~\E w \in table : SameRecord(w, v)
  BY <1>1, <1>2, ExecutedTable DEF Duplicate, In, SameRecord
<1>5. \A c \in cl \ cl' : c.owner = i
  <2> SUFFICES ASSUME NEW c \in cl, c \notin cl' PROVE c.owner = i
    OBVIOUS
  <2>1. PICK w \in table : c = [id |-> <<w.key, w.type>>, owner |-> w.owner]
    OBVIOUS
  <2>2. ~\E v \in table' : SameRecord(v, w) /\ v.owner = w.owner
    BY <2>1 DEF SameRecord
  <2> QED
    BY <1>3, <2>1, <2>2
<1>6. ASSUME NEW c \in cl', c \notin cl
      PROVE  c.owner = i /\ \A d \in cl : d.id = c.id => d.owner = i
  <2>1. PICK v \in table' : c = [id |-> <<v.key, v.type>>, owner |-> v.owner]
    OBVIOUS
  <2>2. ~\E w \in table : SameRecord(w, v) /\ w.owner = v.owner
    BY <1>6, <2>1 DEF SameRecord
  <2>3. v.owner = i /\ ~\E w \in table : SameRecord(w, v)
    BY <1>4, <2>2
  <2>4. \A d \in cl : d.id # c.id
    <3> SUFFICES ASSUME NEW d \in cl, d.id = c.id PROVE FALSE
      OBVIOUS
    <3>1. PICK w \in table : d.id = <<w.key, w.type>>
      OBVIOUS
    <3> QED
      BY <2>1, <2>3, <3>1 DEF SameRecord
  <2> QED
    BY <2>1, <2>3, <2>4
<1>7. rec' = rec /\ faults' = faults
  BY DEF ExecuteStatement
<1> QED
  BY <1>5, <1>6, <1>7 DEF Promise!Act

\* Submitting changes records under own rows.
LEMMA SubmitChangesActs ==
    ASSUME RegistryInv, NEW i \in Instances, SubmitChanges(i)
    PROVE  Promise!Act(i)
<1> DEFINE cl == {[id |-> <<w.key, w.type>>, owner |-> w.owner] : w \in table}
           rec == {[id |-> <<r.key, r.type>>, data |-> r] : r \in zone}
<1>1. /\ table' = table /\ faults' = faults
      /\ zone' = Applied(zone, RecordBatch(changes[i]))
  BY DEF SubmitChanges
<1>2. changes[i] \in Changes /\ zone \in SUBSET Record
  BY DEF RegistryInv, TypeOK
<1>3. \A e \in changes[i].create \cup changes[i].updateNew \cup changes[i].delete : Owns(i, e)
  BY SubmitChangesInv DEF RegistryInv
<1>4. \A r \in (zone \ zone') \cup (zone' \ zone) : Owns(i, r)
  <2> SUFFICES ASSUME NEW r \in (zone \ zone') \cup (zone' \ zone) PROVE Owns(i, r)
    OBVIOUS
  <2>1. In(r, changes[i].create \cup changes[i].updateNew \cup changes[i].delete)
    BY <1>1, <1>2, AppliedDifference
  <2> QED
    BY <1>3, <2>1 DEF In, Owns, SameRecord
<1>5. \A r : Owns(i, r) => [id |-> <<r.key, r.type>>, owner |-> i] \in cl
  BY DEF Owns, SameRecord
<1>6. \A x \in (rec \ rec') \cup (rec' \ rec) : [id |-> x.id, owner |-> i] \in cl
  <2> SUFFICES ASSUME NEW x \in (rec \ rec') \cup (rec' \ rec)
               PROVE  [id |-> x.id, owner |-> i] \in cl
    OBVIOUS
  <2>1. PICK r \in (zone \ zone') \cup (zone' \ zone) : x = [id |-> <<r.key, r.type>>, data |-> r]
    OBVIOUS
  <2> QED
    BY <1>4, <1>5, <2>1
<1>7. cl' = cl
  BY <1>1
<1> QED
  BY <1>1, <1>6, <1>7 DEF Promise!Act, Promise!Holds

\* Every step is one of Ownership, or changes nothing there.
LEMMA StepKeepsPromise ==
    ASSUME RegistryInv, [Next]_vars
    PROVE  [Promise!Next]_Promise!vars
<1>1. CASE zone' = zone /\ table' = table /\ faults' = faults
  BY <1>1 DEF Promise!vars
<1>2. CASE table' = table /\ faults' # faults
  BY <1>2 DEF Promise!Next, Promise!Edit
<1>3. CASE ThirdPartyRemoves
  <2>1. faults' # faults /\ table' = table
    BY <1>3 DEF ThirdPartyRemoves, RegistryInv, TypeOK
  <2> QED
    BY <1>2, <2>1
<1>4. ASSUME NEW i \in Instances, Step(i)
      PROVE  [Promise!Next]_Promise!vars
  <2>1. CASE ExecuteStatement(i)
    BY <2>1, ExecuteStatementActs DEF Promise!Next
  <2>2. CASE SubmitChanges(i)
    BY <2>2, SubmitChangesActs DEF Promise!Next
  <2>3. CASE zone' = zone /\ table' = table
    BY <1>1, <1>2, <2>3
  <2> QED
    BY <1>4, <2>1, <2>2, <2>3, StepFrame DEF RegistryInv
<1>5. CASE UNCHANGED vars
  BY <1>1, <1>5 DEF vars
<1> QED
  BY <1>3, <1>4, <1>5, NextSteps

\* The DynamoDB registry implements Ownership, for any number of instances, records,
\* faults and edits and whatever the provider checks.
THEOREM ImplementsOwnership == Spec => KeepsPromise
<1>1. Init => Promise!Init
  BY DEF Init, Promise!Init, Promise!OneOwner
<1>2. RegistryInv /\ [Next]_vars => [Promise!Next]_Promise!vars
  BY StepKeepsPromise
<1> QED
  BY <1>1, <1>2, RegistryCorrect, PTL DEF Spec, KeepsPromise, Promise!Spec


=============================================================================
