-------------------------- MODULE DynamoDBRegistry --------------------------
(***************************************************************************)
(* Several ExternalDNS processes reconcile one DNS zone through the        *)
(* DynamoDB registry: registry/dynamodb/registry.go with RunOnce of        *)
(* controller/controller.go, the planner of module Plan and a provider.    *)
(*                                                                         *)
(* ApplyChanges has three phases: it claims the new records in the table,  *)
(* submits the changes to the DNS provider, and then gives up the rows of  *)
(* what was deleted and of orphans.  The statements of a batch are applied *)
(* one by one, and a process may die between any two of them.              *)
(*                                                                         *)
(* The zone holds no ownership records of the TXT registry: the migration  *)
(* from it is not part of this module.                                     *)
(***************************************************************************)
EXTENDS Provider

CONSTANTS
    Instances,      \* the processes, each named by its --txt-owner-id
    CacheRecords,   \* --txt-cache-interval is positive
    Desirable,      \* what sources may want
    InitZone,       \* records in the zone at the start, which no row covers
    MaxEdits,       \* bound on changes of the sources
    MaxFaults       \* bound on soft errors, kills and removals by third parties

ASSUME DynamoDBAssumption ==
    /\ Instances \subseteq Owners
    /\ CacheRecords \in BOOLEAN
    /\ Desirable \subseteq {e \in Endpoint : e.owner = NoOwner}
    /\ InitZone \subseteq Record
    /\ \A r, q \in InitZone : SameRecord(r, q) => r = q
    /\ MaxEdits \in Nat
    /\ MaxFaults \in Nat

VARIABLES
    zone,       \* the records of the DNS zone
    table,      \* the rows of the DynamoDB table
    source,     \* per instance, what its Kubernetes cluster wants
    pc,         \* per instance, where RunOnce is
    loaded,     \* per instance, labels is not nil
    labels,     \* per instance, the rows it believes to own
    orphaned,   \* per instance, orphanedLabels
    view,       \* per instance, what Registry.Records returned
    changes,    \* per instance, the (filtered) changes being applied
    statements, \* per instance, DynamoDB statements still to be executed
    fresh,      \* per instance, recordsCache is set and has not expired
    cache,      \* per instance, recordsCache while fresh
    edits,      \* number of source changes so far
    faults      \* number of faults so far

vars == <<zone, table, source, pc, loaded, labels, orphaned, view, changes,
          statements, fresh, cache, edits, faults>>

-----------------------------------------------------------------------------
(***************************************************************************)
(* Rows and statements.                                                    *)
(***************************************************************************)

\* A row of the table: toDynamoKey is the key, "o" the owner, "l" the labels.
Row == [key : Keys, type : RecordTypes, owner : Owners,
        resource : Resources \cup {NoResource}]

\* A statement and the row it is about.
Statement == [op : {"INSERT", "UPDATE", "DELETE"}, row : Row]

RowOf(i, e) == [key |-> e.key, type |-> e.type, owner |-> i, resource |-> e.resource]

\* What a statement makes of the table T.
Executed(T, s) ==
    CASE s.op = "INSERT" -> T \cup {s.row}
      [] s.op = "UPDATE" ->
            {IF SameRecord(w, s.row) THEN [w EXCEPT !.resource = s.row.resource] ELSE w : w \in T}
      [] s.op = "DELETE" ->
            {w \in T : ~(SameRecord(w, s.row) /\ w.owner = s.row.owner)}

\* MUTANT: the key of the table includes the owner.
DuplicateOwn(T, s) == s.op = "INSERT" /\ \E w \in T : SameRecord(w, s.row) /\ w.owner = s.row.owner

\* A row for the key exists: an INSERT fails with DuplicateItem.
Duplicate(T, s) == s.op = "INSERT" /\ In(s.row, T)

\* appendUpdate: an UPDATE, unless the labels are as before.
UpdateStatements(L, rows) ==
    {[op |-> "UPDATE", row |-> w] : w \in {x \in rows : In(x, L) /\ x \notin L}}

\* MUTANT: rows that were left behind by an earlier run are inserted again.
InsertStatementsAlways(L, rows) == {[op |-> "INSERT", row |-> w] : w \in rows}

\* appendInsert, for what has no row among the labels.
InsertStatements(L, rows) == {[op |-> "INSERT", row |-> w] : w \in {x \in rows : ~In(x, L)}}

\* MUTANT: the rows of deleted records are given up with the first statements.
ClaimStatementsReleasing(i, L, ch) ==
    InsertStatements(L, {RowOf(i, e) : e \in ch.create})
        \cup {[op |-> "DELETE", row |-> RowOf(i, e)] : e \in ch.delete}

\* The statements that come before the DNS changes: a new record gets its row, or
\* takes over the orphaned one, and an updated record has its labels updated.
ClaimStatements(i, L, ch) ==
    LET rows == {RowOf(i, e) : e \in ch.create}
    IN  InsertStatements(L, rows) \cup UpdateStatements(L, rows)
            \cup UpdateStatements({RowOf(i, e) : e \in ch.updateOld},
                                  {RowOf(i, e) : e \in ch.updateNew})

\* The statements that come after them: the rows of deleted records and of orphans.
ReleaseStatements(i, orphans, ch) ==
    {[op |-> "DELETE", row |-> w] : w \in {RowOf(i, e) : e \in ch.delete} \cup orphans}

\* The labels after ApplyChanges has gone through creates, deletions and updates.
LabelsAfter(i, L, ch) ==
    LET new == {RowOf(i, e) : e \in ch.create \cup ch.updateNew}
    IN  {w \in L : ~In(w, ch.delete) /\ ~In(w, new)} \cup new

\* addToCache and removeFromCache, in the order ApplyChanges calls them.
CacheAfter(c, ch) ==
    {e \in c \cup ch.create : ~Matches(e, ch.delete \cup ch.updateOld)} \cup ch.updateNew

\* ApplyChanges claims what it creates and leaves alone what it does not own.
filteredChanges(i, ch) ==
    [create |-> {[e EXCEPT !.owner = i] : e \in ch.create},
     updateOld |-> FilterEndpointsByOwnerID(i, ch.updateOld),
     updateNew |-> FilterEndpointsByOwnerID(i, ch.updateNew),
     delete |-> FilterEndpointsByOwnerID(i, ch.delete)]

\* Zone record r as Records of an instance with labels L returns it.
Labelled(i, L, r) ==
    LET own == {w \in L : SameRecord(w, r)}
    IN  [key |-> r.key, type |-> r.type, targets |-> r.targets, ttl |-> r.ttl,
         props |-> r.props,
         owner |-> IF own # {} THEN i ELSE NoOwner,
         resource |-> IF own # {} THEN (CHOOSE w \in own : TRUE).resource ELSE NoResource]

-----------------------------------------------------------------------------
(***************************************************************************)
(* The processes.                                                          *)
(***************************************************************************)

\* The states a source can be in: what deduplication leaves.
SourceStates ==
    {S \in SUBSET Desirable :
        \A e, f \in S : SameRecord(e, f) /\ e.targets = f.targets => e = f}

Init ==
    /\ zone = InitZone
    /\ table = {}
    /\ source \in [Instances -> SourceStates]
    /\ pc = [i \in Instances |-> "idle"]
    /\ loaded = [i \in Instances |-> FALSE]
    /\ labels = [i \in Instances |-> {}]
    /\ orphaned = [i \in Instances |-> {}]
    /\ view = [i \in Instances |-> {}]
    /\ changes = [i \in Instances |-> NoChanges]
    /\ statements = [i \in Instances |-> {}]
    /\ fresh = [i \in Instances |-> FALSE]
    /\ cache = [i \in Instances |-> {}]
    /\ edits = 0
    /\ faults = 0

\* Records from the cache, if it is fresh; orphanedLabels stays what it was.
RecordsFromCache(i) ==
    /\ pc[i] = "idle"
    /\ fresh[i]
    /\ pc' = [pc EXCEPT ![i] = "planning"]
    /\ view' = [view EXCEPT ![i] = cache[i]]
    /\ UNCHANGED <<zone, table, source, loaded, labels, orphaned, changes,
                   statements, fresh, cache, edits, faults>>

\* readLabels: a consistent scan for the rows of this owner, if labels is nil.
ReadLabels(i) ==
    /\ pc[i] = "idle"
    /\ ~fresh[i]
    /\ ~loaded[i]
    /\ loaded' = [loaded EXCEPT ![i] = TRUE]
    /\ labels' = [labels EXCEPT ![i] = {w \in table : w.owner = i}]
    /\ UNCHANGED <<zone, table, source, pc, orphaned, view, changes, statements,
                   fresh, cache, edits, faults>>

\* The provider's records get the labels; rows without a record are orphans.
RecordsFromZone(i) ==
    /\ pc[i] = "idle"
    /\ ~fresh[i]
    /\ loaded[i]
    /\ pc' = [pc EXCEPT ![i] = "planning"]
    /\ view' = [view EXCEPT ![i] = {Labelled(i, labels[i], r) : r \in zone}]
    /\ orphaned' = [orphaned EXCEPT ![i] = {w \in labels[i] : ~In(w, zone)}]
    /\ fresh' = [fresh EXCEPT ![i] = CacheRecords]
    /\ cache' = [cache EXCEPT ![i] = IF CacheRecords THEN view'[i] ELSE {}]
    /\ UNCHANGED <<zone, table, source, loaded, labels, changes, statements,
                   edits, faults>>

\* Source.Endpoints, Calculate and HasChanges; then the first part of
\* ApplyChanges, which touches only the memory of the process: labels and cache
\* as if everything succeeded, and the statements for creates and updates.
PlanChanges(i) ==
    /\ pc[i] = "planning"
    /\ \E ch \in {Calculate(i, NoOwner, view[i], source[i])} :
           IF HasChanges(ch)
           THEN \E fc \in {filteredChanges(i, ch)} :
                /\ pc' = [pc EXCEPT ![i] = "claiming"]
                /\ changes' = [changes EXCEPT ![i] = fc]
                /\ statements' = [statements EXCEPT ![i] = ClaimStatements(i, labels[i], fc)]
                /\ orphaned' = [orphaned EXCEPT ![i] = {w \in @ : ~In(w, fc.create)}]
                /\ labels' = [labels EXCEPT ![i] = LabelsAfter(i, @, fc)]
                /\ cache' = [cache EXCEPT ![i] = IF fresh[i] THEN CacheAfter(@, fc) ELSE {}]
           ELSE /\ pc' = [pc EXCEPT ![i] = "idle"]
                /\ UNCHANGED <<changes, statements, orphaned, labels, cache>>
    /\ view' = [view EXCEPT ![i] = {}]
    /\ UNCHANGED <<zone, table, source, loaded, fresh, edits, faults>>

\* Executing one statement: it succeeds ...
ExecuteStatement(i) ==
    /\ pc[i] \in {"claiming", "releasing"}
    /\ \E s \in statements[i] :
           /\ ~Duplicate(table, s)
           /\ table' = Executed(table, s)
           /\ statements' = [statements EXCEPT ![i] = @ \ {s}]
    /\ UNCHANGED <<zone, source, pc, loaded, labels, orphaned, view, changes,
                   fresh, cache, edits, faults>>

\* MUTANT: a lost INSERT is taken for an own row.
InsertLostIgnored(i) ==
    /\ pc[i] = "claiming"
    /\ \E s \in statements[i] :
           /\ Duplicate(table, s)
           /\ statements' = [statements EXCEPT ![i] = @ \ {s}]
    /\ UNCHANGED <<zone, table, source, pc, loaded, labels, orphaned, view, changes,
                   fresh, cache, edits, faults>>

\* ... or an INSERT meets the row of another owner: the endpoint is skipped.
InsertLost(i) ==
    /\ pc[i] = "claiming"
    /\ \E s \in statements[i] :
           /\ Duplicate(table, s)
           /\ statements' = [statements EXCEPT ![i] = @ \ {s}]
           /\ changes' = [changes EXCEPT ![i].create = {e \in @ : ~SameRecord(e, s.row)}]
           /\ labels' = [labels EXCEPT ![i] = {w \in @ : ~SameRecord(w, s.row)}]
           /\ cache' = [cache EXCEPT ![i] =
                 {c \in @ : ~Matches(c, {e \in changes[i].create : SameRecord(e, s.row)})}]
    /\ UNCHANGED <<zone, table, source, pc, loaded, orphaned, view, fresh, edits, faults>>

Acceptable(i) == validateChangeBatch(zone, RecordBatch(changes[i]))

\* All claims are made: the provider applies the changes, and the statements that
\* give up rows are next.
SubmitChanges(i) ==
    /\ pc[i] = "claiming"
    /\ statements[i] = {}
    /\ Acceptable(i)
    /\ zone' = Applied(zone, RecordBatch(changes[i]))
    /\ statements' = [statements EXCEPT ![i] = ReleaseStatements(i, orphaned[i], changes[i])]
    /\ labels' = [labels EXCEPT ![i] = @ \ orphaned[i]]
    /\ orphaned' = [orphaned EXCEPT ![i] = {}]
    /\ changes' = [changes EXCEPT ![i] = NoChanges]
    /\ pc' = [pc EXCEPT ![i] = "releasing"]
    /\ UNCHANGED <<table, source, loaded, view, fresh, cache, edits, faults>>

\* ApplyChanges returns, RunOnce is over.
Finish(i) ==
    /\ pc[i] = "releasing"
    /\ statements[i] = {}
    /\ pc' = [pc EXCEPT ![i] = "idle"]
    /\ UNCHANGED <<zone, table, source, loaded, labels, orphaned, view, changes,
                   statements, fresh, cache, edits, faults>>

\* The provider fails with a soft error: both caches are dropped, the rows that
\* were inserted stay.
SubmitFailsSoftly(i) ==
    /\ faults < MaxFaults
    /\ faults' = faults + 1
    /\ pc[i] = "claiming"
    /\ statements[i] = {}
    /\ pc' = [pc EXCEPT ![i] = "idle"]
    /\ loaded' = [loaded EXCEPT ![i] = FALSE]
    /\ labels' = [labels EXCEPT ![i] = {}]
    /\ fresh' = [fresh EXCEPT ![i] = FALSE]
    /\ cache' = [cache EXCEPT ![i] = {}]
    /\ changes' = [changes EXCEPT ![i] = NoChanges]
    /\ UNCHANGED <<zone, table, source, orphaned, view, statements, edits>>

\* The process ends: everything it knew is gone.
Forget(i) ==
    /\ pc' = [pc EXCEPT ![i] = "exited"]
    /\ loaded' = [loaded EXCEPT ![i] = FALSE]
    /\ labels' = [labels EXCEPT ![i] = {}]
    /\ orphaned' = [orphaned EXCEPT ![i] = {}]
    /\ view' = [view EXCEPT ![i] = {}]
    /\ changes' = [changes EXCEPT ![i] = NoChanges]
    /\ statements' = [statements EXCEPT ![i] = {}]
    /\ fresh' = [fresh EXCEPT ![i] = FALSE]
    /\ cache' = [cache EXCEPT ![i] = {}]

\* The provider rejects the batch; the error is not soft and Run calls log.Fatalf.
SubmitRejected(i) ==
    /\ pc[i] = "claiming"
    /\ statements[i] = {}
    /\ ~Acceptable(i)
    /\ Forget(i)
    /\ UNCHANGED <<zone, table, source, edits, faults>>

\* The pod is killed, or DynamoDB returns an error, which is fatal as well.
Kill(i) ==
    /\ faults < MaxFaults
    /\ faults' = faults + 1
    /\ pc[i] # "exited"
    /\ Forget(i)
    /\ UNCHANGED <<zone, table, source, edits>>

\* The kubelet starts the container again.
Restart(i) ==
    /\ pc[i] = "exited"
    /\ pc' = [pc EXCEPT ![i] = "idle"]
    /\ UNCHANGED <<zone, table, source, loaded, labels, orphaned, view, changes,
                   statements, fresh, cache, edits, faults>>

\* The cache interval has passed.
CacheExpires(i) ==
    /\ fresh[i]
    /\ fresh' = [fresh EXCEPT ![i] = FALSE]
    /\ cache' = [cache EXCEPT ![i] = {}]
    /\ UNCHANGED <<zone, table, source, pc, loaded, labels, orphaned, view, changes,
                   statements, edits, faults>>

\* Kubernetes resources change.
SourceChanges(i) ==
    /\ edits < MaxEdits
    /\ edits' = edits + 1
    /\ \E S \in SourceStates : S # source[i] /\ source' = [source EXCEPT ![i] = S]
    /\ UNCHANGED <<zone, table, pc, loaded, labels, orphaned, view, changes,
                   statements, fresh, cache, faults>>

\* Somebody else removes a record from the zone.
ThirdPartyRemoves ==
    /\ faults < MaxFaults
    /\ faults' = faults + 1
    /\ \E r \in zone : zone' = zone \ {r}
    /\ UNCHANGED <<table, source, pc, loaded, labels, orphaned, view, changes,
                   statements, fresh, cache, edits>>

RunOnce(i) ==
    \/ RecordsFromCache(i)
    \/ ReadLabels(i)
    \/ RecordsFromZone(i)
    \/ PlanChanges(i)
    \/ ExecuteStatement(i)
    \/ InsertLost(i)
    \/ SubmitChanges(i)
    \/ SubmitRejected(i)
    \/ Finish(i)

Next ==
    \/ \E i \in Instances :
          \/ RecordsFromCache(i)
          \/ ReadLabels(i)
          \/ RecordsFromZone(i)
          \/ PlanChanges(i)
          \/ ExecuteStatement(i)
          \/ InsertLost(i)
          \/ SubmitChanges(i)
          \/ SubmitRejected(i)
          \/ Finish(i)
          \/ SubmitFailsSoftly(i)
          \/ Kill(i)
          \/ Restart(i)
          \/ CacheExpires(i)
          \/ SourceChanges(i)
    \/ ThirdPartyRemoves

Spec == Init /\ [][Next]_vars

\* The loop of Run runs RunOnce again and again, the kubelet restarts what exits
\* and time passes.
Fairness ==
    \A i \in Instances : WF_vars(RunOnce(i)) /\ WF_vars(Restart(i)) /\ WF_vars(CacheExpires(i))

FairSpec == Spec /\ Fairness

-----------------------------------------------------------------------------
(***************************************************************************)
(* Properties.                                                             *)
(***************************************************************************)

\* The zone, the table and what the processes remember have their types.
TypeOK ==
    /\ zone \subseteq Record
    /\ table \subseteq Row
    /\ source \in [Instances -> SUBSET Desirable]
    /\ pc \in [Instances -> {"idle", "planning", "claiming", "releasing", "exited"}]
    /\ loaded \in [Instances -> BOOLEAN]
    /\ labels \in [Instances -> SUBSET Row]
    /\ orphaned \in [Instances -> SUBSET Row]
    /\ view \in [Instances -> SUBSET Endpoint]
    /\ changes \in [Instances -> Changes]
    /\ statements \in [Instances -> SUBSET Statement]
    /\ fresh \in [Instances -> BOOLEAN]
    /\ cache \in [Instances -> SUBSET Endpoint]
    /\ edits \in Nat
    /\ faults \in Nat

\* The table arbitrates: whenever the provider creates, changes or removes a
\* record for instance i, the row of that record is i's at that moment.  This does
\* not depend on what the provider checks: not on stale reads, caches, orphans of
\* killed processes or lost INSERTs (executeStatements before ApplyChanges).
Arbitrated ==
    [][\A i \in Instances : pc[i] = "claiming" /\ pc'[i] = "releasing" =>
          \A r \in (zone \ zone') \cup (zone' \ zone) :
              \E w \in table : SameRecord(w, r) /\ w.owner = i]_vars

Promise == INSTANCE Ownership WITH
    records <- {[id |-> <<r.key, r.type>>, data |-> r] : r \in zone},
    claims <- {[id |-> <<w.key, w.type>>, owner |-> w.owner] : w \in table}

\* The registry implements Ownership, with the rows for claims: a row is inserted only
\* where there is none, only its owner deletes it, and DNS changes are made under
\* rows only, although labels and cache run ahead of the table (executeStatements).
KeepsPromise == Promise!Spec

\* A record that ExternalDNS put into the zone never loses its row: the row is
\* written before the record and given up after it (the order of the phases).
NeverUnclaimed == \A r \in zone : In(r, InitZone) \/ In(r, table)

\* What a process that is not in the middle of ApplyChanges takes for its rows are
\* the rows it has in the table; a cached record is never somebody else's.
LabelsAccurate ==
    \A i \in Instances :
        /\ loaded[i] /\ pc[i] \in {"idle", "planning"} =>
               labels[i] = {w \in table : w.owner = i}
        /\ \A e \in cache[i] : e.owner = i /\ pc[i] \in {"idle", "planning"} =>
               \E w \in table : SameRecord(w, e) /\ w.owner = i

\* What the sources of i want for a name is in the zone and nothing else is,
\* unless a record of the name belongs to somebody else.
Realised(i) ==
    \A k \in Keys :
        LET held == {r \in zone : r.key = k}
            wanted == {e \in source[i] : e.key = k}
        IN  (\A r \in held : \E w \in table : SameRecord(w, r) /\ w.owner = i) =>
                /\ TypesOf(held) = TypesOf(ResolveRecordTypes(wanted))
                /\ \A r \in held : \E e \in wanted :
                       SameRecord(e, r) /\ e.targets = r.targets

\* Once the source is left in peace the zone becomes what it wants and stays so;
\* the orphaned rows that kills and soft errors left behind are claimed again.
Converges == <>[](\A i \in Instances : Realised(i))

\* Once all is quiet nothing is submitted any more.
Quiescent == <>[](\A i \in Instances : pc[i] # "claiming")

-----------------------------------------------------------------------------
(***************************************************************************)
(* Inductive invariants behind Arbitrated and NeverUnclaimed.              *)
(***************************************************************************)

\* No record has two rows.
RowPerRecord == \A v, w \in table : SameRecord(v, w) => v = w

\* The table has a row of i for e.
Owns(i, e) == \E w \in table : SameRecord(w, e) /\ w.owner = i

\* A statement of i about e is still to be executed.
Pending(i, op, e) == \E s \in statements[i] : s.op = op /\ SameRecord(s.row, e)

\* What i takes for its own: its labels, and the records it knows with its label.
Claimed(i) == labels[i] \cup {e \in cache[i] \cup view[i] : e.owner = i}

\* The statements of i are about rows of i: claims before the DNS changes,
\* releases after them, and nothing in between two runs.
StatementsInv(i) ==
    /\ \A s \in statements[i] : s.row.owner = i
    /\ \A w \in labels[i] \cup orphaned[i] : w.owner = i
    /\ \A s \in statements[i] : IF s.op = "DELETE" THEN pc[i] = "releasing"
                                                   ELSE pc[i] = "claiming"

\* A claim is covered by a row of i, or will be before the changes are submitted,
\* and i is not about to give that row up.
ClaimInv(i) ==
    \A e \in Claimed(i) : /\ Owns(i, e) \/ Pending(i, "INSERT", e)
                          /\ ~Pending(i, "DELETE", e)

\* So are the changes while they are being claimed.
ChangesInv(i) ==
    LET ch == changes[i]
    IN  pc[i] = "claiming" =>
            /\ \A e \in ch.create : Owns(i, e) \/ Pending(i, "INSERT", e)
            /\ \A e \in ch.updateNew \cup ch.delete : Owns(i, e)
            /\ \A e \in Claimed(i) : ~In(e, ch.delete)
            /\ \A e \in ch.create \cup ch.updateNew : ~In(e, orphaned[i])
            /\ Unique(ch.create)
            /\ Unique(ch.updateNew)
            /\ fresh[i] => ch.create \subseteq cache[i]
            /\ \A s \in statements[i] : s.op = "INSERT" =>
                   /\ In(s.row, ch.create)
                   /\ \A q \in statements[i] :
                          q.op = "INSERT" /\ SameRecord(q.row, s.row) => q = s

\* No record is known twice, and a plan made from the cache is about the cache.
CacheInv(i) ==
    /\ Unique(cache[i])
    /\ Unique(view[i])
    /\ pc[i] = "planning" /\ fresh[i] => view[i] = cache[i]
    /\ pc[i] # "planning" => view[i] = {}
    /\ ~fresh[i] => cache[i] = {}

\* What is an orphan is a record of none of the known claims, as long as the
\* orphans are those of the last read.
OrphanInv(i) ==
    fresh[i] \/ pc[i] \in {"planning", "claiming", "releasing"} =>
        /\ \A w \in labels[i] : In(w, orphaned[i]) => w \in orphaned[i]
        /\ \A e \in cache[i] \cup view[i] : e.owner = i => ~In(e, orphaned[i])

ProcessInv(i) ==
    StatementsInv(i) /\ ClaimInv(i) /\ ChangesInv(i) /\ CacheInv(i) /\ OrphanInv(i)

RegistryInv ==
    /\ TypeOK
    /\ RowPerRecord
    /\ Unique(zone)
    /\ \A i \in Instances : ProcessInv(i)

\* What i is going to give up, or takes for an orphan, has no record in the zone for
\* as long as the row is there.
ReleaseInv(i) ==
    /\ \A s \in statements[i] : s.op = "DELETE" /\ Owns(i, s.row) => ~In(s.row, zone)
    /\ fresh[i] \/ pc[i] \in {"planning", "claiming", "releasing"} =>
           \A w \in orphaned[i] : Owns(i, w) /\ ~In(w, zone)
    /\ pc[i] = "releasing" => orphaned[i] = {}

\* The invariant behind NeverUnclaimed.
ZoneInv == RegistryInv /\ NeverUnclaimed /\ \A i \in Instances : ReleaseInv(i)

=============================================================================
