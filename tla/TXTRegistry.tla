----------------------------- MODULE TXTRegistry -----------------------------
(***************************************************************************)
(* Several ExternalDNS processes reconcile one DNS zone through the TXT    *)
(* registry: RunOnce of controller/controller.go, the registry of          *)
(* registry/txt/registry.go with its records cache, the planner of module  *)
(* Plan, and a provider that validates change batches as                   *)
(* provider/inmemory/inmemory.go does.                                     *)
(*                                                                         *)
(* A RunOnce is three steps, between which everything else may happen:     *)
(* Registry.Records reads the zone or the cache, Source.Endpoints is read  *)
(* and planned, and Registry.ApplyChanges submits the changes computed     *)
(* from what was read.  The provider applies a batch atomically.           *)
(***************************************************************************)
EXTENDS Provider

CONSTANTS
    Instances,        \* the processes, each named by its --txt-owner-id
    OldOwnerID,       \* --migrate-from-txt-owner, "" when not set
    CacheRecords,     \* --txt-cache-interval is positive
    Desirable,        \* what sources may want, labels other than resource unset
    InitZone,         \* records in the zone at the start
    InitTXTs,         \* ownership records in the zone at the start
    MaxEdits,         \* bound on changes of the sources
    MaxFaults         \* bound on soft errors, kills and edits by third parties

ForceUpdate == "txt/force-update"
Legacy == ""          \* the record type parsed from a TXT name of the old format

\* An ownership record is told apart by the name it covers and the type encoded in
\* its own name; its target is the serialized labels.
Label == [owner : Owners \cup {NoOwner}, resource : Resources \cup {NoResource}]
TXT == [key : Keys, type : RecordTypes \cup {Legacy}, targets : Label]

ASSUME TXTAssumption ==
    /\ Instances \subseteq Owners
    /\ OldOwnerID \in Owners \cup {NoOwner}
    /\ CacheRecords \in BOOLEAN
    /\ Desirable \subseteq {e \in Endpoint : e.owner = NoOwner}
    /\ ForceUpdate \in Properties
    /\ "CNAME" \in RecordTypes /\ Legacy \notin RecordTypes
    /\ InitZone \subseteq Record
    /\ Unique(InitZone)
    /\ InitTXTs \subseteq TXT
    /\ Unique(InitTXTs)
    /\ MaxEdits \in Nat
    /\ MaxFaults \in Nat

VARIABLES
    zone,       \* the records of the DNS zone that are not ownership records
    txts,       \* the ownership records of the zone
    source,     \* per instance, what its Kubernetes cluster wants
    pc,         \* per instance, where RunOnce is
    view,       \* per instance, what Registry.Records returned
    changes,    \* per instance, plan.Changes about to be applied
    fresh,      \* per instance, recordsCache is set and has not expired
    cache,      \* per instance, recordsCache while fresh
    existing,   \* per instance, existingTXTs
    edits,      \* number of source changes so far
    faults      \* number of faults so far

vars == <<zone, txts, source, pc, view, changes, fresh, cache, existing, edits, faults>>

-----------------------------------------------------------------------------
(***************************************************************************)
(* The registry.                                                           *)
(***************************************************************************)

\* The type in the name of a record's TXT: an alias A record counts as CNAME.
TXTType(e) == IF e.type = "A" /\ "alias" \in e.props THEN "CNAME" ELSE e.type

Migrated(i, o) == IF OldOwnerID # NoOwner /\ o = OldOwnerID THEN i ELSE o

\* generateTXTRecord: the ownership record for e.
generateTXTRecord(i, e) ==
    [key |-> e.key, type |-> TXTType(e),
     targets |-> [owner |-> Migrated(i, e.owner), resource |-> e.resource]]

\* MUTANT: of the labels only the owner is taken over.
LabelsOfOwnerOnly(T, r) ==
    LET found == {x \in T : x.key = r.key /\ x.type = TXTType(r)}
    IN  [owner |-> IF found # {} THEN (CHOOSE x \in found : TRUE).targets.owner ELSE NoOwner,
         resource |-> NoResource]

\* The labels of zone record r: the new format first, then the old one, which
\* AAAA records never had.
LabelsOf(T, r) ==
    LET new == {x \in T : x.key = r.key /\ x.type = TXTType(r)}
        old == {x \in T : x.key = r.key /\ x.type = Legacy /\ r.type # "AAAA"}
    IN  IF new # {} THEN (CHOOSE x \in new : TRUE).targets
        ELSE IF old # {} THEN (CHOOSE x \in old : TRUE).targets
        ELSE [owner |-> NoOwner, resource |-> NoResource]

\* MUTANT: the names that exist are not looked up.
NeedsTXTAlways(i, o, T, r) == o = i /\ IsManagedRecord(r.type)

\* An owned record whose TXT does not exist under its present name is marked to
\* be updated.  Names are compared without the set identifier.
NeedsTXT(i, o, T, r) ==
    /\ o = i
    /\ T # {}
    /\ IsManagedRecord(r.type)
    /\ ~\E x \in T : x.key[1] = r.key[1] /\ x.type = TXTType(r)

\* Zone record r as Records of instance i returns it.
Labelled(i, T, r) ==
    LET l == LabelsOf(T, r)
        o == Migrated(i, l.owner)
    IN  [key |-> r.key, type |-> r.type, targets |-> r.targets, ttl |-> r.ttl,
         props |-> IF NeedsTXT(i, o, T, r) THEN r.props \cup {ForceUpdate} ELSE r.props,
         owner |-> o, resource |-> l.resource]

Labelling(i, Z, T) == {Labelled(i, T, r) : r \in Z}

\* ApplyChanges claims what it creates.
ownedCreates(i, S) == {[e EXCEPT !.owner = i] : e \in S}

\* The registry's filter, applied to the plan once more.
filteredChanges(i, ch) ==
    [create |-> ownedCreates(i, ch.create),
     updateOld |-> FilterEndpointsByOwnerID(i, ch.updateOld),
     updateNew |-> FilterEndpointsByOwnerID(i, ch.updateNew),
     delete |-> FilterEndpointsByOwnerID(i, ch.delete)]

\* MUTANT: the TXT of a deleted record is left behind.
TXTBatchSkipsDeletes(i, ex, fc) ==
    [create |-> {x \in {generateTXTRecord(i, e) : e \in fc.create} : <<x.key, x.type>> \notin ex},
     updateOld |-> {generateTXTRecord(i, e) : e \in fc.updateOld},
     updateNew |-> {generateTXTRecord(i, e) : e \in fc.updateNew},
     delete |-> {}]

\* What is sent to the provider for the TXTs in the same call; one that Records
\* saw is not created.
TXTBatch(i, ex, fc) ==
    [create |-> {x \in {generateTXTRecord(i, e) : e \in fc.create} : <<x.key, x.type>> \notin ex},
     updateOld |-> {generateTXTRecord(i, e) : e \in fc.updateOld},
     updateNew |-> {generateTXTRecord(i, e) : e \in fc.updateNew},
     delete |-> {generateTXTRecord(i, e) : e \in fc.delete}]

\* MUTANT: deleted records stay in the cache.
CacheAfterKeepsDeleted(c, fc) ==
    {e \in c : ~Matches(e, fc.updateOld)} \cup fc.create \cup fc.updateNew

\* addToCache and removeFromCache, in the order ApplyChanges calls them.
CacheAfter(c, fc) ==
    {e \in c \cup fc.create : ~Matches(e, fc.delete \cup fc.updateOld)} \cup fc.updateNew

-----------------------------------------------------------------------------
(***************************************************************************)
(* The processes.                                                          *)
(***************************************************************************)

\* The states a source can be in: what deduplication leaves.
SourceStates ==
    {S \in SUBSET Desirable :
        \A e, f \in S : SameRecord(e, f) /\ e.targets = f.targets => e = f}

Init ==
    /\ zone = InitZone
    /\ txts = InitTXTs
    /\ source \in [Instances -> SourceStates]
    /\ pc = [i \in Instances |-> "idle"]
    /\ view = [i \in Instances |-> {}]
    /\ changes = [i \in Instances |-> NoChanges]
    /\ fresh = [i \in Instances |-> FALSE]
    /\ cache = [i \in Instances |-> {}]
    /\ existing = [i \in Instances |-> {}]
    /\ edits = 0
    /\ faults = 0

\* RunOnce, first part: Records from the cache, if it is fresh.  existingTXTs is
\* reset and stays empty.
RecordsFromCache(i) ==
    /\ pc[i] = "idle"
    /\ fresh[i]
    /\ pc' = [pc EXCEPT ![i] = "planning"]
    /\ view' = [view EXCEPT ![i] = cache[i]]
    /\ existing' = [existing EXCEPT ![i] = {}]
    /\ UNCHANGED <<zone, txts, source, changes, fresh, cache, edits, faults>>

\* Otherwise Records reads the zone and fills the cache and existingTXTs.
RecordsFromZone(i) ==
    /\ pc[i] = "idle"
    /\ ~fresh[i]
    /\ pc' = [pc EXCEPT ![i] = "planning"]
    /\ view' = [view EXCEPT ![i] = Labelling(i, zone, txts)]
    /\ existing' = [existing EXCEPT ![i] = {<<x.key, x.type>> : x \in txts}]
    /\ fresh' = [fresh EXCEPT ![i] = CacheRecords]
    /\ cache' = [cache EXCEPT ![i] = IF CacheRecords THEN view'[i] ELSE {}]
    /\ UNCHANGED <<zone, txts, source, changes, edits, faults>>

\* RunOnce, second part: Source.Endpoints, Calculate, HasChanges.
PlanChanges(i) ==
    /\ pc[i] = "planning"
    /\ \E ch \in {Calculate(i, OldOwnerID, view[i], source[i])} :
           IF HasChanges(ch)
           THEN /\ changes' = [changes EXCEPT ![i] = ch]
                /\ pc' = [pc EXCEPT ![i] = "applying"]
           ELSE /\ changes' = changes
                /\ pc' = [pc EXCEPT ![i] = "idle"]
    /\ view' = [view EXCEPT ![i] = {}]
    /\ UNCHANGED <<zone, txts, source, fresh, cache, existing, edits, faults>>

\* ApplyChanges updates the cache before it calls the provider.
UpdateCache(i) ==
    cache' = [cache EXCEPT ![i] =
                 IF fresh[i] THEN CacheAfter(@, filteredChanges(i, changes[i])) ELSE {}]

Acceptable(i) ==
    \E fc \in {filteredChanges(i, changes[i])} :
        /\ validateChangeBatch(zone, RecordBatch(fc))
        /\ validateChangeBatch(txts, TXTBatch(i, existing[i], fc))

\* RunOnce, third part: the provider accepts and applies the batch.
ApplyChanges(i) ==
    /\ pc[i] = "applying"
    /\ Acceptable(i)
    /\ \E fc \in {filteredChanges(i, changes[i])} :
           /\ zone' = Applied(zone, RecordBatch(fc))
           /\ txts' = Applied(txts, TXTBatch(i, existing[i], fc))
    /\ UpdateCache(i)
    /\ pc' = [pc EXCEPT ![i] = "idle"]
    /\ changes' = [changes EXCEPT ![i] = NoChanges]
    /\ UNCHANGED <<source, view, fresh, existing, edits, faults>>

\* The process ends: everything it knew is gone.
Forget(i) ==
    /\ pc' = [pc EXCEPT ![i] = "exited"]
    /\ view' = [view EXCEPT ![i] = {}]
    /\ changes' = [changes EXCEPT ![i] = NoChanges]
    /\ fresh' = [fresh EXCEPT ![i] = FALSE]
    /\ cache' = [cache EXCEPT ![i] = {}]
    /\ existing' = [existing EXCEPT ![i] = {}]

\* The provider rejects the batch; the error is not soft and Run calls log.Fatalf.
ApplyChangesRejected(i) ==
    /\ pc[i] = "applying"
    /\ ~Acceptable(i)
    /\ Forget(i)
    /\ UNCHANGED <<zone, txts, source, edits, faults>>

\* A soft error of the provider: nothing is applied, but the cache was updated
\* and the loop goes on with it.
ApplyChangesFailsSoftly(i) ==
    /\ faults < MaxFaults
    /\ faults' = faults + 1
    /\ pc[i] = "applying"
    /\ UpdateCache(i)
    /\ pc' = [pc EXCEPT ![i] = "idle"]
    /\ changes' = [changes EXCEPT ![i] = NoChanges]
    /\ UNCHANGED <<zone, txts, source, view, fresh, existing, edits>>

\* The pod is killed at any moment ...
Kill(i) ==
    /\ faults < MaxFaults
    /\ faults' = faults + 1
    /\ pc[i] # "exited"
    /\ Forget(i)
    /\ UNCHANGED <<zone, txts, source, edits>>

\* ... and started again.
Restart(i) ==
    /\ pc[i] = "exited"
    /\ pc' = [pc EXCEPT ![i] = "idle"]
    /\ UNCHANGED <<zone, txts, source, view, changes, fresh, cache, existing, edits, faults>>

\* The cache interval has passed.
CacheExpires(i) ==
    /\ fresh[i]
    /\ fresh' = [fresh EXCEPT ![i] = FALSE]
    /\ cache' = [cache EXCEPT ![i] = {}]
    /\ UNCHANGED <<zone, txts, source, pc, view, changes, existing, edits, faults>>

-----------------------------------------------------------------------------
(***************************************************************************)
(* The environment.                                                        *)
(***************************************************************************)

\* Kubernetes resources change.
SourceChanges(i) ==
    /\ edits < MaxEdits
    /\ edits' = edits + 1
    /\ \E S \in SourceStates : S # source[i] /\ source' = [source EXCEPT ![i] = S]
    /\ UNCHANGED <<zone, txts, pc, view, changes, fresh, cache, existing, faults>>

\* Somebody else edits the zone: removes a record, removes an ownership record,
\* or adds a record nobody owns.
ThirdPartyEdits ==
    /\ faults < MaxFaults
    /\ faults' = faults + 1
    /\ \/ \E r \in zone : zone' = zone \ {r} /\ txts' = txts
       \/ \E x \in txts : txts' = txts \ {x} /\ zone' = zone
       \/ \E e \in Desirable : ~In(e, zone) /\ zone' = zone \cup {Stored(e)} /\ txts' = txts
    /\ UNCHANGED <<source, pc, view, changes, fresh, cache, existing, edits>>

RunOnce(i) ==
    \/ RecordsFromCache(i)
    \/ RecordsFromZone(i)
    \/ PlanChanges(i)
    \/ ApplyChanges(i)
    \/ ApplyChangesRejected(i)

Next ==
    \/ \E i \in Instances :
          \/ RecordsFromCache(i)
          \/ RecordsFromZone(i)
          \/ PlanChanges(i)
          \/ ApplyChanges(i)
          \/ ApplyChangesRejected(i)
          \/ ApplyChangesFailsSoftly(i)
          \/ Kill(i)
          \/ Restart(i)
          \/ CacheExpires(i)
          \/ SourceChanges(i)
    \/ ThirdPartyEdits

Spec == Init /\ [][Next]_vars

\* The loop of Run runs RunOnce again and again, the kubelet restarts what exits
\* and time passes, so that no cache stays fresh for ever.
Fairness ==
    \A i \in Instances : WF_vars(RunOnce(i)) /\ WF_vars(Restart(i)) /\ WF_vars(CacheExpires(i))

FairSpec == Spec /\ Fairness

-----------------------------------------------------------------------------
(***************************************************************************)
(* Properties.                                                             *)
(***************************************************************************)

\* The zone, the plans and what the processes remember have their types.
TypeOK ==
    /\ zone \subseteq Record
    /\ txts \subseteq TXT
    /\ source \in [Instances -> SUBSET Desirable]
    /\ pc \in [Instances -> {"idle", "planning", "applying", "exited"}]
    /\ view \in [Instances -> SUBSET Endpoint]
    /\ changes \in [Instances -> Changes]
    /\ fresh \in [Instances -> BOOLEAN]
    /\ cache \in [Instances -> SUBSET Endpoint]
    /\ existing \in [Instances -> SUBSET (Keys \X (RecordTypes \cup {Legacy}))]
    /\ edits \in Nat
    /\ faults \in Nat

\* An ownership record of instance i for zone record r.
Claims(i, x, r) ==
    /\ x.key = r.key
    /\ x.type \in {TXTType(r), Legacy}
    /\ Migrated(i, x.targets.owner) = i

\* docs/faq.md:99: ExternalDNS "will never modify any records over which it
\* doesn't have control".  At the moment instance i changes or removes a record,
\* an ownership record of i for it is in the zone - although the plan was made
\* from an earlier read or from a cache, and whatever other instances, kills, soft
\* errors and third parties did in between (ApplyChanges, validateChangeBatch).
ForeignUntouched ==
    [][\A i \in Instances : pc[i] = "applying" /\ pc'[i] = "idle" =>
          \A r \in zone : r \notin zone' => \E x \in txts : Claims(i, x, r)]_vars

Promise == INSTANCE Ownership WITH
    records <- {[id |-> <<r.key, TXTType(r)>>, data |-> r] : r \in zone},
    claims <- {[id |-> <<x.key, x.type>>, owner |-> x.targets.owner] : x \in txts}

\* The registry implements Ownership, with the TXTs for claims: an ownership record is
\* written only where there is none of somebody else, although what Records saw may
\* be long gone when the batch is submitted (ApplyChanges, validateChangeBatch).
KeepsPromise == Promise!Spec

\* The same for ownership records: no instance changes or removes one of another.
OwnershipUntouched ==
    [][\A i \in Instances : pc[i] = "applying" /\ pc'[i] = "idle" =>
          \A x \in txts : x \notin txts' => Migrated(i, x.targets.owner) = i]_vars

\* Unless somebody else edits the zone, every ownership record has its record and
\* every record that was not there before has its ownership record: TXT and
\* record are created, updated and deleted together (ApplyChanges).
Paired ==
    faults = 0 =>
        /\ \A x \in txts : x.type # Legacy =>
               \E r \in zone : r.key = x.key /\ TXTType(r) = x.type
        /\ \A r \in zone : In(r, InitZone) \/ LabelsOf(txts, r).owner \in Instances

\* Without faults the records cache is right about every record of its own
\* instance, although it is patched by ApplyChanges and never told what other
\* instances do (addToCache, removeFromCache).
CacheAccurate ==
    faults = 0 =>
        \A i \in Instances : fresh[i] =>
            FilterEndpointsByOwnerID(i, cache[i]) =
                FilterEndpointsByOwnerID(i, Labelling(i, zone, txts))

\* plan/plan.go:106: "If the current domain record is a CNAME, no other record
\* types are allowed per [RFC 1034 3.6.2]".  ExternalDNS never puts a CNAME beside
\* another record, nor another record beside a CNAME.
CNAMEAlone ==
    faults = 0 =>
        \A x, y \in zone : x.key = y.key /\ x.type = "CNAME" => x = y

\* What the sources of i want for a name is in the zone and nothing else is,
\* unless a record of the name belongs to somebody else.
Realised(i) ==
    \A k \in Keys :
        LET held == {r \in zone : r.key = k}
            wanted == {e \in source[i] : e.key = k}
        IN  (\A r \in held : \E x \in txts : Claims(i, x, r)) =>
                /\ TypesOf(held) = TypesOf(ResolveRecordTypes(wanted))
                /\ \A r \in held : \E e \in wanted :
                       SameRecord(e, r) /\ e.targets = r.targets

\* Once sources and zone are left in peace the zone becomes what the sources want
\* and stays so, whatever soft errors, kills, rejected batches and stale caches
\* came before.
Converges == <>[](\A i \in Instances : Realised(i))

\* The resource that holds a name keeps it: as long as the plan sees that the
\* resource still wants the record, another resource of the same instance does not
\* take it over, even with a lesser target (PerResource.ResolveUpdate).
HolderKept ==
    [][\A i \in Instances : \A e \in view[i] :
          /\ pc[i] = "planning" /\ pc'[i] = "applying"
          /\ \E d \in source[i] : SameRecord(d, e) /\ d.resource = e.resource
          => \A n \in changes'[i].updateNew : SameRecord(n, e) => n.resource = e.resource]_vars

\* plan/plan.go:248: "only add creates if the external dns has ownership claim on
\* the domain".  A plan adds nothing to a name under which the instance saw a
\* record that is not its own, whichever types and whichever row of the table.
TakenNamesLeft ==
    [][\A i \in Instances : pc[i] = "planning" /\ pc'[i] = "applying" =>
          \A n \in changes'[i].create : \A e \in view[i] :
              IsManagedRecord(e.type) /\ e.key = n.key => e.owner = i]_vars

\* registry/txt/registry.go:358: "TXT record value is uniquely generated from the
\* Labels of the endpoint. Hence old TXT record can be uniquely reconstructed".
\* Without faults the ownership records that are to be updated or deleted are
\* exactly those of the zone.
TXTsReconstructed ==
    faults = 0 =>
        \A i \in Instances : pc[i] = "applying" =>
            LET b == TXTBatch(i, existing[i], filteredChanges(i, changes[i]))
            IN  b.updateOld \cup b.delete \subseteq txts

\* docs/registry/txt.md:53: after an "unintended deletion of all TXT records
\* managed by external-dns" it "will initiate a full DNS record regeneration,
\* along with TXT and non-TXT records".
TXTsRegenerated ==
    (txts = {} /\ \E i \in Instances : \E e \in source[i] : In(e, zone)) ~> (txts # {})

\* docs/registry/txt.md:213: with --migrate-from-txt-owner "the owner ID of the TXT
\* records managed by external-dns instance can be updated".  In the end no
\* ownership record of a wanted record bears the old owner.
OwnerMigrated ==
    <>[](\A x \in txts : \A i \in Instances :
            (\E e \in source[i] : e.key = x.key /\ TXTType(e) = x.type)
                => x.targets.owner # OldOwnerID)

\* It becomes quiet, too: in the end no RunOnce submits anything.
Quiescent == <>[](\A i \in Instances : pc[i] # "applying")

=============================================================================
