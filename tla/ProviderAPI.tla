---------------------------- MODULE ProviderAPI ----------------------------
(***************************************************************************)
(* What the models of the DNS providers share: names and zones, the        *)
(* records a DNS service keeps, the calls an ApplyChanges makes on it, and  *)
(* the helpers of provider/provider.go and provider/zonefinder.go.         *)
(*                                                                         *)
(* A DNS name is a sequence of labels, a zone name is one of its suffixes. *)
(* A service keeps one record per target: zone, name, type, set            *)
(* identifier, target, ttl and provider-specific data.  A target list is   *)
(* coded in an endpoint as the number whose binary digits are its targets, *)
(* so that an endpoint here is an endpoint of Plan, with one field more:   *)
(* owned, name and type of the record that a TXT record is about.          *)
(*                                                                         *)
(* ApplyChanges of a provider is a script, the sequence of calls that      *)
(* change the service, each with what the code does when it fails:         *)
(*   "hard", "soft"  return that error at once                             *)
(*   "note"          go on, return the error (hard) at the end             *)
(*   "softnote"      the same with a soft error                            *)
(*   "forget"        log and go on, the failure is not reported            *)
(*   "parallel"      return a soft error; of the calls made at the same    *)
(*                   time some may be made, but not the closing call of    *)
(*                   the group of the one that failed                      *)
(* and the calls that are tried in its place, if any.                      *)
(***************************************************************************)
EXTENDS Plan, SequencesExt, FiniteSetsExt

CONSTANTS
    Zones,          \* [id, name, private, managed]: managed zones pass the filters
    TargetIds,      \* the targets, small numbers
    HostTargets,    \* those that are host names
    DryRun          \* --dry-run

\* Zones have an identifier of their own.
ASSUME ZoneAssumption ==
    /\ IsFiniteSet(Zones) /\ IsFiniteSet(TargetIds)
    /\ \A z \in Zones : z.name \in Seq(STRING) /\ z.managed \in BOOLEAN
    /\ \A y, z \in Zones : y.id = z.id => y = z

NoName == <<>>

TargetsOf(e) == {t \in TargetIds : (e.targets \div 2^t) % 2 = 1}
RankOf(T) == MapThenSumSet(LAMBDA t : 2^t, T)

\* The code of a target list tells its targets.
ASSUME RankAssumption == \A T \in SUBSET TargetIds : TargetsOf([targets |-> RankOf(T)]) = T

Ep(name, set, type, targets, ttl, props) ==
    [key |-> <<name, set>>, type |-> type, targets |-> RankOf(targets), ttl |-> ttl,
     props |-> props, owner |-> NoOwner, resource |-> NoResource, owned |-> NoName]

NameOf(e) == e.key[1]
SetOf(e) == e.key[2]

\* An endpoint as sources make them.
IsEndpoint(e) ==
    e \in [key : Seq(STRING) \X STRING, type : STRING, targets : Nat, ttl : Nat, props : {e.props},
           owner : STRING, resource : STRING, owned : {e.owned}]

\* The lists f[x] one after the other, in one order of their indices.
Concat(f) == FoldSet(LAMBDA x, acc : acc \o f[x], <<>>, DOMAIN f)

\* A list of the members of S, and the lists F(x) for the members x of S.
AsSeq(S) == Concat([x \in S |-> <<x>>])
ConcatOver(F(_), S) == Concat([x \in S |-> F(x)])

-----------------------------------------------------------------------------
(***************************************************************************)
(* Names and zones.                                                        *)
(***************************************************************************)

InZone(n, z) == IsSuffix(z.name, n)

\* MUTANT: the shortest suffix is taken.
FindZoneShortest(Z, n) ==
    LET fit == {z \in Z : InZone(n, z)}
    IN  {z \in fit : \A y \in fit : Len(y.name) >= Len(z.name)}

\* The zones of Z with the longest name that is a suffix of n: one or none.
FindZone(Z, n) ==
    LET fit == {z \in Z : InZone(n, z)}
    IN  {z \in fit : \A y \in fit : Len(y.name) <= Len(z.name)}

ManagedZones == {z \in Zones : z.managed}

\* The name inside the zone, <<>> at its apex, and back.
Relative(n, z) == SubSeq(n, 1, Len(n) - Len(z.name))
Full(n, z) == n \o z.name

\* The endpoints of E with the zone each belongs to; those without one are skipped.
ByZone(E) ==
    UNION {{<<z, e>> : z \in FindZone(ManagedZones, NameOf(e))} : e \in E}

SupportedRecordType(t) == t \in {"A", "AAAA", "CNAME", "SRV", "TXT", "NS"}

-----------------------------------------------------------------------------
(***************************************************************************)
(* The service.                                                            *)
(***************************************************************************)

RR(zone, name, set, type, target, ttl, props) ==
    [zone |-> zone, name |-> name, set |-> set, type |-> type, target |-> target,
     ttl |-> ttl, props |-> props]

\* The records that share zone, name, type and set identifier with r.
SameSet(r, s) ==
    r.zone = s.zone /\ r.name = s.name /\ r.type = s.type /\ r.set = s.set

\* A call: the record sets it empties, the records it removes, those it adds.
Call(clear, del, add, onFail) ==
    [clear |-> clear, del |-> del, add |-> add, onFail |-> onFail, instead |-> <<>>,
     queue |-> {}, refused |-> FALSE, later |-> {}, group |-> "", closing |-> FALSE]

\* ApplyChanges returns an error of its own accord.
Refuse(err) == [Call({}, {}, {}, err) EXCEPT !.refused = TRUE]

Add(rrs, onFail) == Call({}, {}, rrs, onFail)
Del(rrs, onFail) == Call({}, rrs, {}, onFail)
Change(old, new, onFail) == Call({}, {old}, {new}, onFail)

\* The service is read again, and the calls for x follow from what it holds.
Later(x) == [Call({}, {}, {}, "hard") EXCEPT !.later = {x}]

\* The record sets of rrs become rrs.
Put(rrs, onFail) == Call(rrs, {}, rrs, onFail)
Drop(rrs, onFail) == Call(rrs, {}, {}, onFail)

Effect(S, c) ==
    {r \in S : r \notin c.del /\ ~\E x \in c.clear : SameSet(r, x)} \cup c.add

-----------------------------------------------------------------------------
(***************************************************************************)
(* Changes.                                                                *)
(***************************************************************************)

\* The old version of an updated endpoint: UpdateOld[i] of UpdateNew[i].
OldOf(ch, e) ==
    CHOOSE o \in ch.updateOld :
        /\ o.owned = e.owned
        /\ IF e.owned = NoName THEN SameRecord(o, e) ELSE SetOf(o) = SetOf(e)

\* Difference: what to add to current and what to remove from it.
Difference(current, desired) ==
    [add |-> desired \ current, remove |-> current \ desired,
     leave |-> current \cap desired]

-----------------------------------------------------------------------------
(***************************************************************************)
(* Services that keep one record per target under a name relative to the   *)
(* zone.                                                                   *)
(***************************************************************************)

\* The records of e in zone z, with the given ttl.
RecordsFor(z, e, ttl) ==
    {RR(z.id, Relative(NameOf(e), z), "", e.type, t, ttl, {}) : t \in TargetsOf(e)}

\* MUTANT: the type is not compared.
MatchingName(S, z, e) == {r \in S : r.zone = z.id /\ r.name = Relative(NameOf(e), z)}

\* The records of S with the name and type of e in zone z.
Matching(S, z, e) ==
    {r \in S : r.zone = z.id /\ r.name = Relative(NameOf(e), z) /\ r.type = e.type}

ZoneWithId(id) == CHOOSE z \in Zones : z.id = id
FullNameOf(r) == Full(r.name, ZoneWithId(r.zone))

\* The records of S in the managed zones.
InManagedZones(S) == {r \in S : ZoneWithId(r.zone).managed}

\* The parts of S that are left when some of the managed zones cannot be read.
WithoutZones(S) == {{r \in S : r.zone \notin Z} : Z \in SUBSET {z.id : z \in ManagedZones}}

\* One endpoint per record, or one per name and type with all its targets and the
\* ttl of one of them.
EndpointPerRecord(S) ==
    {Ep(FullNameOf(r), "", r.type, {r.target}, r.ttl, {}) : r \in S}
EndpointPerSet(S) ==
    {LET same == {s \in S : SameSet(r, s)}
     IN  Ep(FullNameOf(r), "", r.type, {s.target : s \in same},
            (CHOOSE s \in same : TRUE).ttl, {}) : r \in S}

\* The same for services that keep whole names.
EndpointPerName(S) ==
    {Ep(r.name, "", r.type, {s.target : s \in {x \in S : SameSet(x, r)}}, r.ttl, {}) : r \in S}

\* The records of e in zone z, under its whole name.
NamedRecordsFor(z, e, ttl) ==
    {RR(z.id, NameOf(e), "", e.type, t, ttl, {}) : t \in TargetsOf(e)}

\* MUTANT: targets that are not wanted any more stay.
ByTargetAdding(matched, new) ==
    [create |-> {n \in new : \A r \in matched : r.target # n.target},
     update |-> {p \in matched \X new : p[1].target = p[2].target},
     delete |-> {}]

\* The records that turn the matched records into new: targets that stay are edited,
\* others are created and deleted.
ByTarget(matched, new) ==
    [create |-> {n \in new : \A r \in matched : r.target # n.target},
     update |-> {p \in matched \X new : p[1].target = p[2].target},
     delete |-> {r \in matched : \A n \in new : r.target # n.target}]

\* One call per member of X.
Each(F(_), X) == Concat([x \in X |-> <<F(x)>>])

=============================================================================
