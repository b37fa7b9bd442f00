-------------------------- MODULE RFC2136Provider --------------------------
(***************************************************************************)
(* provider/rfc2136/rfc2136.go, with zone transfers enabled, PTR records   *)
(* disabled and one name server.  An update message changes one zone as a  *)
(* whole: records to remove, then records to insert.                       *)
(***************************************************************************)
EXTENDS ProviderAPI

CONSTANTS
    RFC2136BatchChangeSize, MinTTL,
    LabelEndings        \* pairs <<l, m>> of labels such that the text of l ends in that of m

\* chunkBy does not end with pieces of no change.
ASSUME RFC2136Assumption == RFC2136BatchChangeSize \in Nat \ {0}

listedTypes == {"CNAME", "A", "AAAA", "TXT", "NS", "PTR"}

\* What the zone transfers may give: an envelope with an error is logged and left out.
AXFR_Readings(S) ==
    LET listed == {r \in InManagedZones(S) : r.type \in listedTypes}
    IN  {(S \ listed) \cup R : R \in SUBSET listed}

\* One endpoint per name and type, also when two zones have records of the name.
RFC2136_Records(S) ==
    LET R == {r \in InManagedZones(S) : r.type \in listedTypes}
    IN  {LET same == {s \in R : s.name = r.name /\ s.type = r.type}
         IN  Ep(r.name, "", r.type, {s.target : s \in same}, (CHOOSE s \in same : TRUE).ttl, {}) :
            r \in R}

\* strings.HasSuffix on the texts of the name and the zone: no dot is needed between
\* the zone and what is before it.  No name ends in the dot of the root.
HasSuffix(n, z) ==
    LET d == Len(n) - Len(z.name)
        tail(s, i) == SubSeq(s, i, Len(s))
    IN  /\ z.name # <<>>
        /\ \/ InZone(n, z)
           \/ /\ d >= 0 /\ tail(n, d + 2) = Tail(z.name)
              /\ <<n[d + 1], z.name[1]>> \in LabelEndings

\* The zones are sorted, those with most labels first.  A name without one goes to the
\* root, which need not be one of the zones.
findMsgZone(e) ==
    LET fit == {z \in ManagedZones : HasSuffix(NameOf(e), z)}
        first == {z \in fit : \A y \in fit : Len(y.name) <= Len(z.name)}
    IN  IF fit = {} THEN {z \in ManagedZones : z.name = <<>>} ELSE {CHOOSE z \in first : TRUE}

AddRecord(z, e) ==
    NamedRecordsFor(z, e, IF e.ttl > MinTTL THEN e.ttl ELSE MinTTL)

\* A record is removed whatever its ttl; one that is inserted replaces one with its data.
RemoveRecord(S, z, e) ==
    {r \in S : r.zone = z.id /\ r.name = NameOf(e) /\ r.type = e.type /\ r.target \in TargetsOf(e)}

\* The list s in pieces of at most n.
chunkBy(s, n) ==
    [i \in 1 .. (Len(s) + n - 1) \div n |->
        SubSeq(s, (i - 1) * n + 1, IF i * n < Len(s) THEN i * n ELSE Len(s))]

\* One message per chunk and zone; gone(e) and fresh(e) are the endpoints whose records
\* are removed and inserted for e.  The name server refuses a message with a name
\* outside its zone as a whole, and one for a zone that it does not have.
RFC2136_ApplyChanges(S, ch) ==
    LET messages(chunk, gone(_), fresh(_)) ==
            LET in(z) == {chunk[i] : i \in {j \in DOMAIN chunk : z \in findMsgZone(chunk[j])}}
                msg(z) == Call({}, UNION {UNION {RemoveRecord(S, z, g) : g \in gone(e) \cup fresh(e)} : e \in in(z)},
                               UNION {UNION {AddRecord(z, f) : f \in fresh(e)} : e \in in(z)}, "note")
                sent(z) == IF \A e \in in(z) : InZone(NameOf(e), z) THEN msg(z) ELSE Refuse("note")
                lost == {i \in DOMAIN chunk : findMsgZone(chunk[i]) = {}}
            IN  Each(sent, {z \in ManagedZones : in(z) # {}})
                    \o (IF lost = {} THEN <<>> ELSE <<Refuse("note")>>)
        batches(E, gone(_), fresh(_)) ==
            LET cs == chunkBy(AsSeq(E), RFC2136BatchChangeSize)
            IN  ConcatOver(LAMBDA i : messages(cs[i], gone, fresh), DOMAIN cs)
        none(e) == {}
        self(e) == {e}
        old(e) == {OldOf(ch, e)}
    IN  IF DryRun THEN <<>>
        ELSE batches(ch.create, none, self) \o batches(ch.updateNew, old, self)
                \o batches(ch.delete, self, none)

=============================================================================
