--------------------------- MODULE PiholeProvider ---------------------------
(***************************************************************************)
(* provider/pihole/: pihole.go and the clients of the two versions of the  *)
(* API.  There are no zones, and a record has no ttl, except a CNAME of    *)
(* version 6.  A request with an expired session is made again with a new  *)
(* one and is one call here.  v6: version 6 of the API.                    *)
(*                                                                         *)
(* And provider/plural/plural.go: record sets without ttl, in no zone,     *)
(* with neither a domain filter nor a dry run.                             *)
(***************************************************************************)
EXTENDS ProviderAPI

piholeTypes == {"A", "AAAA", "CNAME"}
filtered(n) == \E z \in ManagedZones : InZone(n, z)

\* Version 6 lists names whatever the filter, and one endpoint with all the targets of
\* a name; version 5 lists one endpoint per record.
listRecords(v6, S, type) ==
    LET R == {r \in S : r.type = type}
    IN  IF v6 THEN EndpointPerName(R)
        ELSE {Ep(r.name, "", type, {r.target}, 0, {}) : r \in {x \in R : filtered(x.name)}}

Pihole_Records(v6, S) ==
    listRecords(v6, S, "A") \cup listRecords(v6, S, "AAAA") \cup listRecords(v6, S, "CNAME")

\* The records a request is about: version 5 sends the first target only.
Entries(v6, e) ==
    LET ttl == IF v6 /\ e.type = "CNAME" THEN e.ttl ELSE 0
        all == {RR("", NameOf(e), "", e.type, t, ttl, {}) : t \in TargetsOf(e)}
    IN  IF v6 THEN all ELSE {CHOOSE r \in all : r.target = Min(TargetsOf(e))}

\* One request per record.  A record that is there, or is not, is no error.
apply(v6, action, e) ==
    CASE ~filtered(NameOf(e)) \/ e.type \notin piholeTypes -> <<>>
      [] v6 /\ e.type = "CNAME" /\ Cardinality(TargetsOf(e)) > 1 -> <<Refuse("soft")>>
      [] DryRun -> <<>>
      [] action = "create" -> Each(LAMBDA r : Add({r}, "hard"), Entries(v6, e))
      [] action = "delete" -> Each(LAMBDA r : Del({r}, "hard"), Entries(v6, e))

\* An update is skipped if the targets (version 5: the first ones) are the same.
Unchanged(v6, old, new) ==
    IF v6 THEN TargetsOf(old) = TargetsOf(new) ELSE Min(TargetsOf(old)) = Min(TargetsOf(new))

Pihole_ApplyChanges(v6, ch) ==
    LET all(action, E) == ConcatOver(LAMBDA e : apply(v6, action, e), E)
        updateNew == {e \in ch.updateNew : ~Unchanged(v6, OldOf(ch, e), e)}
    IN  all("delete", ch.delete) \o all("delete", {OldOf(ch, e) : e \in updateNew})
            \o all("create", ch.create) \o all("create", updateNew)

-----------------------------------------------------------------------------
PluralRecords(S) == EndpointPerName(S)

makeChange(e) == {RR("", NameOf(e), "", e.type, t, 0, {}) : t \in TargetsOf(e)}

PluralApplyChanges(ch) ==
    Each(LAMBDA e : Put(makeChange(e), "hard"), ch.create)
        \o Each(LAMBDA e : Put(makeChange(e), "hard"), ch.updateNew)
        \o Each(LAMBDA e : Drop(makeChange(e), "hard"), ch.delete)

=============================================================================
