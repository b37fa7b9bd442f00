--------------------------- MODULE MCTXTRegistry ---------------------------
(***************************************************************************)
(* Instances of TXTRegistry for TLC.                                       *)
(***************************************************************************)
EXTENDS TXTRegistry

www == <<"www", "">>

OneKey == {www}

Wanted(k, t, n) == [key |-> k, type |-> t, targets |-> n, ttl |-> 300, props |-> {},
                    owner |-> NoOwner, resource |-> "r"]

\* One name: two resources want different addresses for it, one a CNAME.
OtherAddress == [Wanted(www, "A", 2) EXCEPT !.resource = "s"]
AddressesAndCNAME == {Wanted(www, "A", 1), OtherAddress, Wanted(www, "CNAME", 3)}
OneAddress == {Wanted(www, "A", 1)}

Nothing == {}

\* A record and its ownership record.
OneRecord == {Stored(Wanted(www, "A", 1))}
Ownership(t, o) == {[key |-> www, type |-> t, targets |-> [owner |-> o, resource |-> "r"]]}
OwnedByBlue == Ownership("A", "blue")
OwnedByOld == Ownership("A", "old")

\* An alias A record and the CNAME that may replace it.
Alias == [Wanted(www, "A", 1) EXCEPT !.props = {"alias"}]
AliasOrCNAME == {Alias, Wanted(www, "CNAME", 2)}

=============================================================================
