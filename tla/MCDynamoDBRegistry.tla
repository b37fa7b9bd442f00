------------------------ MODULE MCDynamoDBRegistry ------------------------
(***************************************************************************)
(* Instances of DynamoDBRegistry for TLC.                                  *)
(***************************************************************************)
EXTENDS DynamoDBRegistry

www == <<"www", "">>
OneKey == {www}

Wanted(t, n, q) == [key |-> www, type |-> t, targets |-> n, ttl |-> 300, props |-> {},
                    owner |-> NoOwner, resource |-> q]

AddressesAndCNAME == {Wanted("A", 1, "r"), Wanted("A", 2, "s"), Wanted("CNAME", 3, "r")}
AddressOrCNAME == {Wanted("A", 1, "r"), Wanted("CNAME", 2, "s")}

Nothing == {}

=============================================================================
