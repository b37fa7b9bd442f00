---------------------------- MODULE ZoneContract ----------------------------
(***************************************************************************)
(* What the users of a DNS service may rely on when external-dns works on  *)
(* it: before it writes it commits to the record sets it is going to write *)
(* to, it writes to no other, and the records of others stay.  A record is *)
(* a pair: the record sets that it may be part of, and the record.         *)
(***************************************************************************)
VARIABLES
    records,    \* what the service holds
    others,     \* the records of others
    goal,       \* the record sets of the changes in progress
    drifts      \* times that somebody else may still remove something

Init == records = others /\ goal = {}

Commit == UNCHANGED <<records, others, drifts>>

Write ==
    /\ \A r \in (records \ records') \cup (records' \ records) : r[1] \cap goal # {}
    /\ others \subseteq records'
    /\ UNCHANGED <<others, goal, drifts>>

Drift ==
    /\ drifts' # drifts
    /\ records' \subseteq records /\ others \subseteq records'
    /\ UNCHANGED <<others, goal>>

Next == Commit \/ Write \/ Drift

Spec == Init /\ [][Next]_<<records, others, goal, drifts>>

=============================================================================
