----------------------------- MODULE Ownership -----------------------------
(***************************************************************************)
(* What the registries promise to those who share a zone (docs/faq.md:     *)
(* ExternalDNS "will never modify any records over which it doesn't have   *)
(* control"): records are claimed, a claim is taken only where nobody else *)
(* has one and given up only by its owner, and an instance changes or      *)
(* removes only records that it has claimed.                               *)
(***************************************************************************)
EXTENDS TLAPS

CONSTANT Instances

VARIABLES
    records,    \* what the zone holds: for each record, what is claimed, and its data
    claims,     \* what is claimed, and by whom
    faults      \* how often somebody else has edited the zone, or a process failed

vars == <<records, claims, faults>>

Holds(i, r) == [id |-> r.id, owner |-> i] \in claims

\* No record has two owners.
OneOwner == \A c, d \in claims : c.id = d.id => c.owner = d.owner

Init == OneOwner

\* What one step of instance i may do.
Act(i) ==
    /\ \A r \in records \ records' : Holds(i, r)
    /\ \A r \in records' \ records : Holds(i, r) \/ \A q \in records : q.id # r.id
    /\ \A c \in claims \ claims' : c.owner = i
    /\ \A c \in claims' \ claims : c.owner = i /\ \A d \in claims : d.id = c.id => d.owner = i
    /\ UNCHANGED faults

\* Somebody else edits the zone, and may remove claims that are kept there.
Edit == faults' # faults /\ claims' \subseteq claims

Next == Edit \/ \E i \in Instances : Act(i)

Spec == Init /\ [][Next]_vars

-----------------------------------------------------------------------------

\* The promise is enough for records to have one owner: no interleaving of instances
\* that keep it leads to a record that two of them claim.
THEOREM ClaimsUnique == Spec => []OneOwner
<1>1. OneOwner /\ [Next]_vars => OneOwner'
  <2> SUFFICES ASSUME OneOwner, [Next]_vars,
                      NEW c \in claims', NEW d \in claims', c.id = d.id
               PROVE  c.owner = d.owner
    BY DEF OneOwner
  <2>1. CASE UNCHANGED vars \/ Edit
    BY <2>1 DEF OneOwner, vars, Edit
  <2>2. ASSUME NEW i \in Instances, Act(i)
        PROVE  c.owner = d.owner
    BY <2>2 DEF OneOwner, Act
  <2> QED
    BY <2>1, <2>2 DEF Next
<1> QED
  BY <1>1, PTL DEF Spec, Init

=============================================================================
