--------------------------- MODULE ProviderProofs ---------------------------
(***************************************************************************)
(* The run loop over the providers, proved: its types for all providers,   *)
(* for most of them that every record is made in the right zone and that   *)
(* ApplyChanges keeps the contract of ZoneContract, and for PowerDNS that  *)
(* a record never is without its ownership record.  ScriptProofs           *)
(* says what a script does that is made for a plan; here is what plans and *)
(* records are like, and the invariant of the loop.                        *)
(***************************************************************************)
EXTENDS ScriptProofs

-----------------------------------------------------------------------------
(***************************************************************************)
(* The plan.                                                               *)
(***************************************************************************)

\* An endpoint, with a name.
IsEp(e) ==
    /\ "key" \in DOMAIN e /\ "type" \in DOMAIN e /\ "targets" \in DOMAIN e /\ "owner" \in DOMAIN e
    /\ 1 \in DOMAIN e.key
    /\ NameOf(e) \in DNSName

IsEps(E) == IsFiniteSet(E) /\ \A e \in E : IsEp(e)
IsWish(e) == IsEp(e) /\ e.targets \in Nat

LEMMA ResolveIn ==
    ASSUME NEW S, S # {}, \A e \in S : e.targets \in Nat
    PROVE  ResolveCreate(S) \in S
<1> DEFINE T == {e.targets : e \in S}
<1>1. T \subseteq Nat /\ T # {}
  OBVIOUS
<1>2. PICK m \in T : \A n \in T : ~(n < m)
  <2> HIDE DEF T
  <2> QED
    BY <1>1, Least
<1>3. \E e \in S : \A f \in S : ~less(f, e)
  BY <1>2 DEF less
<1> QED
  BY <1>3 DEF ResolveCreate

LEMMA ResolveUpdateIsIn ==
    ASSUME NEW c, NEW S, S # {}, \A e \in S : e.targets \in Nat
    PROVE  ResolveUpdate(c, S) \in S
<1> DEFINE same == {e \in S : e.resource = c.resource}
<1>1. CASE same # {}
  <2>1. ResolveCreate(same) \in same
    BY <1>1, ResolveIn
  <2> QED
    BY <1>1, <2>1 DEF ResolveUpdate
<1>2. CASE same = {}
  BY <1>2, ResolveIn DEF ResolveUpdate
<1> QED
  BY <1>1, <1>2

\* Creates are wishes, deletes and old versions are records, and a new version is a wish
\* with the owner of the record.  A name with a record of another owner gets no create.
FromPlan(owner, current, desired, ch) ==
    /\ ch.create \subseteq desired
    /\ \A e \in ch.create, c \in current : c.key = e.key => owner = NoOwner \/ c.owner = owner
    /\ ch.updateOld \subseteq current /\ ch.delete \subseteq current
    /\ \A n \in ch.updateNew : \E c \in current, d \in desired : n = inheritOwner(c, d) /\ c.key = d.key

LEMMA RowFrom ==
    ASSUME NEW owner, NEW old, NEW current, NEW desired, \A e \in desired : e.targets \in Nat,
           \A c \in current, d \in desired : c.key = d.key
    PROVE  FromPlan(owner, current, desired, calculatePlanTableRowChanges(owner, old, current, desired))
<1> DEFINE S == ResolveRecordTypes(desired)
           ch == calculatePlanTableRowChanges(owner, old, current, desired)
<1>1. S \subseteq desired
  BY DEF ResolveRecordTypes
<1>2. ch.create \subseteq desired
  <2>1. RowCreates(current, S) \subseteq desired
    <3> SUFFICES ASSUME NEW t \in TypesOf(S) PROVE ResolveCreate(OfType(S, t)) \in desired
      BY DEF RowCreates
    <3>1. OfType(S, t) # {} /\ OfType(S, t) \subseteq S
      BY DEF OfType, TypesOf
    <3> HIDE DEF S
    <3>2. ResolveCreate(OfType(S, t)) \in OfType(S, t)
      BY <1>1, <3>1, ResolveIn
    <3> QED
      BY <1>1, <3>1, <3>2
  <2>2. ch.create \subseteq RowCreates(current, S)
    BY DEF calculatePlanTableRowChanges, AllowedCreates
  <2> QED
    BY <2>1, <2>2
<1>3. ch.delete \subseteq current
  BY DEF calculatePlanTableRowChanges, RowDeletes
<1>4. ASSUME NEW u \in RowUpdates(old, current, S)
      PROVE  u[1] \in current /\ \E d \in desired : u[2] = inheritOwner(u[1], d)
  <2>1. PICK c \in current :
            /\ OfType(S, c.type) # {}
            /\ u = <<c, inheritOwner(c, ResolveUpdate(c, OfType(S, c.type)))>>
    BY DEF RowUpdates
  <2>2. OfType(S, c.type) \subseteq desired
    BY <1>1 DEF OfType
  <2> HIDE DEF S
  <2>3. ResolveUpdate(c, OfType(S, c.type)) \in OfType(S, c.type)
    BY <2>1, <2>2, ResolveUpdateIsIn
  <2> QED
    BY <2>1, <2>2, <2>3
<1>5. /\ ch.updateOld = {u[1] : u \in RowUpdates(old, current, S)}
      /\ ch.updateNew = {u[2] : u \in RowUpdates(old, current, S)}
  BY DEF calculatePlanTableRowChanges
<1>6. ch.create # {} => owner = NoOwner \/ \A c \in current : c.owner = owner
  BY DEF calculatePlanTableRowChanges, AllowedCreates
<1> HIDE DEF ch, S
<1>7. FromPlan(owner, current, desired, ch)
  BY <1>2, <1>3, <1>4, <1>5, <1>6 DEF FromPlan
<1> QED
  BY <1>7 DEF ch

LEMMA PlanFrom ==
    ASSUME NEW owner, NEW old, NEW current, NEW desired, \A e \in desired : e.targets \in Nat
    PROVE  LET ch == Calculate(owner, old, current, desired)
           IN  /\ FromPlan(owner, filterRecordsForPlan(current), filterRecordsForPlan(desired), ch)
               /\ owner # NoOwner =>
                      \A e \in ch.updateOld \cup ch.updateNew \cup ch.delete : e.owner = owner
<1> DEFINE cur == filterRecordsForPlan(current)
           des == filterRecordsForPlan(desired)
           row(k) == calculatePlanTableRowChanges(owner, old, {e \in cur : e.key = k}, {e \in des : e.key = k})
           rows == {row(k) : k \in {e.key : e \in cur \cup des}}
           whole == [create |-> UNION {r.create : r \in rows},
                     updateOld |-> UNION {r.updateOld : r \in rows},
                     updateNew |-> UNION {r.updateNew : r \in rows},
                     delete |-> UNION {r.delete : r \in rows}]
<1>1. des \subseteq desired
  BY DEF filterRecordsForPlan
<1>2. ASSUME NEW r \in rows PROVE FromPlan(owner, cur, des, r)
  <2>1. PICK k : r = row(k)
    OBVIOUS
  <2> HIDE DEF cur, des
  <2> DEFINE held == {e \in cur : e.key = k}
             wanted == {e \in des : e.key = k}
  <2>2. /\ \A e \in wanted : e.targets \in Nat
        /\ \A c \in held, d \in wanted : c.key = d.key
        /\ held \subseteq cur /\ wanted \subseteq des
        /\ \A e \in wanted : e.key = k /\ \A c \in cur : c.key = k => c \in held
    BY <1>1
  <2>3. FromPlan(owner, held, wanted, row(k))
    <3> HIDE DEF held, wanted
    <3>1. row(k) = calculatePlanTableRowChanges(owner, old, held, wanted)
      BY DEF held, wanted
    <3> HIDE DEF row
    <3> QED
      BY <2>2, <3>1, RowFrom
  <2> HIDE DEF row, held, wanted
  <2> QED
    BY <2>1, <2>2, <2>3 DEF FromPlan
<1> HIDE DEF row, rows, cur, des
<1>3. FromPlan(owner, cur, des, whole)
  BY <1>2 DEF FromPlan
<1>4. Calculate(owner, old, current, desired) = OwnedChanges(owner, ApplyPolicy(whole))
  BY DEF Calculate, rows, row, cur, des
<1> HIDE DEF whole
<1>5. FromPlan(owner, cur, des, ApplyPolicy(whole))
  <2>1. ApplyPolicy(whole) \in {whole, [whole EXCEPT !.delete = {}], [NoChanges EXCEPT !.create = whole.create]}
    BY PlanAssumption DEF ApplyPolicy
  <2>2. FromPlan(owner, cur, des, [whole EXCEPT !.delete = {}])
    BY <1>3 DEF FromPlan, whole
  <2>3. FromPlan(owner, cur, des, [NoChanges EXCEPT !.create = whole.create])
    BY <1>3 DEF FromPlan, NoChanges
  <2> QED
    BY <1>3, <2>1, <2>2, <2>3
<1>6. FromPlan(owner, cur, des, OwnedChanges(owner, ApplyPolicy(whole)))
  BY <1>5 DEF FromPlan, OwnedChanges, FilterEndpointsByOwnerID
<1>7. owner # NoOwner =>
          \A e \in OwnedChanges(owner, ApplyPolicy(whole)).updateOld
                   \cup OwnedChanges(owner, ApplyPolicy(whole)).updateNew
                   \cup OwnedChanges(owner, ApplyPolicy(whole)).delete : e.owner = owner
  BY DEF OwnedChanges, FilterEndpointsByOwnerID
<1> QED
  BY <1>4, <1>6, <1>7 DEF cur, des

\* The kinds that the proofs below are about.
Covered == Exact \cup {"rfc2136"}

LEMMA SourceWish ==
    ASSUME NEW e, IsEndpoint(e)
    PROVE  IsWish(e)
<1>1. /\ "key" \in DOMAIN e /\ "type" \in DOMAIN e /\ "targets" \in DOMAIN e /\ "owner" \in DOMAIN e
      /\ e.key \in Seq(STRING) \X STRING /\ e.targets \in Nat
  BY DEF IsEndpoint
<1>2. 1 \in DOMAIN e.key /\ e.key[1] \in Seq(STRING)
  BY <1>1
<1>3. e.key[1] \in DNSName
  BY <1>2, SeqMonotonic DEF DNSName, Label
<1> QED
  BY <1>1, <1>2, <1>3 DEF IsWish, IsEp, NameOf

\* AdjustEndpoints leaves the names, and the targets of those it keeps.
LEMMA AdjustedWishes ==
    ASSUME NEW k \in Kinds, k \in Covered, NEW W \in Desirable[k]
    PROVE  IsFiniteSet(Adjusted(k, W)) /\ \A e \in Adjusted(k, W) : IsWish(e)
<1>1. IsFiniteSet(W) /\ \A e \in W : IsWish(e)
  BY LoopAssumption, SourceWish
<1>2. CASE k = "oci"
  <2> DEFINE f == [e \in W |-> [e EXCEPT !.key[2] = ""]]
  <2>1. Adjusted(k, W) = {f[e] : e \in DOMAIN f} /\ DOMAIN f = W
    BY <1>2 DEF Adjusted, OCI_AdjustEndpoints
  <2>2. \A e \in W : IsWish(f[e])
    <3> SUFFICES ASSUME NEW e \in W PROVE IsWish([e EXCEPT !.key[2] = ""])
      OBVIOUS
    <3>1. IsEp(e) /\ e.targets \in Nat
      BY <1>1 DEF IsWish
    <3>2. IsEp([e EXCEPT !.key[2] = ""]) /\ [e EXCEPT !.key[2] = ""].targets = e.targets
      BY <3>1 DEF IsEp, NameOf
    <3> QED
      BY <3>1, <3>2 DEF IsWish
  <2>3. IsFiniteSet({f[e] : e \in DOMAIN f})
    <3> HIDE DEF f
    <3> QED
      BY <1>1, <2>1, FiniteImage
  <2> HIDE DEF f
  <2> QED
    BY <2>1, <2>2, <2>3
<1>3. CASE k = "scaleway"
  <2> DEFINE t(e) == IF e.ttl = 0 THEN Scaleway_defaultTTL ELSE e.ttl
             q(e) == IF HasPriority(e.props) THEN e.props ELSE e.props \cup {scalewayDefaultPriority}
             f == [e \in W |-> [e EXCEPT !.ttl = t(e), !.props = q(e)]]
  <2>1. Adjusted(k, W) = {f[e] : e \in DOMAIN f} /\ DOMAIN f = W
    BY <1>3 DEF Adjusted, Scaleway_AdjustEndpoints
  <2>2. \A e \in W : IsWish(f[e])
    <3> SUFFICES ASSUME NEW e \in W PROVE IsWish(f[e])
      OBVIOUS
    <3>1. IsEp(e) /\ e.targets \in Nat
      BY <1>1 DEF IsWish
    <3> HIDE DEF t, q
    <3>2. IsEp([e EXCEPT !.ttl = t(e), !.props = q(e)])
           /\ [e EXCEPT !.ttl = t(e), !.props = q(e)].targets = e.targets
      BY <3>1 DEF IsEp, NameOf
    <3> QED
      BY <3>1, <3>2 DEF IsWish
  <2>3. IsFiniteSet({f[e] : e \in DOMAIN f})
    <3> HIDE DEF f
    <3> QED
      BY <1>1, <2>1, FiniteImage
  <2> HIDE DEF f
  <2> QED
    BY <2>1, <2>2, <2>3
<1>4. CASE k \notin {"oci", "scaleway"}
  <2>1. Adjusted(k, W) \subseteq W
    BY <1>4 DEF Adjusted, PDNS_AdjustEndpoints, Covered, Exact
  <2> QED
    BY <1>1, <2>1, FiniteSubset
<1> QED
  BY <1>2, <1>3, <1>4

\* An endpoint with another owner.
LEMMA WithOwner ==
    ASSUME NEW e, IsEp(e), NEW o
    PROVE  LET f == [e EXCEPT !.owner = o] IN IsEp(f) /\ NameOf(f) = NameOf(e) /\ f.type = e.type
  BY DEF IsEp, NameOf

LEMMA RegistryEps ==
    ASSUME NEW k, NEW R, IsEps(R)
    PROVE  IsEps(RegistryRecords(k, R))
<1> DEFINE mine(e) == OwnershipTXT(e).key \in {o.key : o \in OfType(R, "TXT")}
           f == [e \in R |-> IF e.type \in ManagedTypes /\ mine(e) THEN [e EXCEPT !.owner = Me] ELSE e]
<1>1. RegistryRecords(k, R) \in {R, {f[e] : e \in DOMAIN f}} /\ DOMAIN f = R
  BY DEF RegistryRecords
<1>2. \A e \in R : IsEp(f[e])
  <2> HIDE DEF mine
  <2> QED
    BY WithOwner DEF IsEps
<1>3. IsFiniteSet({f[e] : e \in DOMAIN f})
  <2>1. IsFiniteSet(DOMAIN f)
    BY DEF IsEps
  <2> HIDE DEF f
  <2> QED
    BY <2>1, FiniteImage
<1> HIDE DEF f
<1> QED
  BY <1>1, <1>2, <1>3 DEF IsEps

\* What the loop asks for.
FineChanges(T, ch) == FiniteChanges(ch) /\ \A e \in All(ch) : IsEp(e) /\ e.type \in T

LEMMA PlanFine ==
    ASSUME NEW k \in Kinds, k \in Covered, NEW W \in Desirable[k], NEW R, IsEps(R)
    PROVE  FineChanges(ManagedTypes, Planned(k, R, W))
<1> DEFINE keep(F) == {e \in F : Managed(k, NameOf(e))}
           desired == keep(Adjusted(k, W))
           current == InTable(keep(RegistryRecords(k, R)), desired)
           des == filterRecordsForPlan(desired)
           cur == filterRecordsForPlan(current)
           ch == Planned(k, R, W)
<1>1. IsFiniteSet(desired) /\ \A e \in desired : IsWish(e)
  <2>1. desired \subseteq Adjusted(k, W)
    OBVIOUS
  <2> HIDE DEF desired
  <2> QED
    BY <2>1, AdjustedWishes, FiniteSubset
<1>2. IsEps(current)
  <2>1. current \subseteq RegistryRecords(k, R)
    BY DEF InTable
  <2> HIDE DEF current
  <2> QED
    BY <2>1, RegistryEps, FiniteSubset DEF IsEps
<1>3. ch = Calculate(OwnerOf(k), NoOwner, current, desired)
  BY DEF Planned
<1> HIDE DEF current, desired, ch
<1>4. /\ des \subseteq desired /\ cur \subseteq current
      /\ \A e \in des \cup cur : e.type \in ManagedTypes
  BY DEF filterRecordsForPlan, IsManagedRecord
<1>5. FromPlan(OwnerOf(k), cur, des, ch)
  BY <1>1, <1>3, PlanFrom DEF IsWish
<1> HIDE DEF des, cur
<1>6. IsFiniteSet(des) /\ IsFiniteSet(cur) /\ \A e \in des \cup cur : IsEp(e)
  BY <1>1, <1>2, <1>4, FiniteSubset DEF IsEps, IsWish
<1>7. /\ IsFiniteSet(ch.create) /\ IsFiniteSet(ch.updateOld) /\ IsFiniteSet(ch.delete)
      /\ \A e \in ch.create \cup ch.updateOld \cup ch.delete : IsEp(e) /\ e.type \in ManagedTypes
  BY <1>4, <1>5, <1>6, FiniteSubset DEF FromPlan
<1>8. \A e \in ch.updateNew : IsEp(e) /\ e.type \in ManagedTypes
  <2> SUFFICES ASSUME NEW e \in ch.updateNew PROVE IsEp(e) /\ e.type \in ManagedTypes
    OBVIOUS
  <2>1. PICK c \in cur, d \in des : e = inheritOwner(c, d)
    BY <1>5 DEF FromPlan
  <2> QED
    BY <1>4, <1>6, <2>1, WithOwner DEF inheritOwner
<1>9. IsFiniteSet(ch.updateNew)
  <2> DEFINE f == [x \in cur \X des |-> inheritOwner(x[1], x[2])]
             V == {f[x] : x \in DOMAIN f}
  <2>1. IsFiniteSet(cur \X des)
    BY <1>6, FS_Product
  <2>2. IsFiniteSet(V)
    <3>1. DOMAIN f = cur \X des
      OBVIOUS
    <3> HIDE DEF f
    <3> QED
      BY <2>1, <3>1, FiniteImage
  <2>3. ch.updateNew \subseteq V
    <3> SUFFICES ASSUME NEW e \in ch.updateNew PROVE e \in V
      OBVIOUS
    <3>1. PICK c \in cur, d \in des : e = inheritOwner(c, d)
      BY <1>5 DEF FromPlan
    <3>2. <<c, d>> \in cur \X des /\ f[<<c, d>>] = e
      BY <3>1
    <3> QED
      BY <3>2
  <2> QED
    BY <2>2, <2>3, FiniteSubset
<1>10. FineChanges(ManagedTypes, ch)
  BY <1>7, <1>8, <1>9 DEF FineChanges, FiniteChanges, All
<1> QED
  BY <1>10 DEF ch

\* The types that ownership records are named for.
OwnTypes == ManagedTypes \cup {"CNAME"}

\* The name mapper: a type before a label gives a label, and another one for another
\* type or label.
Naming ==
    \A t, u \in OwnTypes : \A l, m \in STRING :
        /\ TypedLabel(t, l) \in STRING
        /\ TypedLabel(t, l) = TypedLabel(u, m) => t = u /\ l = m

LEMMA TXTName ==
    ASSUME Naming, NEW n \in DNSName, NEW t \in OwnTypes
    PROVE  /\ ToTXTName(n, t) \in DNSName /\ Len(ToTXTName(n, t)) = Len(n)
           /\ \A i \in 1 .. Len(n) : i # 1 => ToTXTName(n, t)[i] = n[i]
           /\ n # <<>> => ToTXTName(n, t)[1] = TypedLabel(t, n[1]) /\ n[1] \in STRING
<1> DEFINE b == Len(n)
           l == TypedLabel(t, n[1])
           f == [i \in 1 .. b |-> IF i = 1 THEN l ELSE n[i]]
<1>1. b \in Nat /\ DOMAIN n = 1 .. b /\ (\A i \in 1 .. b : n[i] \in STRING) /\ (n # <<>> => b >= 1)
  BY ElementOfSeq, EmptySeq DEF DNSName, Label
<1>2. ToTXTName(n, t) = f
  BY <1>1 DEF ToTXTName
<1>3. b >= 1 => l \in STRING
  <2>1. b >= 1 => n[1] \in STRING
    BY <1>1
  <2> QED
    BY <2>1 DEF Naming
<1> HIDE DEF b, l
<1>4. f \in Seq(STRING) /\ Len(f) = b
  BY <1>1, <1>3
<1>5. (\A i \in 1 .. b : i # 1 => f[i] = n[i]) /\ (b >= 1 => f[1] = l /\ n[1] \in STRING)
  BY <1>1
<1> HIDE DEF f
<1> QED
  BY <1>1, <1>2, <1>4, <1>5 DEF DNSName, Label, b, l

LEMMA SameName ==
    ASSUME Naming, NEW n \in DNSName, NEW m \in DNSName, NEW t \in OwnTypes, NEW u \in OwnTypes,
           ToTXTName(n, t) = ToTXTName(m, u)
    PROVE  n = m /\ (n # <<>> => t = u)
<1> DEFINE f == ToTXTName(n, t)
           g == ToTXTName(m, u)
<1>1. /\ Len(f) = Len(n) /\ (\A i \in 1 .. Len(n) : i # 1 => f[i] = n[i])
      /\ n # <<>> => f[1] = TypedLabel(t, n[1]) /\ n[1] \in STRING
  BY TXTName
<1>2. /\ Len(g) = Len(m) /\ (\A i \in 1 .. Len(m) : i # 1 => g[i] = m[i])
      /\ m # <<>> => g[1] = TypedLabel(u, m[1]) /\ m[1] \in STRING
  BY TXTName
<1>3. f = g
  OBVIOUS
<1> HIDE DEF f, g
<1>4. /\ Len(n) = Len(m) /\ (\A i \in 1 .. Len(n) : i # 1 => n[i] = m[i])
  BY <1>1, <1>2, <1>3
<1>5. n = <<>> <=> m = <<>>
  BY <1>4, EmptySeq DEF DNSName
<1>6. CASE n = <<>>
  BY <1>5, <1>6
<1>7. CASE n # <<>>
  <2>1. t = u /\ n[1] = m[1]
    <3> DEFINE x == n[1]
               y == m[1]
    <3>1. TypedLabel(t, x) = TypedLabel(u, y) /\ x \in STRING /\ y \in STRING
      BY <1>1, <1>2, <1>3, <1>5, <1>7
    <3> HIDE DEF x, y
    <3>2. \A a, b \in STRING : TypedLabel(t, a) = TypedLabel(u, b) => t = u /\ a = b
      BY DEF Naming
    <3>3. t = u /\ x = y
      BY <3>1, <3>2
    <3> QED
      BY <3>3 DEF x, y
  <2>2. \A i \in 1 .. Len(n) : n[i] = m[i]
    BY <1>4, <2>1
  <2> QED
    BY <1>4, <2>1, <2>2, SeqEqual DEF DNSName
<1> QED
  BY <1>6, <1>7

LEMMA Ownership ==
    ASSUME Naming, NEW e, IsEp(e), e.type \in ManagedTypes
    PROVE  /\ IsEp(OwnershipTXT(e)) /\ OwnershipTXT(e).type = "TXT"
           /\ \E t \in OwnTypes : NameOf(OwnershipTXT(e)) = ToTXTName(NameOf(e), t)
<1> DEFINE t == IF e.type = "A" /\ <<"alias", "true">> \in e.props THEN "CNAME" ELSE e.type
           w == RankOf({0})
           m == ToTXTName(NameOf(e), t)
           f == [e EXCEPT !.key[1] = m, !.type = "TXT", !.targets = w,
                          !.ttl = 0, !.owned = <<NameOf(e), e.type>>]
<1>1. OwnershipTXT(e) = f
  BY DEF OwnershipTXT, NameOf
<1>2. t \in OwnTypes
  BY DEF OwnTypes
<1>3. m \in DNSName
  BY <1>2, TXTName DEF IsEp
<1> HIDE DEF m, w, t
<1>4. NameOf(f) = m /\ f.type = "TXT"
  BY DEF IsEp, NameOf
<1>5. /\ "key" \in DOMAIN f /\ "type" \in DOMAIN f /\ "targets" \in DOMAIN f /\ "owner" \in DOMAIN f
      /\ 1 \in DOMAIN f.key
  BY DEF IsEp
<1> HIDE DEF f
<1>6. IsEp(f)
  BY <1>3, <1>4, <1>5 DEF IsEp
<1> QED
  BY <1>1, <1>2, <1>4, <1>6 DEF m

LEMMA WithOwnership ==
    ASSUME Naming, NEW E, IsFiniteSet(E), \A e \in E : IsEp(e) /\ e.type \in ManagedTypes
    PROVE  IsFiniteSet(WithTXT(E)) /\ \A e \in WithTXT(E) : IsEp(e) /\ e.type \in ManagedTypes \cup {"TXT"}
<1> DEFINE f == [e \in E |-> OwnershipTXT(e)]
           O == {f[e] : e \in DOMAIN f}
<1>1. WithTXT(E) = E \cup O
  BY DEF WithTXT
<1>2. \A e \in O : IsEp(e) /\ e.type = "TXT"
  BY Ownership
<1>3. IsFiniteSet(O)
  <2>1. DOMAIN f = E
    OBVIOUS
  <2> HIDE DEF f
  <2> QED
    BY <2>1, FiniteImage
<1> HIDE DEF O
<1> QED
  BY <1>1, <1>2, <1>3, FS_Union

LEMMA RegistryFine ==
    ASSUME Naming, NEW k, NEW R, NEW ch, FineChanges(ManagedTypes, ch)
    PROVE  FineChanges(ManagedTypes \cup {"TXT"}, RegistryChanges(k, R, ch))
<1> DEFINE there == {e.key : e \in OfType(R, "TXT")}
           C == {e \in WithTXT(ch.create) : e.type = "TXT" => e.key \notin there}
           all == [create |-> C, updateOld |-> WithTXT(ch.updateOld),
                   updateNew |-> WithTXT(ch.updateNew), delete |-> WithTXT(ch.delete)]
<1>1. CASE k \notin TXTKinds
  BY <1>1 DEF RegistryChanges, FineChanges
<1>2. CASE k \in TXTKinds
  <2>1. RegistryChanges(k, R, ch) = all
    BY <1>2 DEF RegistryChanges
  <2>2. ASSUME NEW E \in {ch.create, ch.updateOld, ch.updateNew, ch.delete}
        PROVE  IsFiniteSet(WithTXT(E))
               /\ \A e \in WithTXT(E) : IsEp(e) /\ e.type \in ManagedTypes \cup {"TXT"}
    <3>1. IsFiniteSet(E) /\ \A e \in E : IsEp(e) /\ e.type \in ManagedTypes
      BY DEF FineChanges, FiniteChanges, All
    <3> QED
      BY <3>1, WithOwnership
  <2>3. C \subseteq WithTXT(ch.create)
    OBVIOUS
  <2> HIDE DEF C
  <2>4. IsFiniteSet(C) /\ \A e \in C : IsEp(e) /\ e.type \in ManagedTypes \cup {"TXT"}
    BY <2>2, <2>3, FiniteSubset
  <2>5. FineChanges(ManagedTypes \cup {"TXT"}, all)
    BY <2>2, <2>4 DEF FineChanges, FiniteChanges, All
  <2> QED
    BY <2>1, <2>5
<1> QED
  BY <1>1, <1>2

-----------------------------------------------------------------------------
(***************************************************************************)
(* The records.                                                            *)
(***************************************************************************)

Sound(S) == IsFiniteSet(S) /\ \A r \in S : r.name \in DNSName /\ \E z \in Zones : r.zone = z.id

LEMMA MadeEp ==
    ASSUME NEW n \in DNSName, NEW set, NEW type, NEW targets, NEW ttl, NEW props
    PROVE  IsEp(Ep(n, set, type, targets, ttl, props))
<1> DEFINE rank == RankOf(targets)
           e == [key |-> <<n, set>>, type |-> type, targets |-> rank, ttl |-> ttl,
                 props |-> props, owner |-> NoOwner, resource |-> NoResource, owned |-> NoName]
<1>1. Ep(n, set, type, targets, ttl, props) = e
  BY DEF Ep
<1> HIDE DEF rank
<1>2. IsEp(e)
  BY DEF IsEp, NameOf
<1> QED
  BY <1>1, <1>2

LEMMA FullNames ==
    ASSUME NEW r, r.name \in DNSName, \E z \in Zones : r.zone = z.id
    PROVE  FullNameOf(r) \in DNSName
<1>1. PICK z \in Zones : r.zone = z.id
  OBVIOUS
<1>2. FullNameOf(r) = r.name \o z.name /\ z.name \in DNSName
  BY <1>1, ZoneNames DEF FullNameOf, Full
<1> QED
  BY <1>2, ConcatProperties DEF DNSName

\* A list of one endpoint for each record.
LEMMA EpImage ==
    ASSUME NEW f, IsFiniteSet(DOMAIN f), \A r \in DOMAIN f : IsEp(f[r])
    PROVE  IsEps({f[r] : r \in DOMAIN f})
<1> DEFINE E == {f[r] : r \in DOMAIN f}
<1>1. \A e \in E : IsEp(e)
  OBVIOUS
<1>2. IsFiniteSet(E)
  BY FiniteImage
<1> HIDE DEF E
<1>3. IsEps(E)
  BY <1>1, <1>2 DEF IsEps
<1> QED
  BY <1>3 DEF E

LEMMA Listings ==
    ASSUME NEW S, Sound(S)
    PROVE  IsEps(EndpointPerRecord(S)) /\ IsEps(EndpointPerSet(S)) /\ IsEps(EndpointPerName(S))
<1>0. \A r \in S : r.name \in DNSName /\ FullNameOf(r) \in DNSName
  BY FullNames DEF Sound
<1>1. IsEps(EndpointPerRecord(S))
  <2> DEFINE f == [r \in S |-> Ep(FullNameOf(r), "", r.type, {r.target}, r.ttl, {})]
  <2>1. EndpointPerRecord(S) = {f[r] : r \in DOMAIN f}
    BY DEF EndpointPerRecord
  <2>2. \A r \in DOMAIN f : IsEp(f[r])
    BY <1>0, MadeEp
  <2>3. IsFiniteSet(DOMAIN f)
    BY DEF Sound
  <2> HIDE DEF f
  <2> QED
    BY <2>1, <2>2, <2>3, EpImage
<1>2. IsEps(EndpointPerSet(S))
  <2> DEFINE same(r) == {s \in S : SameSet(r, s)}
             T(r) == {s.target : s \in same(r)}
             ttl(r) == (CHOOSE s \in same(r) : TRUE).ttl
             f == [r \in S |-> Ep(FullNameOf(r), "", r.type, T(r), ttl(r), {})]
  <2>1. EndpointPerSet(S) = {f[r] : r \in DOMAIN f}
    BY DEF EndpointPerSet
  <2>2. \A r \in DOMAIN f : IsEp(f[r])
    <3> HIDE DEF T, ttl
    <3> QED
      BY <1>0, MadeEp
  <2>3. IsFiniteSet(DOMAIN f)
    BY DEF Sound
  <2> HIDE DEF f
  <2> QED
    BY <2>1, <2>2, <2>3, EpImage
<1>3. IsEps(EndpointPerName(S))
  <2> DEFINE T(r) == {s.target : s \in {x \in S : SameSet(x, r)}}
             f == [r \in S |-> Ep(r.name, "", r.type, T(r), r.ttl, {})]
  <2>1. EndpointPerName(S) = {f[r] : r \in DOMAIN f}
    BY DEF EndpointPerName
  <2>2. \A r \in DOMAIN f : IsEp(f[r])
    <3> HIDE DEF T
    <3> QED
      BY <1>0, MadeEp
  <2>3. IsFiniteSet(DOMAIN f)
    BY DEF Sound
  <2> HIDE DEF f
  <2> QED
    BY <2>1, <2>2, <2>3, EpImage
<1> QED
  BY <1>1, <1>2, <1>3

LEMMA FewerSound ==
    ASSUME NEW S, Sound(S), NEW T, T \subseteq S
    PROVE  Sound(T)
  BY FiniteSubset DEF Sound

LEMMA Merged ==
    ASSUME NEW S, Sound(S)
    PROVE  IsEps(mergeEndpointsByNameType(S))
<1> DEFINE f == [e \in EndpointPerSet(S) |-> [e EXCEPT !.ttl = 0]]
<1>1. mergeEndpointsByNameType(S) \in {EndpointPerRecord(S), {f[e] : e \in DOMAIN f}}
  BY DEF mergeEndpointsByNameType
<1>2. DOMAIN f = EndpointPerSet(S)
  OBVIOUS
<1>3. \A e \in DOMAIN f : IsEp(f[e])
  BY Listings DEF IsEps, IsEp, NameOf
<1> HIDE DEF f
<1>4. IsFiniteSet(DOMAIN f)
  BY <1>2, Listings DEF IsEps
<1>5. IsEps({f[e] : e \in DOMAIN f})
  BY <1>3, <1>4, EpImage
<1> QED
  BY <1>1, <1>5, Listings

\* Every provider that is covered lists endpoints.
LEMMA RecordsEps ==
    ASSUME NEW k, k \in Covered, NEW S, Sound(S)
    PROVE  IsEps(RecordsOf(k, S))
<1> DEFINE M == InManagedZones(S)
           A == {r \in M : SupportedRecordType(r.type)}
           B == {r \in M : Azure_supportedType(r.type) /\ r.type \in AzureTypes}
           C == {r \in M : r.type \in PrivateTypes}
           D == {r \in M : DigitalOcean_supportedType(r.type)}
           L == {r \in M : r.type \in listedTypes}
<1>1. Sound(M) /\ Sound(A) /\ Sound(B) /\ Sound(C) /\ Sound(D) /\ Sound(L)
  <2>1. M \subseteq S /\ A \subseteq S /\ B \subseteq S /\ C \subseteq S /\ D \subseteq S /\ L \subseteq S
    BY DEF InManagedZones
  <2> HIDE DEF M, A, B, C, D, L
  <2> QED
    BY <2>1, FewerSound
<1>2. IsEps(NS1_Records(S)) /\ IsEps(Akamai_Records(S)) /\ IsEps(OCI_Records(S))
  <2>1. NS1_Records(S) = EndpointPerName(A) /\ Akamai_Records(S) = EndpointPerName(A)
         /\ OCI_Records(S) = EndpointPerName(A)
    BY DEF NS1_Records, Akamai_Records, OCI_Records
  <2> HIDE DEF A
  <2> QED
    BY <1>1, <2>1, Listings
<1>3. IsEps(Azure_Records(S)) /\ IsEps(Azure_PrivateRecords(S))
  <2>1. Azure_Records(S) = EndpointPerSet(B) /\ Azure_PrivateRecords(S) = EndpointPerSet(C)
    BY DEF Azure_Records, Azure_PrivateRecords
  <2> HIDE DEF B, C
  <2> QED
    BY <1>1, <2>1, Listings
<1>4. IsEps(DigitalOcean_Records(S)) /\ IsEps(Linode_Records(S)) /\ IsEps(CivoRecords(S))
  <2>1. DigitalOcean_Records(S) = mergeEndpointsByNameType(D) /\ Linode_Records(S) = EndpointPerRecord(A)
         /\ CivoRecords(S) = EndpointPerRecord(A)
    BY DEF DigitalOcean_Records, Linode_Records, CivoRecords
  <2> HIDE DEF A, D
  <2> QED
    BY <1>1, <2>1, Listings, Merged
<1>5. IsEps(PDNS_Records(S))
  <2> DEFINE type(r) == IF r.type = "ALIAS" THEN "CNAME" ELSE r.type
             T(r) == {s.target : s \in {x \in S : SameSet(x, r)}}
             f == [r \in M |-> Ep(r.name, "", type(r), T(r), r.ttl, {})]
  <2>1. PDNS_Records(S) = {f[r] : r \in DOMAIN f}
    BY DEF PDNS_Records
  <2>2. \A r \in DOMAIN f : IsEp(f[r])
    <3> HIDE DEF T, type
    <3> QED
      BY <1>1, MadeEp DEF Sound
  <2>3. IsFiniteSet(DOMAIN f)
    BY <1>1 DEF Sound
  <2> HIDE DEF f
  <2> QED
    BY <2>1, <2>2, <2>3, EpImage
<1>6. IsEps(Scaleway_Records(S))
  <2> DEFINE same(r) == {s \in A : SameSet(r, s)}
             T(r) == {s.target : s \in same(r)}
             first(r) == CHOOSE s \in same(r) : TRUE
             f == [r \in A |-> Ep(FullNameOf(r), "", r.type, T(r), first(r).ttl, first(r).props)]
  <2>1. Scaleway_Records(S) = {f[r] : r \in DOMAIN f}
    BY DEF Scaleway_Records
  <2>2. \A r \in DOMAIN f : IsEp(f[r])
    <3> HIDE DEF T, first, A
    <3> QED
      BY <1>1, MadeEp, FullNames DEF Sound
  <2>3. IsFiniteSet(DOMAIN f)
    BY <1>1 DEF Sound
  <2> HIDE DEF f
  <2> QED
    BY <2>1, <2>2, <2>3, EpImage
<1>7. IsEps(RFC2136_Records(S))
  <2> DEFINE same(r) == {s \in L : s.name = r.name /\ s.type = r.type}
             T(r) == {s.target : s \in same(r)}
             ttl(r) == (CHOOSE s \in same(r) : TRUE).ttl
             f == [r \in L |-> Ep(r.name, "", r.type, T(r), ttl(r), {})]
  <2>1. RFC2136_Records(S) = {f[r] : r \in DOMAIN f}
    BY DEF RFC2136_Records
  <2>2. \A r \in DOMAIN f : IsEp(f[r])
    <3> HIDE DEF T, ttl, L
    <3> QED
      BY <1>1, MadeEp DEF Sound
  <2>3. IsFiniteSet(DOMAIN f)
    BY <1>1 DEF Sound
  <2> HIDE DEF f
  <2> QED
    BY <2>1, <2>2, <2>3, EpImage
<1> HIDE DEF M, A, B, C, D, L
<1>8. RecordsOf(k, S) \in
        {NS1_Records(S), Akamai_Records(S), OCI_Records(S), Azure_Records(S), Azure_PrivateRecords(S),
         DigitalOcean_Records(S), Linode_Records(S), CivoRecords(S),
         PDNS_Records(S), Scaleway_Records(S), RFC2136_Records(S)}
  BY DEF RecordsOf, ProviderRecords, Inner, Covered, Exact
<1> QED
  BY <1>2, <1>3, <1>4, <1>5, <1>6, <1>7, <1>8

-----------------------------------------------------------------------------
(***************************************************************************)
(* The scripts.                                                            *)
(***************************************************************************)

LEMMA SoftenedGood ==
    ASSUME NEW k, NEW E, NEW s, GoodScript(k, E, s)
    PROVE  GoodScript(k, E, Softened(s))
<1> DEFINE t == Softened(s)
           soft(c) == [c EXCEPT !.onFail = IF @ = "hard" THEN "soft" ELSE @]
<1>1. PICK V : s \in Seq(V) /\ \A c \in V : GoodCall(k, E, c)
  BY DEF GoodScript
<1> DEFINE U == {soft(c) : c \in V}
<1>2. \A c \in U : GoodCall(k, E, c)
  BY <1>1 DEF GoodCall
<1>3. t \in Seq(U)
  <2>1. t = [i \in 1 .. Len(s) |-> soft(s[i])]
    BY <1>1 DEF Softened
  <2>2. \A i \in 1 .. Len(s) : soft(s[i]) \in U
    BY <1>1
  <2> HIDE DEF U, soft
  <2> QED
    BY <1>1, <2>1, <2>2
<1> HIDE DEF t, U
<1>4. GoodScript(k, E, t)
  BY <1>2, <1>3 DEF GoodScript
<1> QED
  BY <1>4 DEF t

LEMMA ScriptGood ==
    ASSUME NEW k, k \in Covered, NEW S, IsFiniteSet(S), NEW ch, FiniteChanges(ch), NEW q, NEW tag
    PROVE  GoodScript(k, All(ch), Script(k, S, ch, q, tag))
<1>1. CASE k \in {"ns1", "cached"}
  <2>1. Script(k, S, ch, q, tag) = NS1_ApplyChanges(ch) /\ k \notin Relatively
    BY <1>1 DEF Script, ProviderScript, Inner, Relatively
  <2> QED
    BY <2>1, NS1Good
<1>2. CASE k = "akamai"
  <2>1. Script(k, S, ch, q, tag) = Akamai_ApplyChanges(S, ch) /\ k \notin Relatively
    BY <1>2 DEF Script, ProviderScript, Inner, Relatively
  <2> QED
    BY <2>1, AkamaiGood
<1>3. CASE k = "azure"
  <2>1. Script(k, S, ch, q, tag) = Azure_ApplyChanges(ch) /\ k \in Relatively
    BY <1>3 DEF Script, ProviderScript, Inner, Relatively
  <2> QED
    BY <2>1, AzureGood DEF Azure_ApplyChanges
<1>4. CASE k = "azure-private"
  <2>1. Script(k, S, ch, q, tag) = Azure_PrivateApplyChanges(ch) /\ k \in Relatively
    BY <1>4 DEF Script, ProviderScript, Inner, Relatively
  <2> QED
    BY <2>1, AzureGood DEF Azure_PrivateApplyChanges
<1>5. CASE k = "digitalocean"
  <2>1. Script(k, S, ch, q, tag) = DigitalOcean_ApplyChanges(S, ch) /\ k \in Relatively
    BY <1>5 DEF Script, ProviderScript, Inner, Relatively
  <2> QED
    BY <2>1, DigitalOceanGood
<1>6. CASE k = "linode"
  <2>1. Script(k, S, ch, q, tag) = Linode_ApplyChanges(S, ch) /\ k \in Relatively
    BY <1>6 DEF Script, ProviderScript, Inner, Relatively
  <2> QED
    BY <2>1, LinodeGood
<1>7. CASE k = "civo"
  <2>1. Script(k, S, ch, q, tag) = CivoApplyChanges(S, ch) /\ k \in Relatively
    BY <1>7 DEF Script, ProviderScript, Inner, Relatively
  <2> QED
    BY <2>1, LinodeGood
<1>8. CASE k = "pdns"
  <2>1. Script(k, S, ch, q, tag) = PDNS_ApplyChanges(ch) /\ k \notin Relatively
    BY <1>8 DEF Script, ProviderScript, Inner, Relatively
  <2> QED
    BY <2>1, PDNSGood
<1>9. CASE k = "webhook"
  <2>1. Script(k, S, ch, q, tag) = Softened(PDNS_ApplyChanges(ch)) /\ k \notin Relatively
    BY <1>9 DEF Script, ProviderScript, Inner, Relatively
  <2> QED
    BY <2>1, PDNSGood, SoftenedGood
<1>10. CASE k = "oci"
  <2>1. Script(k, S, ch, q, tag) = OCI_ApplyChanges(ch) /\ k \notin Relatively
    BY <1>10 DEF Script, ProviderScript, Inner, Relatively
  <2> QED
    BY <2>1, OCIGood
<1>11. CASE k = "scaleway"
  <2>1. Script(k, S, ch, q, tag) = Scaleway_ApplyChanges(S, ch) /\ k \in Relatively
    BY <1>11 DEF Script, ProviderScript, Inner, Relatively
  <2> QED
    BY <2>1, ScalewayGood
<1>12. CASE k = "rfc2136"
  <2>1. Script(k, S, ch, q, tag) = RFC2136_ApplyChanges(S, ch)
    BY <1>12 DEF Script, ProviderScript, Inner
  <2> QED
    BY <1>12, <2>1, RFC2136Good
<1> QED
  BY <1>1, <1>2, <1>3, <1>4, <1>5, <1>6, <1>7, <1>8, <1>9, <1>10, <1>11, <1>12
     DEF Covered, Exact

-----------------------------------------------------------------------------
(***************************************************************************)
(* The loop.  What is left to be done keeps to the scope of the changes.   *)
(***************************************************************************)

Writable == ManagedTypes \cup {"TXT", "ALIAS"}

KeepsTo(k, sc, r) ==
    /\ r.name \in DNSName /\ \E z \in Zones : r.zone = z.id
    /\ InRightZone(k, r)
    /\ r.type \in Writable
    /\ About(k, r) \cap sc # {}

FitCall(k, sc, c) ==
    /\ IsFiniteSet(c.add)
    /\ \A r \in c.add : KeepsTo(k, sc, r)
    /\ k \in Exact => \A r \in c.del \cup c.clear : KeepsTo(k, sc, r)
    /\ c.instead = <<>> /\ c.later = {} /\ c.onFail # "parallel"

FitScript(k, sc, s) == \E V : s \in Seq(V) /\ \A c \in V : FitCall(k, sc, c)

ScopeOf(ch) == {<<NameOf(e), e.type>> : e \in All(ch)}

LEMMA AboutWritable ==
    ASSUME NEW k, NEW r, r.type \in Writable
    PROVE  About(k, r) = {WholeName(k, r)} \X {IF r.type = "ALIAS" THEN "CNAME" ELSE r.type}
<1>1. r.type \notin {"service", "instance", "regional-hostname", "custom-hostname"}
  BY LoopAssumption DEF Writable
<1> QED
  BY <1>1 DEF About

LEMMA PlacedFits ==
    ASSUME NEW k, NEW ch, FineChanges(ManagedTypes \cup {"TXT"}, ch), NEW sc, ScopeOf(ch) \subseteq sc,
           NEW r, Placed(k, All(ch), r)
    PROVE  KeepsTo(k, sc, r)
<1>1. PICK e \in All(ch) : \E z \in FindZone(ManagedZones, NameOf(e)) :
          /\ r.zone = z.id
          /\ r.name = IF k \in Relatively THEN Relative(NameOf(e), z) ELSE NameOf(e)
          /\ r.type = e.type \/ (r.type = "ALIAS" /\ e.type = "CNAME")
  BY DEF Placed
<1>2. PICK z \in FindZone(ManagedZones, NameOf(e)) :
          /\ r.zone = z.id
          /\ r.name = IF k \in Relatively THEN Relative(NameOf(e), z) ELSE NameOf(e)
          /\ r.type = e.type \/ (r.type = "ALIAS" /\ e.type = "CNAME")
  BY <1>1
<1>3. NameOf(e) \in DNSName /\ e.type \in ManagedTypes \cup {"TXT"}
  BY DEF FineChanges, IsEp
<1>4. /\ z \in Zones /\ z.managed /\ InZone(NameOf(e), z)
      /\ \A y \in ManagedZones : InZone(NameOf(e), y) => Len(y.name) <= Len(z.name)
  BY <1>2, Found
<1>5. ZoneWithId(r.zone) = z
  BY <1>2, <1>4, ZoneNames
<1>6. r.name \in DNSName /\ WholeName(k, r) = NameOf(e)
  BY <1>2, <1>3, <1>4, <1>5, RelativeName DEF WholeName, FullNameOf
<1>7. InRightZone(k, r)
  BY <1>4, <1>5, <1>6 DEF InRightZone
<1>8. r.type \in Writable
  BY <1>2, <1>3 DEF Writable
<1>9. <<NameOf(e), e.type>> \in About(k, r)
  <2>1. e.type = IF r.type = "ALIAS" THEN "CNAME" ELSE r.type
    BY <1>2, <1>3, LoopAssumption
  <2> QED
    BY <1>6, <1>8, <2>1, AboutWritable
<1>10. <<NameOf(e), e.type>> \in sc
  BY DEF ScopeOf
<1> QED
  BY <1>2, <1>4, <1>6, <1>7, <1>8, <1>9, <1>10 DEF KeepsTo

LEMMA FitEmpty ==
    ASSUME NEW k, NEW sc
    PROVE  FitScript(k, sc, <<>>)
<1> DEFINE e == <<>>
<1>1. e \in Seq({})
  OBVIOUS
<1> HIDE DEF e
<1>2. FitScript(k, sc, e)
  BY <1>1 DEF FitScript
<1> QED
  BY <1>2 DEF e

LEMMA FitParts ==
    ASSUME NEW k, NEW sc, NEW s, FitScript(k, sc, s), s # <<>>
    PROVE  FitCall(k, sc, Head(s)) /\ FitScript(k, sc, Tail(s))
<1>1. PICK V : s \in Seq(V) /\ \A c \in V : FitCall(k, sc, c)
  BY DEF FitScript
<1> DEFINE t == Tail(s)
<1>2. Head(s) \in V /\ t \in Seq(V)
  BY <1>1
<1> HIDE DEF t
<1>3. FitScript(k, sc, t)
  BY <1>1, <1>2 DEF FitScript
<1> QED
  BY <1>1, <1>2, <1>3 DEF t

LEMMA FitMore ==
    ASSUME NEW k, NEW sc, NEW s, FitScript(k, sc, s), NEW more, sc \subseteq more
    PROVE  FitScript(k, more, s)
<1>1. PICK V : s \in Seq(V) /\ \A c \in V : FitCall(k, sc, c)
  BY DEF FitScript
<1>2. \A r : KeepsTo(k, sc, r) => KeepsTo(k, more, r)
  BY DEF KeepsTo
<1>3. \A c \in V : FitCall(k, more, c)
  BY <1>1, <1>2 DEF FitCall
<1> QED
  BY <1>1, <1>3 DEF FitScript

LEMMA GoodFits ==
    ASSUME NEW k, NEW ch, FineChanges(ManagedTypes \cup {"TXT"}, ch), NEW sc, ScopeOf(ch) \subseteq sc,
           NEW s, GoodScript(k, All(ch), s)
    PROVE  FitScript(k, sc, s)
<1>1. PICK V : s \in Seq(V) /\ \A c \in V : GoodCall(k, All(ch), c)
  BY DEF GoodScript
<1>2. \A r : Placed(k, All(ch), r) => KeepsTo(k, sc, r)
  BY PlacedFits
<1>3. \A c \in V : FitCall(k, sc, c)
  BY <1>1, <1>2 DEF FitCall, GoodCall
<1> QED
  BY <1>1, <1>3 DEF FitScript

\* The service of a kind: its names and zones, and the place of what external-dns made.
InPlace(k, S) == Sound(S) /\ \A r \in S \ InitService[k] : InRightZone(k, r)

LEMMA EffectInPlace ==
    ASSUME NEW k, NEW sc, NEW S, InPlace(k, S), NEW c, FitCall(k, sc, c)
    PROVE  InPlace(k, Effect(S, c))
<1> DEFINE kept == {r \in S : r \notin c.del /\ ~\E x \in c.clear : SameSet(r, x)}
<1>1. kept \subseteq S
  OBVIOUS
<1>2. Effect(S, c) = kept \cup c.add
  BY DEF Effect
<1> HIDE DEF kept
<1>3. IsFiniteSet(kept) /\ IsFiniteSet(c.add)
  BY <1>1, FiniteSubset DEF InPlace, Sound, FitCall
<1>4. IsFiniteSet(kept \cup c.add)
  BY <1>3, FS_Union
<1>5. \A r \in kept \cup c.add : r.name \in DNSName /\ \E z \in Zones : r.zone = z.id
  BY <1>1 DEF InPlace, Sound, FitCall, KeepsTo
<1>6. \A r \in (kept \cup c.add) \ InitService[k] : InRightZone(k, r)
  BY <1>1 DEF InPlace, FitCall, KeepsTo
<1> QED
  BY <1>2, <1>4, <1>5, <1>6 DEF InPlace, Sound

-----------------------------------------------------------------------------
(***************************************************************************)
(* The loop keeps its types, for all providers, all wishes of the source   *)
(* and any number of edits, faults and drifts.                             *)
(***************************************************************************)

LEMMA Counting ==
    ASSUME NEW n \in Nat, NEW x \in 0 .. n, x > 0
    PROVE  x - 1 \in 0 .. n
  OBVIOUS

LEMMA ReadingCounts ==
    ASSUME faults \in 0 .. MaxFaults, NEW run, ReadingFaults(run)
    PROVE  faults' \in 0 .. MaxFaults
<1>1. CASE run = Whole
  BY <1>1 DEF ReadingFaults
<1>2. CASE run # Whole
  BY <1>2, LoopAssumption, Counting DEF ReadingFaults
<1> QED
  BY <1>1, <1>2

LEMMA InitType == Init => TypeOK
<1> SUFFICES ASSUME Init PROVE TypeOK
  OBVIOUS
<1>1. edits = MaxEdits /\ faults = MaxFaults /\ drifts = MaxDrifts
  BY DEF Init
<1>2. edits \in 0 .. MaxEdits /\ faults \in 0 .. MaxFaults /\ drifts \in 0 .. MaxDrifts
  BY <1>1, LoopAssumption
<1> QED
  BY <1>2 DEF Init, TypeOK

LEMMA NextType == TypeOK /\ [Next]_vars => TypeOK'
<1> SUFFICES ASSUME TypeOK, [Next]_vars
             PROVE  TypeOK'
  OBVIOUS
<1>0. edits \in 0 .. MaxEdits /\ faults \in 0 .. MaxFaults /\ drifts \in 0 .. MaxDrifts
  BY DEF TypeOK
<1>1. CASE Reconcile
  <2>1. faults' \in 0 .. MaxFaults /\ partial' \in BOOLEAN
    BY <1>0, <1>1, ReadingCounts DEF Reconcile
  <2> QED
    BY <1>1, <2>1 DEF Reconcile, TypeOK
<1>2. CASE UpToDate
  <2>1. faults' \in 0 .. MaxFaults
    BY <1>0, <1>2, ReadingCounts DEF UpToDate
  <2> QED
    BY <1>2, <2>1 DEF UpToDate, TypeOK
<1>3. CASE Look
  BY <1>3 DEF Look, TypeOK
<1>4. CASE CallSucceeds
  BY <1>4 DEF CallSucceeds, TypeOK
<1>5. CASE CallFails
  <2>1. failed' \in {"", "soft", "hard"}
    BY <1>5 DEF CallFails, AfterFailure, TypeOK
  <2>2. faults' \in 0 .. MaxFaults
    <3>1. CASE Head(script).refused
      BY <1>0, <1>5, <3>1 DEF CallFails
    <3>2. CASE ~Head(script).refused
      <4>1. faults > 0 /\ faults' = faults - 1
        BY <1>5, <3>2 DEF CallFails
      <4> QED
        BY <1>0, <4>1, LoopAssumption, Counting
    <3> QED
      BY <3>1, <3>2
  <2> QED
    BY <1>5, <2>1, <2>2 DEF CallFails, TypeOK
<1>6. CASE Finish
  BY <1>6 DEF Finish, TypeOK
<1>7. CASE Edit
  <2>1. edits' \in 0 .. MaxEdits
    BY <1>0, <1>7, LoopAssumption, Counting DEF Edit
  <2> QED
    BY <1>7, <2>1 DEF Edit, TypeOK
<1>8. CASE Drift
  <2>1. drifts' \in 0 .. MaxDrifts
    BY <1>0, <1>8, LoopAssumption, Counting DEF Drift
  <2> QED
    BY <1>8, <2>1 DEF Drift, TypeOK
<1>9. CASE Kill
  <2>1. faults' \in 0 .. MaxFaults
    BY <1>0, <1>9, LoopAssumption, Counting DEF Kill
  <2> QED
    BY <1>9, <2>1 DEF Kill, TypeOK
<1>10. CASE Expire
  BY <1>10 DEF Expire, TypeOK
<1>11. CASE Disconnect
  <2>1. faults' \in 0 .. MaxFaults
    BY <1>0, <1>11, LoopAssumption, Counting DEF Disconnect
  <2> QED
    BY <1>11, <2>1 DEF Disconnect, TypeOK
<1>12. CASE StrayCall
  BY <1>12 DEF StrayCall, TypeOK
<1>13. CASE UNCHANGED vars
  BY <1>13 DEF vars, TypeOK
<1> QED
  BY <1>1, <1>2, <1>3, <1>4, <1>5, <1>6, <1>7, <1>8, <1>9, <1>10, <1>11, <1>12, <1>13 DEF Next

\* The loop keeps its types, and no call of ApplyChanges is left over when it has returned
\* or when its process has died, for every provider.
THEOREM TypeCorrect == Spec => []TypeOK
  BY InitType, NextType, PTL DEF Spec

-----------------------------------------------------------------------------
(***************************************************************************)
(* Records are in the right zone.                                          *)
(***************************************************************************)

\* What the calls that are left will do, to which the scope that is kept for a request
\* that is lost belongs, and the list of records that is kept.
LoopInv ==
    kind \in Covered =>
        /\ InPlace(kind, svc)
        /\ FitScript(kind, scope, script) /\ FitScript(kind, scope, stray)
        /\ cache # <<>> => IsEps(cache[1])

LEMMA LoopInit == Init => LoopInv
<1> SUFFICES ASSUME Init, kind \in Covered
             PROVE  /\ InPlace(kind, svc)
                    /\ FitScript(kind, scope, script) /\ FitScript(kind, scope, stray)
                    /\ cache # <<>> => IsEps(cache[1])
  BY DEF LoopInv
<1>1. kind \in Kinds /\ kind \notin Zoneless
  BY DEF Init, Covered, Exact, Zoneless
<1>2. /\ IsFiniteSet(InitService[kind])
      /\ \A r \in InitService[kind] : r.name \in Seq(STRING) /\ \E z \in Zones : r.zone = z.id
  BY <1>1, LoopAssumption
<1>3. \A n \in Seq(STRING) : n \in DNSName
  BY SeqMonotonic DEF DNSName, Label
<1>4. InPlace(kind, svc)
  BY <1>2, <1>3 DEF Init, InPlace, Sound
<1>5. FitScript(kind, scope, <<>>)
  BY FitEmpty
<1> QED
  BY <1>4, <1>5 DEF Init

\* A run of the providers that are covered leaves the service as it is; Akamai and
\* RFC 2136 may read a part of it.
LEMMA RunOf ==
    ASSUME kind \in Covered, NEW run \in Runs
    PROVE  /\ run.listed \subseteq svc /\ run.left = svc /\ run.base = svc
           /\ kind \notin {"akamai", "rfc2136"} => run.listed = svc
<1>1. kind \notin {"ovh", "awssd", "alibaba"}
  BY DEF Covered, Exact
<1>2. Known = svc /\ Leavings(kind, svc) = {svc}
  BY <1>1 DEF Known, Leavings
<1>3. PICK L \in Readings(kind, svc) : run = [listed |-> L, left |-> svc, base |-> svc]
  BY <1>1, <1>2 DEF Runs
<1>4. L \subseteq svc
  <2>1. \A X \in Akamai_Readings(svc) : X \subseteq svc
    BY DEF Akamai_Readings, WithoutZones
  <2>2. \A X \in AXFR_Readings(svc) : X \subseteq svc
    <3> DEFINE listed == {r \in InManagedZones(svc) : r.type \in listedTypes}
    <3>1. listed \subseteq svc /\ AXFR_Readings(svc) = {(svc \ listed) \cup R : R \in SUBSET listed}
      BY DEF AXFR_Readings, InManagedZones
    <3> HIDE DEF listed
    <3> QED
      BY <3>1
  <2> QED
    BY <1>1, <2>1, <2>2 DEF Readings
<1>5. kind \notin {"akamai", "rfc2136"} => L = svc
  BY <1>1 DEF Readings
<1> QED
  BY <1>3, <1>4, <1>5

LEMMA ListedEps ==
    ASSUME LoopInv, kind \in Covered, NEW run \in Runs
    PROVE  IsEps(Listed(run))
<1>1. Sound(run.listed)
  BY RunOf, FewerSound DEF LoopInv, InPlace
<1>2. IsEps(RecordsOf(kind, run.listed))
  BY <1>1, RecordsEps
<1> QED
  BY <1>2 DEF Listed, LoopInv

LEMMA LoopReconcile ==
    ASSUME Naming, TypeOK, LoopInv, kind \in Covered, Reconcile
    PROVE  /\ LoopInv' /\ svc' = svc
<1>1. PICK run \in Runs :
      \E ch \in {Planned(kind, Listed(run), want)} :
      \E all \in {RegistryChanges(kind, Listed(run), ch)} :
          /\ scope' = {<<NameOf(e), e.type>> : e \in all.create \cup all.updateOld \cup all.updateNew \cup all.delete}
                         \cup IF stray # <<>> THEN scope ELSE {}
          /\ script' = Script(kind, run.base, all, queue, MaxFaults - faults)
          /\ svc' = run.left
          /\ cache' = KeptAfter(all)
  BY DEF Reconcile
<1> DEFINE ch == Planned(kind, Listed(run), want)
           all == RegistryChanges(kind, Listed(run), ch)
<1>2. run.left = svc /\ run.base = svc /\ kind # "ovh"
  BY RunOf DEF Covered, Exact
<1>3. /\ scope' = {<<NameOf(e), e.type>> : e \in all.create \cup all.updateOld \cup all.updateNew \cup all.delete}
                         \cup IF stray # <<>> THEN scope ELSE {}
      /\ script' = Script(kind, svc, all, queue, MaxFaults - faults)
      /\ svc' = svc
  BY <1>1, <1>2
<1>4. kind' = kind /\ stray' = stray /\ cache' = <<>>
  BY <1>1, <1>2 DEF Reconcile, KeptAfter
<1>5. kind \in Kinds /\ want \in Desirable[kind] /\ IsEps(Listed(run))
  BY ListedEps DEF TypeOK
<1>6. FineChanges(ManagedTypes, ch)
  BY <1>5, PlanFine
<1>7. FineChanges(ManagedTypes \cup {"TXT"}, all)
  <2> HIDE DEF ch
  <2> QED
    BY <1>6, RegistryFine
<1> HIDE DEF ch, all
<1>8. GoodScript(kind, All(all), Script(kind, svc, all, queue, MaxFaults - faults))
  <2>1. IsFiniteSet(svc) /\ FiniteChanges(all)
    BY <1>7 DEF LoopInv, InPlace, Sound, FineChanges
  <2> QED
    BY <2>1, ScriptGood
<1>9. ScopeOf(all) \subseteq scope'
  BY <1>3 DEF ScopeOf, All
<1>10. FitScript(kind, scope', script')
  BY <1>3, <1>7, <1>8, <1>9, GoodFits
<1>11. FitScript(kind, scope', stray)
  <2>1. CASE stray = <<>>
    BY <2>1, FitEmpty
  <2>2. CASE stray # <<>>
    BY <1>3, <2>2, FitMore DEF LoopInv
  <2> QED
    BY <2>1, <2>2
<1> QED
  BY <1>3, <1>4, <1>10, <1>11 DEF LoopInv

\* A call that is made, or is not.
LEMMA LoopCall ==
    ASSUME LoopInv, kind \in Covered, script # <<>>, kind' = kind, scope' = scope, stray' = stray,
           cache' = cache, svc' \in {svc, Effect(svc, Head(script))}, script' \in {<<>>, Tail(script)}
    PROVE  LoopInv'
<1>1. FitCall(kind, scope, Head(script)) /\ FitScript(kind, scope, Tail(script))
  BY FitParts DEF LoopInv
<1>2. InPlace(kind, svc')
  BY <1>1, EffectInPlace DEF LoopInv
<1>3. FitScript(kind, scope, script')
  BY <1>1, FitEmpty
<1> QED
  BY <1>2, <1>3 DEF LoopInv

LEMMA FailedCall ==
    ASSUME LoopInv, kind \in Covered, CallFails
    PROVE  script' \in {<<>>, Tail(script)}
<1>1. Head(script).instead = <<>> /\ Head(script).onFail # "parallel"
  BY FitParts DEF LoopInv, CallFails, FitCall
<1> QED
  BY <1>1 DEF CallFails, AfterFailure

\* The provider is chosen once.
LEMMA KindStays == [Next]_vars => kind' = kind
  BY DEF Next, vars, Reconcile, UpToDate, Look, CallSucceeds, CallFails, Finish, Edit, Drift, Kill,
         Expire, Disconnect, StrayCall

LEMMA LoopNext ==
    ASSUME Naming, TypeOK, LoopInv, [Next]_vars
    PROVE  LoopInv'
<1>0. kind' = kind
  BY KindStays
<1> SUFFICES ASSUME kind \in Covered PROVE LoopInv'
  BY <1>0 DEF LoopInv
<1>1. CASE Reconcile
  BY <1>1, LoopReconcile
<1>2. CASE UpToDate
  <2>1. PICK run \in Runs : svc' = run.left /\ cache' = Kept(run)
    BY <1>2 DEF UpToDate
  <2>2. svc' = svc /\ kind # "ovh"
    BY <2>1, RunOf DEF Covered, Exact
  <2> DEFINE L == Listed(run)
  <2>3. IsEps(L) /\ cache' \in {<<L>>, <<>>}
    BY <2>1, <2>2, ListedEps DEF Kept
  <2> HIDE DEF L
  <2>4. cache' # <<>> => IsEps(cache'[1])
    BY <2>3
  <2> QED
    BY <1>0, <1>2, <2>2, <2>4 DEF UpToDate, LoopInv
<1>3. CASE Look
  <2>1. script # <<>> /\ Head(script).later # {}
    BY <1>3 DEF Look
  <2> QED
    BY <2>1, FitParts DEF LoopInv, FitCall
<1>4. CASE CallSucceeds
  BY <1>4, LoopCall DEF CallSucceeds
<1>5. CASE CallFails
  BY <1>5, LoopCall, FailedCall DEF CallFails
<1>6. CASE Finish
  BY <1>6 DEF Finish, LoopInv
<1>7. CASE Edit
  BY <1>7 DEF Edit, LoopInv
<1>8. CASE Drift
  <2>1. svc' \subseteq svc /\ cache' = cache
    BY <1>8 DEF Drift, Covered, Exact
  <2>2. InPlace(kind, svc')
    BY <2>1, FewerSound DEF LoopInv, InPlace
  <2> QED
    BY <1>8, <2>1, <2>2 DEF Drift, LoopInv
<1>9. CASE Kill
  BY <1>9, FitEmpty DEF Kill, LoopInv
<1>10. CASE Expire
  BY <1>10 DEF Expire, LoopInv
<1>11. CASE Disconnect
  BY <1>11, FitEmpty DEF Disconnect, LoopInv
<1>12. CASE StrayCall
  <2>1. FitCall(kind, scope, Head(stray)) /\ FitScript(kind, scope, Tail(stray))
    BY <1>12, FitParts DEF LoopInv, StrayCall
  <2>2. InPlace(kind, svc')
    BY <1>12, <2>1, EffectInPlace DEF LoopInv, StrayCall
  <2> QED
    BY <1>12, <2>1, <2>2 DEF StrayCall, LoopInv
<1>13. CASE UNCHANGED vars
  BY <1>13 DEF vars, LoopInv
<1> QED
  BY <1>1, <1>2, <1>3, <1>4, <1>5, <1>6, <1>7, <1>8, <1>9, <1>10, <1>11, <1>12, <1>13 DEF Next

\* Every record that external-dns made is in the most specific of the managed zones its
\* name is in, where resolvers look for it: for Akamai, both Azure providers, Civo,
\* DigitalOcean, Linode, NS1, OCI, PowerDNS, RFC 2136 and Scaleway, for the cache and the
\* webhook, with any zones, any wishes of the source and any failures, readings with a
\* zone missing (Akamai, RFC 2136) among them.  A message of RFC 2136 that has a name
\* outside its zone is refused as a whole by the server.
THEOREM RecordsInRightZone ==
    ASSUME Naming
    PROVE  Spec => [](kind \in Covered => RightZone)
<1>1. LoopInv => (kind \in Covered => RightZone)
  BY DEF LoopInv, InPlace, RightZone
<1>2. TypeOK /\ LoopInv /\ [Next]_vars => LoopInv'
  BY LoopNext
<1> QED
  BY <1>1, <1>2, InitType, NextType, LoopInit, PTL DEF Spec

-----------------------------------------------------------------------------
(***************************************************************************)
(* ApplyChanges keeps the contract.  Providers without an ownership record *)
(* own the types they manage in the zones they manage, so the records of   *)
(* others are those of other types and other zones.  Below the TXT         *)
(* registry others may have records of these types as well: their names    *)
(* are taken, and no change is about them.                                 *)
(***************************************************************************)

Apart(k) == \A r \in InitService[k] : ZoneWithId(r.zone).managed => r.type \notin Writable

\* The kinds whose listings are looked at below.
Owning == {"oci", "pdns", "scaleway"}

Owned(k) ==
    /\ k \in TXTKinds /\ k \in Owning
    /\ ManagedTypes \subseteq {"A", "AAAA", "CNAME"}
    /\ \A r \in InitService[k] : ZoneWithId(r.zone).managed => r.type \notin {"TXT", "ALIAS"}
    /\ \A W \in Desirable[k] : \A e \in W : SetOf(e) = ""

TakenNames(k) ==
    {WholeName(k, r) : r \in {x \in InitService[k] : ZoneWithId(x.zone).managed /\ x.type \in ManagedTypes}}

\* The listing of each of these kinds: endpoints without owner and set identifier, each of a
\* record, and one for every record of a managed type.
ListsOf(k, S, R) ==
    /\ \A e \in R : e.owner = NoOwner /\ \E r \in S :
           /\ ZoneWithId(r.zone).managed /\ e.key = <<WholeName(k, r), "">>
           /\ e.type = "TXT" => r.type = "TXT"
    /\ \A r \in S : ZoneWithId(r.zone).managed /\ r.type \in {"A", "AAAA", "CNAME"} =>
           \E e \in R : e.key = <<WholeName(k, r), "">> /\ e.type = r.type

Plain(e, n, type) == e.key = <<n, "">> /\ e.type = type /\ e.owner = NoOwner

LEMMA MadeBy ==
    ASSUME NEW n, NEW type, NEW targets, NEW ttl, NEW props
    PROVE  Plain(Ep(n, "", type, targets, ttl, props), n, type)
<1> DEFINE rank == RankOf(targets)
           e == [key |-> <<n, "">>, type |-> type, targets |-> rank, ttl |-> ttl,
                 props |-> props, owner |-> NoOwner, resource |-> NoResource, owned |-> NoName]
<1>1. Ep(n, "", type, targets, ttl, props) = e
  BY DEF Ep
<1> HIDE DEF rank
<1>2. e.key = <<n, "">>
  OBVIOUS
<1>3. e.type = type
  OBVIOUS
<1>4. e.owner = NoOwner
  OBVIOUS
<1> QED
  BY <1>1, <1>2, <1>3, <1>4 DEF Plain

LEMMA ListsImage ==
    ASSUME NEW k, NEW S, NEW f, DOMAIN f \subseteq S,
           \A r \in DOMAIN f : \E targets, ttl, props, type :
               /\ f[r] = Ep(WholeName(k, r), "", type, targets, ttl, props)
               /\ ZoneWithId(r.zone).managed
               /\ type = r.type \/ (r.type = "ALIAS" /\ type = "CNAME"),
           \A r \in S : ZoneWithId(r.zone).managed /\ r.type \in {"A", "AAAA", "CNAME"} => r \in DOMAIN f
    PROVE  ListsOf(k, S, {f[r] : r \in DOMAIN f})
<1> DEFINE R == {f[r] : r \in DOMAIN f}
<1>1. ASSUME NEW r \in DOMAIN f
      PROVE  /\ ZoneWithId(r.zone).managed
             /\ f[r].key = <<WholeName(k, r), "">> /\ f[r].owner = NoOwner
             /\ f[r].type = r.type \/ (r.type = "ALIAS" /\ f[r].type = "CNAME")
  <2>1. PICK targets, ttl, props, type :
               /\ f[r] = Ep(WholeName(k, r), "", type, targets, ttl, props)
               /\ ZoneWithId(r.zone).managed
               /\ type = r.type \/ (r.type = "ALIAS" /\ type = "CNAME")
    OBVIOUS
  <2>2. Plain(f[r], WholeName(k, r), type)
    BY <2>1, MadeBy
  <2> QED
    BY <2>1, <2>2 DEF Plain
<1>2. \A e \in R : e.owner = NoOwner /\ \E r \in S :
           /\ ZoneWithId(r.zone).managed /\ e.key = <<WholeName(k, r), "">>
           /\ e.type = "TXT" => r.type = "TXT"
  <2> SUFFICES ASSUME NEW e \in R
               PROVE  e.owner = NoOwner /\ \E r \in S :
                         /\ ZoneWithId(r.zone).managed /\ e.key = <<WholeName(k, r), "">>
                         /\ e.type = "TXT" => r.type = "TXT"
    OBVIOUS
  <2>1. PICK r \in DOMAIN f : e = f[r]
    OBVIOUS
  <2>2. r \in S /\ (e.type = "TXT" => r.type = "TXT")
    BY <1>1, <2>1
  <2> QED
    BY <1>1, <2>1, <2>2
<1>3. \A r \in S : ZoneWithId(r.zone).managed /\ r.type \in {"A", "AAAA", "CNAME"} =>
           \E e \in R : e.key = <<WholeName(k, r), "">> /\ e.type = r.type
  <2> SUFFICES ASSUME NEW r \in DOMAIN f, r.type \in {"A", "AAAA", "CNAME"}
               PROVE  \E e \in R : e.key = <<WholeName(k, r), "">> /\ e.type = r.type
    OBVIOUS
  <2>1. f[r] \in R /\ f[r].type = r.type
    BY <1>1
  <2> QED
    BY <1>1, <2>1
<1> HIDE DEF R
<1>4. ListsOf(k, S, R)
  BY <1>2, <1>3 DEF ListsOf
<1> QED
  BY <1>4 DEF R

LEMMA OwningLists ==
    ASSUME NEW k \in Owning, NEW S
    PROVE  ListsOf(k, S, RecordsOf(k, S))
<1> DEFINE M == InManagedZones(S)
           A == {r \in M : SupportedRecordType(r.type)}
<1>0. /\ M \subseteq S /\ A \subseteq S /\ A \subseteq M /\ \A r \in M : ZoneWithId(r.zone).managed
      /\ \A r \in S : ZoneWithId(r.zone).managed /\ r.type \in {"A", "AAAA", "CNAME"} => r \in A
  BY DEF InManagedZones, SupportedRecordType
<1>1. CASE k = "oci"
  <2> DEFINE T(r) == {s.target : s \in {x \in A : SameSet(x, r)}}
             f == [r \in A |-> Ep(r.name, "", r.type, T(r), r.ttl, {})]
  <2>1. RecordsOf(k, S) = {f[r] : r \in DOMAIN f}
    BY <1>1 DEF RecordsOf, ProviderRecords, Inner, OCI_Records, EndpointPerName
  <2> HIDE DEF T, A, M
  <2>2. \A r \in A : f[r] = Ep(WholeName(k, r), "", r.type, T(r), r.ttl, {})
    BY <1>1 DEF WholeName, Relatively
  <2>3. DOMAIN f = A
    OBVIOUS
  <2> HIDE DEF f
  <2>4. \A r \in DOMAIN f : \E targets, ttl, props, type :
               /\ f[r] = Ep(WholeName(k, r), "", type, targets, ttl, props)
               /\ ZoneWithId(r.zone).managed
               /\ type = r.type \/ (r.type = "ALIAS" /\ type = "CNAME")
    BY <1>0, <2>2, <2>3
  <2>5. ListsOf(k, S, {f[r] : r \in DOMAIN f})
    BY <1>0, <2>3, <2>4, ListsImage
  <2> QED
    BY <2>1, <2>5
<1>2. CASE k = "pdns"
  <2> DEFINE type(r) == IF r.type = "ALIAS" THEN "CNAME" ELSE r.type
             T(r) == {s.target : s \in {x \in S : SameSet(x, r)}}
             f == [r \in M |-> Ep(r.name, "", type(r), T(r), r.ttl, {})]
  <2>1. RecordsOf(k, S) = {f[r] : r \in DOMAIN f}
    BY <1>2 DEF RecordsOf, ProviderRecords, Inner, PDNS_Records
  <2> HIDE DEF T, A, M
  <2>2. \A r \in M : f[r] = Ep(WholeName(k, r), "", type(r), T(r), r.ttl, {})
    BY <1>2 DEF WholeName, Relatively
  <2>3. DOMAIN f = M
    OBVIOUS
  <2> HIDE DEF f
  <2>4. \A r \in DOMAIN f : \E targets, ttl, props, t :
               /\ f[r] = Ep(WholeName(k, r), "", t, targets, ttl, props)
               /\ ZoneWithId(r.zone).managed
               /\ t = r.type \/ (r.type = "ALIAS" /\ t = "CNAME")
    <3>1. \A r : type(r) = r.type \/ (r.type = "ALIAS" /\ type(r) = "CNAME")
      OBVIOUS
    <3> HIDE DEF type
    <3> QED
      BY <1>0, <2>2, <2>3, <3>1
  <2>5. ListsOf(k, S, {f[r] : r \in DOMAIN f})
    BY <1>0, <2>3, <2>4, ListsImage
  <2> QED
    BY <2>1, <2>5
<1>3. CASE k = "scaleway"
  <2> DEFINE same(r) == {s \in A : SameSet(r, s)}
             T(r) == {s.target : s \in same(r)}
             first(r) == CHOOSE s \in same(r) : TRUE
             f == [r \in A |-> Ep(FullNameOf(r), "", r.type, T(r), first(r).ttl, first(r).props)]
  <2>1. RecordsOf(k, S) = {f[r] : r \in DOMAIN f}
    BY <1>3 DEF RecordsOf, ProviderRecords, Inner, Scaleway_Records
  <2> HIDE DEF T, first, A, M
  <2>2. \A r \in A : f[r] = Ep(WholeName(k, r), "", r.type, T(r), first(r).ttl, first(r).props)
    BY <1>3 DEF WholeName, Relatively
  <2>3. DOMAIN f = A
    OBVIOUS
  <2> HIDE DEF f
  <2>4. \A r \in DOMAIN f : \E targets, ttl, props, type :
               /\ f[r] = Ep(WholeName(k, r), "", type, targets, ttl, props)
               /\ ZoneWithId(r.zone).managed
               /\ type = r.type \/ (r.type = "ALIAS" /\ type = "CNAME")
    BY <1>0, <2>2, <2>3
  <2>5. ListsOf(k, S, {f[r] : r \in DOMAIN f})
    BY <1>0, <2>3, <2>4, ListsImage
  <2> QED
    BY <2>1, <2>5
<1> QED
  BY <1>1, <1>2, <1>3 DEF Owning

\* No ownership record is there for a name that is taken.
Unclaimed(k, S) ==
    \A r \in S : r.type = "TXT" /\ ZoneWithId(r.zone).managed =>
        \A n \in TakenNames(k), t \in OwnTypes : WholeName(k, r) # ToTXTName(n, t)

LEMMA Pair ==
    ASSUME NEW p, NEW x, NEW y, p = <<x, y>>
    PROVE  p[1] = x /\ p[2] = y
  OBVIOUS

LEMMA PairOf ==
    ASSUME NEW A, NEW B, NEW p \in A \X B
    PROVE  p = <<p[1], p[2]>>
  OBVIOUS

LEMMA PairExcept ==
    ASSUME NEW x, NEW y, NEW z
    PROVE  [<<x, y>> EXCEPT ![2] = z] = <<x, z>>
  OBVIOUS

LEMMA PlainPair ==
    ASSUME NEW A, NEW B, NEW p \in A \X B, p[2] = ""
    PROVE  p = <<p[1], "">> /\ [p EXCEPT ![2] = ""] = p
<1>1. p = <<p[1], p[2]>>
  BY PairOf
<1> DEFINE x == p[1]
<1>2. p = <<x, "">>
  BY <1>1
<1> HIDE DEF x
<1>3. [<<x, "">> EXCEPT ![2] = ""] = <<x, "">>
  BY PairExcept
<1> QED
  BY <1>2, <1>3 DEF x

\* What the registry reports at a name that is taken has no owner.
LEMMA TakenUnowned ==
    ASSUME Naming, NEW k, Owned(k), NEW S, Sound(S), Unclaimed(k, S),
           NEW c \in RegistryRecords(k, RecordsOf(k, S)), c.type \in ManagedTypes, NameOf(c) \in TakenNames(k)
    PROVE  c.owner = NoOwner
<1> DEFINE R == RecordsOf(k, S)
           mine(e) == OwnershipTXT(e).key \in {o.key : o \in OfType(R, "TXT")}
<1>1. k \in Owning /\ k \in TXTKinds /\ k \in Covered
  BY DEF Owned, Owning, Covered, Exact
<1>2. ListsOf(k, S, R) /\ IsEps(R)
  BY <1>1, OwningLists, RecordsEps
<1>3. PICK e \in R : c = IF e.type \in ManagedTypes /\ mine(e) THEN [e EXCEPT !.owner = Me] ELSE e
  BY <1>1 DEF RegistryRecords
<1> HIDE DEF R
<1>4. IsEp(e) /\ e.owner = NoOwner
  BY <1>2 DEF IsEps, ListsOf
<1>5. CASE ~(e.type \in ManagedTypes /\ mine(e))
  BY <1>3, <1>4, <1>5
<1>6. CASE e.type \in ManagedTypes /\ mine(e)
  <2>1. NameOf(c) = NameOf(e)
    BY <1>3, <1>4, <1>6, WithOwner
  <2>2. PICK o \in R : o.type = "TXT" /\ o.key = OwnershipTXT(e).key
    BY <1>6 DEF OfType
  <2>3. PICK r \in S : ZoneWithId(r.zone).managed /\ o.key = <<WholeName(k, r), "">> /\ r.type = "TXT"
    BY <1>2, <2>2 DEF ListsOf
  <2>4. PICK t \in OwnTypes : NameOf(OwnershipTXT(e)) = ToTXTName(NameOf(e), t)
    BY <1>4, <1>6, Ownership
  <2>5. WholeName(k, r) = ToTXTName(NameOf(e), t)
    <3> DEFINE x == WholeName(k, r)
               y == OwnershipTXT(e)
               m == ToTXTName(NameOf(e), t)
    <3>1. y.key = <<x, "">> /\ NameOf(y) = m
      BY <2>2, <2>3, <2>4
    <3> HIDE DEF x, y, m
    <3>2. y.key[1] = x
      BY <3>1, Pair
    <3>3. x = m
      BY <3>1, <3>2 DEF NameOf
    <3> QED
      BY <3>3 DEF x, m
  <2> QED
    BY <2>1, <2>3, <2>4, <2>5 DEF Unclaimed
<1> QED
  BY <1>5, <1>6

\* The endpoint that stands in the planner's table for those of a key and type.
Rep(E, key, type) == CHOOSE f \in E : key = f.key /\ type = f.type

LEMMA InTheTable ==
    ASSUME NEW E, NEW D, NEW e \in E
    PROVE  \E f \in InTable(E, D) : f \in E /\ f.key = e.key /\ f.type = e.type
<1> DEFINE f == Rep(E, e.key, e.type)
<1>1. f \in E /\ f.key = e.key /\ f.type = e.type
  BY DEF Rep
<1>2. Rep(E, f.key, f.type) = f
  BY <1>1
<1>3. (CHOOSE g \in E : SameRecord(f, g)) = Rep(E, f.key, f.type)
  BY DEF Rep, SameRecord
<1> HIDE DEF f
<1>4. f \in InTable(E, D)
  BY <1>1, <1>2, <1>3 DEF InTable
<1> QED
  BY <1>1, <1>4

\* There is one for every name that is taken.
LEMMA TakenListed ==
    ASSUME NEW k, Owned(k), NEW S, Sound(S), InitService[k] \subseteq S, NEW n \in TakenNames(k)
    PROVE  \E c \in RegistryRecords(k, RecordsOf(k, S)) : c.key = <<n, "">> /\ c.type \in ManagedTypes
<1> DEFINE R == RecordsOf(k, S)
           mine(e) == OwnershipTXT(e).key \in {o.key : o \in OfType(R, "TXT")}
           reg(e) == IF e.type \in ManagedTypes /\ mine(e) THEN [e EXCEPT !.owner = Me] ELSE e
<1>1. k \in Owning /\ k \in TXTKinds /\ k \in Covered
  BY DEF Owned, Owning, Covered, Exact
<1>2. ListsOf(k, S, R) /\ IsEps(R)
  BY <1>1, OwningLists, RecordsEps
<1>3. PICK r \in S : n = WholeName(k, r) /\ ZoneWithId(r.zone).managed /\ r.type \in ManagedTypes
  BY DEF TakenNames
<1>4. PICK e \in R : e.key = <<n, "">> /\ e.type = r.type
  BY <1>2, <1>3 DEF ListsOf, Owned
<1>5. RegistryRecords(k, R) = {reg(x) : x \in R}
  BY <1>1 DEF RegistryRecords
<1> HIDE DEF R, mine
<1>6. reg(e).key = e.key /\ reg(e).type = e.type
  BY <1>2 DEF IsEps, IsEp
<1> HIDE DEF reg
<1>7. reg(e) \in RegistryRecords(k, R)
  BY <1>5
<1> QED
  BY <1>3, <1>4, <1>6, <1>7 DEF R

LEMMA PlainKeys ==
    ASSUME NEW k \in Kinds, Owned(k), NEW W \in Desirable[k], NEW e \in Adjusted(k, W)
    PROVE  e.key = <<NameOf(e), "">>
<1>1. \A d \in W : "key" \in DOMAIN d /\ d.key \in Seq(STRING) \X STRING /\ d.key[2] = ""
  <2> SUFFICES ASSUME NEW d \in W
               PROVE  "key" \in DOMAIN d /\ d.key \in Seq(STRING) \X STRING /\ d.key[2] = ""
    OBVIOUS
  <2>1. IsEndpoint(d)
    BY LoopAssumption
  <2> QED
    BY <2>1 DEF IsEndpoint, Owned, SetOf
<1>2. PICK d \in W : e.key = d.key
  <2>1. CASE k = "oci"
    <3>1. PICK d \in W : e = [d EXCEPT !.key[2] = ""]
      BY <2>1 DEF Adjusted, OCI_AdjustEndpoints
    <3>2. e.key = [d.key EXCEPT ![2] = ""]
      BY <1>1, <3>1
    <3>3. [d.key EXCEPT ![2] = ""] = d.key
      BY <1>1, PlainPair
    <3> QED
      BY <3>2, <3>3
  <2>2. CASE k = "pdns"
    BY <2>2 DEF Adjusted, PDNS_AdjustEndpoints
  <2>3. CASE k = "scaleway"
    <3>1. PICK d \in W : \E t, p : e = [d EXCEPT !.ttl = t, !.props = p]
      BY <2>3 DEF Adjusted, Scaleway_AdjustEndpoints
    <3> QED
      BY <1>1, <3>1
  <2> QED
    BY <2>1, <2>2, <2>3 DEF Owned, Owning
<1>3. d.key = <<d.key[1], "">>
  BY <1>1, PlainPair
<1> QED
  BY <1>2, <1>3 DEF NameOf

\* No change of the plan is about a name that is taken.
LEMMA PlanSpares ==
    ASSUME Naming, NEW k \in Kinds, Owned(k), NEW S, Sound(S), InitService[k] \subseteq S, Unclaimed(k, S),
           NEW W \in Desirable[k], NEW e \in All(Planned(k, RecordsOf(k, S), W))
    PROVE  NameOf(e) \notin TakenNames(k)
<1> DEFINE reg == RegistryRecords(k, RecordsOf(k, S))
           desired == Adjusted(k, W)
           current == InTable(reg, desired)
           cur == filterRecordsForPlan(current)
           des == filterRecordsForPlan(desired)
           ch == Planned(k, RecordsOf(k, S), W)
<1>1. k \in Covered /\ k \in Owning /\ k \in TXTKinds
  BY DEF Owned, Owning, Covered, Exact
<1>2. ch = Calculate(Me, NoOwner, current, desired)
  <2>1. \A n : Managed(k, n)
    BY <1>1 DEF Managed, Owning
  <2>2. OwnerOf(k) = Me
    BY <1>1 DEF OwnerOf
  <2> QED
    BY <2>1, <2>2 DEF Planned
<1>3. current \subseteq reg
  BY DEF InTable
<1>4. \A x \in desired : IsWish(x)
  BY <1>1, AdjustedWishes
<1>5. /\ \A x \in cur : x \in reg /\ x.type \in ManagedTypes
      /\ \A x \in des : x \in desired
      /\ \A x \in current, y \in des : x.key = y.key /\ x.type \in ManagedTypes => x \in cur
  BY <1>3 DEF filterRecordsForPlan, IsManagedRecord
<1> HIDE DEF ch, current, desired
<1>6. Me # NoOwner
  BY DEF Me, NoOwner
<1>7. /\ FromPlan(Me, cur, des, ch)
      /\ \A x \in ch.updateOld \cup ch.updateNew \cup ch.delete : x.owner = Me
  BY <1>2, <1>4, <1>6, PlanFrom DEF IsWish
<1> HIDE DEF cur, des
<1>8. \A x \in reg : x.type \in ManagedTypes /\ NameOf(x) \in TakenNames(k) => x.owner # Me
  BY <1>6, TakenUnowned
<1>9. CASE e \in ch.updateOld \cup ch.delete
  BY <1>5, <1>7, <1>8, <1>9 DEF FromPlan
<1>10. CASE e \in ch.updateNew
  <2>1. PICK c \in cur, d \in des : e = inheritOwner(c, d) /\ c.key = d.key
    BY <1>7, <1>10 DEF FromPlan
  <2>2. IsEp(d)
    BY <1>4, <1>5 DEF IsWish
  <2>3. NameOf(e) = NameOf(d) /\ e.owner = c.owner
    BY <2>1, <2>2, WithOwner DEF inheritOwner, IsEp
  <2>4. NameOf(d) = NameOf(c)
    BY <2>1 DEF NameOf
  <2> QED
    BY <1>5, <1>7, <1>8, <1>10, <2>3, <2>4
<1>11. CASE e \in ch.create
  <2> SUFFICES ASSUME NameOf(e) \in TakenNames(k) PROVE FALSE
    OBVIOUS
  <2>1. e \in des /\ e \in desired
    BY <1>5, <1>7, <1>11 DEF FromPlan
  <2> DEFINE n == NameOf(e)
  <2>2. e.key = <<n, "">>
    BY <2>1, PlainKeys DEF desired
  <2> HIDE DEF n
  <2>3. PICK c \in reg : c.key = <<n, "">> /\ c.type \in ManagedTypes
    BY TakenListed DEF n
  <2>4. PICK f \in current : f \in reg /\ f.key = c.key /\ f.type = c.type
    BY InTheTable DEF current
  <2>5. f.key = e.key /\ f.type \in ManagedTypes /\ f \in cur
    BY <1>5, <2>1, <2>2, <2>3, <2>4
  <2>6. f.owner = Me
    BY <1>6, <1>7, <1>11, <2>5 DEF FromPlan
  <2>7. NameOf(f) = NameOf(e)
    BY <2>5 DEF NameOf
  <2> QED
    BY <1>8, <2>4, <2>5, <2>6, <2>7
<1> QED
  BY <1>9, <1>10, <1>11 DEF All, ch

\* A scope without the names that are taken, and their ownership records.
Avoids(k, sc) ==
    \A n \in TakenNames(k) :
        /\ \A t \in ManagedTypes : <<n, t>> \notin sc
        /\ \A t \in OwnTypes : <<ToTXTName(n, t), "TXT">> \notin sc

LEMMA RegistryAll ==
    ASSUME NEW k, NEW R, NEW ch, NEW e \in All(RegistryChanges(k, R, ch))
    PROVE  e \in All(ch) \/ \E x \in All(ch) : e = OwnershipTXT(x)
<1>1. CASE k \notin TXTKinds
  BY <1>1 DEF RegistryChanges
<1>2. CASE k \in TXTKinds
  <2> DEFINE there == {x.key : x \in OfType(R, "TXT")}
             C == {x \in WithTXT(ch.create) : x.type = "TXT" => x.key \notin there}
             all == [create |-> C, updateOld |-> WithTXT(ch.updateOld),
                     updateNew |-> WithTXT(ch.updateNew), delete |-> WithTXT(ch.delete)]
  <2>1. RegistryChanges(k, R, ch) = all
    BY <1>2 DEF RegistryChanges
  <2>2. C \subseteq WithTXT(ch.create)
    OBVIOUS
  <2> HIDE DEF C
  <2>3. e \in WithTXT(ch.create) \cup WithTXT(ch.updateOld) \cup WithTXT(ch.updateNew) \cup WithTXT(ch.delete)
    BY <2>1, <2>2 DEF All
  <2> QED
    BY <2>3 DEF WithTXT, All
<1> QED
  BY <1>1, <1>2

LEMMA ScopeAvoids ==
    ASSUME Naming, NEW k, Owned(k), NEW R, NEW ch, FineChanges(ManagedTypes, ch),
           \A e \in All(ch) : NameOf(e) \notin TakenNames(k), TakenNames(k) \subseteq DNSName
    PROVE  Avoids(k, ScopeOf(RegistryChanges(k, R, ch)))
<1>0. "TXT" \notin ManagedTypes /\ \A e \in All(ch) : IsEp(e) /\ e.type \in ManagedTypes
  BY DEF Owned, FineChanges
<1>1. ASSUME NEW n \in TakenNames(k), NEW t \in ManagedTypes,
             <<n, t>> \in ScopeOf(RegistryChanges(k, R, ch))
      PROVE  FALSE
  <2>1. PICK e \in All(RegistryChanges(k, R, ch)) : <<n, t>> = <<NameOf(e), e.type>>
    BY <1>1 DEF ScopeOf
  <2>2. n = NameOf(e) /\ t = e.type
    BY <2>1
  <2>3. e \in All(ch)
    BY <1>0, <2>2, RegistryAll, Ownership
  <2> QED
    BY <2>2, <2>3
<1>2. ASSUME NEW n \in TakenNames(k), NEW t \in OwnTypes,
             <<ToTXTName(n, t), "TXT">> \in ScopeOf(RegistryChanges(k, R, ch))
      PROVE  FALSE
  <2> DEFINE m == ToTXTName(n, t)
  <2> HIDE DEF m
  <2>1. PICK e \in All(RegistryChanges(k, R, ch)) : <<m, "TXT">> = <<NameOf(e), e.type>>
    BY <1>2 DEF ScopeOf, m
  <2>2. m = NameOf(e) /\ "TXT" = e.type
    BY <2>1
  <2>3. PICK x \in All(ch) : e = OwnershipTXT(x)
    BY <1>0, <2>2, RegistryAll
  <2>4. PICK u \in OwnTypes : NameOf(OwnershipTXT(x)) = ToTXTName(NameOf(x), u)
    BY <1>0, Ownership
  <2>5. n \in DNSName /\ NameOf(x) \in DNSName
    BY <1>0 DEF IsEp
  <2>6. ToTXTName(n, t) = ToTXTName(NameOf(x), u)
    BY <2>2, <2>3, <2>4 DEF m
  <2>7. n = NameOf(x)
    BY <2>5, <2>6, SameName
  <2> QED
    BY <2>7
<1> QED
  BY <1>1, <1>2 DEF Avoids

LEMMA Touched ==
    ASSUME NEW k \in Exact, NEW sc, NEW c, FitCall(k, sc, c), NEW S,
           NEW r \in (S \ Effect(S, c)) \cup (Effect(S, c) \ S)
    PROVE  About(k, r) \cap sc # {} /\ r.type \in Writable /\ ZoneWithId(r.zone).managed
<1>1. \A x \in c.add \cup c.del \cup c.clear :
          About(k, x) \cap sc # {} /\ x.type \in Writable /\ ZoneWithId(x.zone).managed
  BY DEF FitCall, KeepsTo, InRightZone
<1>2. r \in c.add \cup c.del \/ \E x \in c.clear : SameSet(r, x)
  BY DEF Effect
<1>3. ASSUME NEW x \in c.clear, SameSet(r, x)
      PROVE  About(k, r) = About(k, x) /\ r.type = x.type /\ r.zone = x.zone
  <2>1. r.type = x.type /\ r.zone = x.zone /\ r.name = x.name
    BY <1>3 DEF SameSet
  <2>2. WholeName(k, r) = WholeName(k, x)
    BY <2>1 DEF WholeName, FullNameOf
  <2> QED
    BY <1>1, <2>1, <2>2, AboutWritable
<1> QED
  BY <1>1, <1>2, <1>3

\* The records of others are kept apart from those of external-dns.
Distinct(k) == Apart(k) \/ Owned(k)

\* The records of others stay, and the changes in progress are not about them.
Spares(k, S, sc) ==
    /\ InitService[k] \subseteq S
    /\ Owned(k) => Avoids(k, sc) /\ Unclaimed(k, S)
OthersStay ==
    kind \in Exact /\ Distinct(kind) =>
        Spares(kind, svc, scope) /\ (Owned(kind) => cache = <<>>)

LEMMA EffectSpares ==
    ASSUME NEW k \in Exact, Distinct(k), NEW sc, NEW c, FitCall(k, sc, c), NEW S, Spares(k, S, sc)
    PROVE  Spares(k, Effect(S, c), sc)
<1>1. CASE Owned(k)
  <2>1. /\ Avoids(k, sc) /\ Unclaimed(k, S) /\ InitService[k] \subseteq S
        /\ ManagedTypes \subseteq {"A", "AAAA", "CNAME"}
        /\ \A r \in InitService[k] : ZoneWithId(r.zone).managed => r.type \notin {"TXT", "ALIAS"}
    BY <1>1 DEF Spares, Owned
  <2>2. \A r : r.type \in Writable =>
            About(k, r) = {WholeName(k, r)} \X {IF r.type = "ALIAS" THEN "CNAME" ELSE r.type}
    BY AboutWritable
  <2>3. InitService[k] \subseteq Effect(S, c)
    <3> SUFFICES ASSUME NEW r \in InitService[k], r \notin Effect(S, c) PROVE FALSE
      OBVIOUS
    <3>1. About(k, r) \cap sc # {} /\ r.type \in Writable /\ ZoneWithId(r.zone).managed
      BY <2>1, Touched
    <3>2. r.type \in ManagedTypes /\ WholeName(k, r) \in TakenNames(k)
      BY <2>1, <3>1 DEF Writable, TakenNames
    <3>3. About(k, r) = {WholeName(k, r)} \X {r.type}
      BY <2>1, <2>2, <3>1, <3>2
    <3>4. <<WholeName(k, r), r.type>> \in sc
      BY <3>1, <3>3
    <3> QED
      BY <2>1, <3>2, <3>4 DEF Avoids
  <2>4. Unclaimed(k, Effect(S, c))
    <3> SUFFICES ASSUME NEW r \in Effect(S, c), r.type = "TXT", ZoneWithId(r.zone).managed,
                        NEW n \in TakenNames(k), NEW t \in OwnTypes, WholeName(k, r) = ToTXTName(n, t)
                 PROVE  FALSE
      BY DEF Unclaimed
    <3>1. r \notin S
      BY <2>1 DEF Unclaimed
    <3>2. About(k, r) \cap sc # {} /\ r.type \in Writable
      BY <3>1, Touched
    <3>3. About(k, r) = {WholeName(k, r)} \X {"TXT"}
      BY <2>2, <3>2
    <3>4. <<WholeName(k, r), "TXT">> \in sc
      BY <3>2, <3>3
    <3> QED
      BY <2>1, <3>4 DEF Avoids
  <2> QED
    BY <2>1, <2>3, <2>4 DEF Spares
<1>2. CASE ~Owned(k)
  BY <1>2, Touched DEF Distinct, Apart, Spares
<1> QED
  BY <1>1, <1>2

LEMMA ReconcileSpares ==
    ASSUME Naming, TypeOK, LoopInv, OthersStay, kind \in Exact, Distinct(kind), Reconcile
    PROVE  OthersStay'
<1>0. kind \in Covered /\ kind # "ovh"
  BY DEF Covered, Exact
<1>1. kind' = kind /\ svc' = svc /\ cache' = <<>> /\ kind \in Covered
  BY <1>0, LoopReconcile DEF Reconcile, KeptAfter
<1>2. ASSUME Owned(kind) PROVE Avoids(kind, scope')
  <2> DEFINE R == RecordsOf(kind, svc)
             ch == Planned(kind, R, want)
             all == RegistryChanges(kind, R, ch)
  <2>1. \A run \in Runs : Listed(run) = R
    BY <1>1, <1>2, RunOf DEF OthersStay, Listed, Owned, Owning
  <2>2. scope' = ScopeOf(all) \cup IF stray # <<>> THEN scope ELSE {}
    BY <2>1 DEF Reconcile, ScopeOf, All
  <2> HIDE DEF all, R
  <2>3. kind \in Kinds /\ want \in Desirable[kind] /\ IsEps(R)
    BY <1>1, RecordsEps DEF TypeOK, R, LoopInv, InPlace
  <2>4. FineChanges(ManagedTypes, ch)
    BY <1>1, <2>3, PlanFine
  <2>5. Sound(svc) /\ InitService[kind] \subseteq svc /\ Unclaimed(kind, svc) /\ Avoids(kind, scope)
    BY <1>1, <1>2 DEF LoopInv, InPlace, OthersStay, Spares
  <2>6. \A e \in All(ch) : NameOf(e) \notin TakenNames(kind)
    BY <1>2, <2>3, <2>5, PlanSpares DEF R
  <2>7. TakenNames(kind) \subseteq DNSName
    BY <2>5, FullNames DEF TakenNames, WholeName, Sound
  <2> HIDE DEF ch
  <2>8. Avoids(kind, ScopeOf(all))
    BY <1>2, <2>4, <2>6, <2>7, ScopeAvoids DEF all
  <2> QED
    BY <2>2, <2>5, <2>8 DEF Avoids
<1> QED
  BY <1>1, <1>2 DEF OthersStay, Spares

\* A step of the contract.
ContractStep ==
    Contract!Next \/ UNCHANGED <<Visible(svc), Visible(InitService[kind]), scope, drifts>>

\* What a call does is a write of the contract.
LEMMA CallWrites ==
    ASSUME kind \in Exact, Distinct(kind), OthersStay, NEW c, FitCall(kind, scope, c),
           kind' = kind, scope' = scope, drifts' = drifts, cache' = cache, svc' = Effect(svc, c)
    PROVE  ContractStep /\ OthersStay'
<1> DEFINE pub(S) == {x \in S : x.type # "unpublished"}
           vis(S) == {<<About(kind, r), r>> : r \in pub(S)}
<1>1. Visible(svc) = vis(svc) /\ Visible(svc)' = vis(svc')
      /\ Visible(InitService[kind]) = vis(InitService[kind])
      /\ Visible(InitService[kind])' = Visible(InitService[kind])
  BY DEF Visible, Exact
<1>2. Spares(kind, svc', scope) /\ InitService[kind] \subseteq svc'
  BY EffectSpares DEF OthersStay, Spares
<1>3. \A r \in (svc \ svc') \cup (svc' \ svc) : About(kind, r) \cap scope # {}
  BY Touched
<1>4. \A x \in (vis(svc) \ vis(svc')) \cup (vis(svc') \ vis(svc)) : x[1] \cap scope # {}
  BY <1>3
<1>5. vis(InitService[kind]) \subseteq vis(svc')
  BY <1>2
<1> HIDE DEF vis
<1>6. Contract!Write
  BY <1>1, <1>4, <1>5 DEF Contract!Write
<1> QED
  BY <1>2, <1>6 DEF OthersStay, ContractStep, Contract!Next

LEMMA LoopContract ==
    ASSUME Naming, TypeOK, LoopInv, OthersStay, kind \in Exact, Distinct(kind), [Next]_vars
    PROVE  ContractStep /\ OthersStay'
<1>0. kind \in Covered
  BY DEF Covered
<1>1. ASSUME kind' = kind, svc' = svc, drifts' = drifts
      PROVE  ContractStep
  <2>1. /\ Visible(svc)' = Visible(svc) /\ Visible(InitService[kind])' = Visible(InitService[kind])
    BY <1>1 DEF Visible
  <2>2. Contract!Commit
    BY <1>1, <2>1 DEF Contract!Commit
  <2> QED
    BY <1>1, <2>2 DEF ContractStep, Contract!Next
<1>10. ASSUME kind' = kind, svc' = svc, scope' = scope, cache' \in {cache, <<>>}
       PROVE  OthersStay'
  BY <1>10 DEF OthersStay
<1>2. CASE Reconcile
  <2>1. svc' = svc
    BY <1>0, <1>2, LoopReconcile
  <2> QED
    BY <1>1, <1>2, <2>1, ReconcileSpares DEF Reconcile
<1>3. CASE UpToDate
  <2>1. kind' = kind /\ svc' = svc /\ drifts' = drifts /\ scope' = scope
    BY <1>0, <1>3, RunOf DEF UpToDate
  <2>2. Owned(kind) => cache' = <<>>
    BY <1>3 DEF UpToDate, Owned, Owning, Kept
  <2> QED
    BY <1>1, <2>1, <2>2 DEF OthersStay
<1>4. CASE Look
  BY <1>1, <1>10, <1>4 DEF Look
<1>5. CASE CallSucceeds \/ CallFails
  <2>1. FitCall(kind, scope, Head(script))
    BY <1>0, <1>5, FitParts DEF LoopInv, CallSucceeds, CallFails
  <2>2. /\ kind' = kind /\ scope' = scope /\ drifts' = drifts /\ cache' = cache
        /\ svc' \in {svc, Effect(svc, Head(script))}
    BY <1>5 DEF CallSucceeds, CallFails
  <2> QED
    BY <1>1, <1>10, <2>1, <2>2, CallWrites
<1>6. CASE Finish \/ Edit \/ Kill \/ Expire \/ Disconnect
  <2>1. kind' = kind /\ svc' = svc /\ scope' = scope /\ drifts' = drifts /\ cache' \in {cache, <<>>}
    BY <1>6 DEF Finish, Edit, Kill, Expire, Disconnect
  <2> QED
    BY <1>1, <1>10, <2>1
<1>7. CASE Drift
  <2>1. /\ kind' = kind /\ scope' = scope /\ drifts' = drifts - 1 /\ cache' = cache
        /\ svc' \subseteq svc /\ InitService[kind] \subseteq svc'
    BY <1>0, <1>7 DEF Drift, OthersStay, Spares, Covered, Exact
  <2>2. drifts' # drifts
    <3>1. drifts \in 0 .. MaxDrifts
      BY DEF TypeOK
    <3> QED
      BY <2>1, <3>1, LoopAssumption
  <2>3. /\ Visible(svc)' \subseteq Visible(svc) /\ Visible(InitService[kind])' = Visible(InitService[kind])
        /\ Visible(InitService[kind]) \subseteq Visible(svc)'
    BY <2>1 DEF Visible
  <2>4. Contract!Drift
    BY <2>1, <2>2, <2>3 DEF Contract!Drift
  <2>5. OthersStay'
    BY <2>1 DEF OthersStay, Spares, Unclaimed
  <2> QED
    BY <2>4, <2>5 DEF ContractStep, Contract!Next
<1>8. CASE StrayCall
  <2>1. FitCall(kind, scope, Head(stray))
    BY <1>0, <1>8, FitParts DEF LoopInv, StrayCall
  <2>2. /\ kind' = kind /\ scope' = scope /\ drifts' = drifts /\ cache' = cache
        /\ svc' = Effect(svc, Head(stray))
    BY <1>8 DEF StrayCall
  <2> QED
    BY <2>1, <2>2, CallWrites
<1>9. CASE UNCHANGED vars
  BY <1>1, <1>10, <1>9 DEF vars
<1> QED
  BY <1>2, <1>3, <1>4, <1>5, <1>6, <1>7, <1>8, <1>9 DEF Next

\* ApplyChanges of Akamai, both Azure providers, Civo, DigitalOcean, Linode, NS1, OCI,
\* PowerDNS and Scaleway, also behind the cache and the webhook, writes to the record sets
\* of its plan only, and the records of others stay, whichever calls fail, whatever Akamai
\* could not read and whenever the process dies: the loop over the provider implements
\* ZoneContract.  The records of others are of a type or in a zone that is not managed, or
\* the provider is below the TXT registry, whose name mapper tells records apart.
THEOREM ProvidersKeepContract ==
    ASSUME Naming
    PROVE  Spec /\ kind \in Exact /\ Distinct(kind) => KeepsContract
<1>1. Init => OthersStay /\ Contract!Init
  <2>1. Init => OthersStay
    BY DEF Init, OthersStay, Spares, Avoids, Unclaimed, Owned
  <2>2. Init => Contract!Init
    BY DEF Init, Contract!Init
  <2> QED
    BY <2>1, <2>2
<1>2. TypeOK /\ LoopInv /\ OthersStay /\ kind \in Exact /\ Distinct(kind) /\ [Next]_vars
          => OthersStay' /\ [Contract!Next]_<<Visible(svc), Visible(InitService[kind]), scope, drifts>>
  BY LoopContract DEF ContractStep
<1>3. kind \in Exact /\ Distinct(kind) /\ [Next]_vars => (kind \in Exact /\ Distinct(kind))'
  BY KindStays
<1>4. TypeOK /\ LoopInv /\ [Next]_vars => LoopInv'
  BY LoopNext
<1> QED
  BY <1>1, <1>2, <1>3, <1>4, InitType, NextType, LoopInit, PTL DEF Spec, KeepsContract, Contract!Spec

-----------------------------------------------------------------------------
(***************************************************************************)
(* Ownership records.  PowerDNS patches one zone at a time, and the zone   *)
(* of a name is the zone of its ownership record, so a record is written   *)
(* in the patch that writes its ownership record, or has one, and loses it *)
(* in the patch that removes the record.                                   *)
(***************************************************************************)

\* The last labels of n are those of m.
EndsIn(n, m) ==
    /\ Len(m) <= Len(n)
    /\ \A i \in 1 .. Len(m) : m[i] = n[Len(n) - Len(m) + i]

LEMMA SuffixIs ==
    ASSUME NEW m \in DNSName, NEW n \in DNSName
    PROVE  IsSuffix(m, n) <=> EndsIn(n, m)
<1> DEFINE a == Len(m)  b == Len(n)
<1>1. a \in Nat /\ b \in Nat /\ DOMAIN m = 1 .. a /\ DOMAIN n = 1 .. b
  BY DEF DNSName
<1>2. Len(Reverse(m)) = a /\ Len(Reverse(n)) = b
  BY <1>1 DEF Reverse
<1>3. IsSuffix(m, n) <=> a <= b /\ SubSeq(Reverse(m), 1, a) = SubSeq(Reverse(n), 1, a)
  BY <1>2 DEF IsSuffix, IsPrefix
<1>4. \A j \in 1 .. a : Reverse(m)[j] = m[(a - j) + 1]
  BY <1>1 DEF Reverse
<1>5. \A j \in 1 .. b : Reverse(n)[j] = n[(b - j) + 1]
  BY <1>1 DEF Reverse
<1> DEFINE s == SubSeq(Reverse(m), 1, a)
           t == SubSeq(Reverse(n), 1, a)
<1>6. ASSUME a <= b
      PROVE  s = t <=> \A j \in 1 .. a : m[(a - j) + 1] = n[(b - j) + 1]
  <2>1. \A i \in 1 .. b : n[i] \in Label
    BY <1>1, ElementOfSeq DEF DNSName
  <2>2. \A i \in 1 .. a : m[i] \in Label
    BY <1>1, ElementOfSeq DEF DNSName
  <2>3. \A j \in 1 .. a : Reverse(m)[j] \in Label /\ Reverse(n)[j] \in Label
    BY <1>1, <1>4, <1>5, <1>6, <2>1, <2>2
  <2>4. a \in Int /\ 1 \in Int
    BY <1>1
  <2> HIDE DEF a, b
  <2>5. s \in Seq(Label) /\ Len(s) = a /\ \A j \in 1 .. a : s[j] = Reverse(m)[j]
    BY <1>1, <2>3, <2>4, SubSeqProperties
  <2>6. t \in Seq(Label) /\ Len(t) = a /\ \A j \in 1 .. a : t[j] = Reverse(n)[j]
    BY <1>1, <2>3, <2>4, SubSeqProperties
  <2>7. \A j \in 1 .. a : s[j] = m[(a - j) + 1] /\ t[j] = n[(b - j) + 1]
    BY <1>1, <1>4, <1>5, <1>6, <2>5, <2>6
  <2> HIDE DEF s, t
  <2>8. (\A j \in 1 .. a : s[j] = t[j]) => s = t
    BY <2>5, <2>6, SeqEqual
  <2> QED
    BY <2>7, <2>8
<1>7. ASSUME a <= b
      PROVE  (\A j \in 1 .. a : m[(a - j) + 1] = n[(b - j) + 1])
                 <=> \A i \in 1 .. a : m[i] = n[b - a + i]
  <2> HIDE DEF a, b
  <2>1. ASSUME \A j \in 1 .. a : m[(a - j) + 1] = n[(b - j) + 1], NEW i \in 1 .. a
        PROVE  m[i] = n[b - a + i]
    <3>1. (a - i) + 1 \in 1 .. a /\ (a - ((a - i) + 1)) + 1 = i /\ (b - ((a - i) + 1)) + 1 = b - a + i
      BY <1>1
    <3> QED
      BY <2>1, <3>1
  <2>2. ASSUME \A i \in 1 .. a : m[i] = n[b - a + i], NEW j \in 1 .. a
        PROVE  m[(a - j) + 1] = n[(b - j) + 1]
    <3>1. (a - j) + 1 \in 1 .. a /\ b - a + ((a - j) + 1) = (b - j) + 1
      BY <1>1
    <3> QED
      BY <2>2, <3>1
  <2> QED
    BY <2>1, <2>2
<1> HIDE DEF s, t
<1> QED
  BY <1>3, <1>6, <1>7 DEF s, t, EndsIn

\* A type before the first label leaves a name in its zones, but for a zone of that name
\* and one that is named like an ownership record.
LEMMA SuffixTyped ==
    ASSUME Naming, NEW m \in DNSName, NEW n \in DNSName, n # <<>>, m # n, NEW t \in OwnTypes,
           m = <<>> \/ m[1] # TypedLabel(t, n[1])
    PROVE  IsSuffix(m, ToTXTName(n, t)) <=> IsSuffix(m, n)
<1> DEFINE o == ToTXTName(n, t)
           a == Len(m)
           b == Len(n)
           l == TypedLabel(t, n[1])
<1>1. a \in Nat /\ b \in Nat
  BY DEF DNSName
<1>2. o \in DNSName /\ Len(o) = b /\ o[1] = l /\ \A i \in 1 .. b : i # 1 => o[i] = n[i]
  BY TXTName
<1>3. a = 0 \/ m[1] # l
  BY EmptySeq
<1>4. b >= 1
  BY <1>1, EmptySeq DEF DNSName
<1>5. /\ IsSuffix(m, n) <=> a <= b /\ \A i \in 1 .. a : m[i] = n[b - a + i]
      /\ IsSuffix(m, o) <=> a <= b /\ \A i \in 1 .. a : m[i] = o[b - a + i]
  <2> HIDE DEF o
  <2>1. (IsSuffix(m, n) <=> EndsIn(n, m)) /\ (IsSuffix(m, o) <=> EndsIn(o, m))
    BY <1>2, SuffixIs
  <2> QED
    BY <1>2, <2>1 DEF EndsIn
<1>6. a = b => \E i \in 1 .. a : m[i] # n[i]
  BY SeqEqual DEF DNSName
<1> HIDE DEF o, a, b, l
<1>7. CASE a < b
  <2>1. \A i \in 1 .. a : b - a + i \in 1 .. b /\ b - a + i # 1
    BY <1>1, <1>7
  <2>2. \A i \in 1 .. a : o[b - a + i] = n[b - a + i]
    BY <1>2, <2>1
  <2> QED
    BY <1>5, <2>2 DEF o
<1>8. CASE a = b
  <2>1. \A i \in 1 .. a : b - a + i = i
    BY <1>1, <1>8
  <2>2. ~IsSuffix(m, n)
    BY <1>5, <1>6, <1>8, <2>1
  <2>3. 1 \in 1 .. a /\ a # 0
    BY <1>1, <1>4, <1>8
  <2>4. m[1] # o[b - a + 1]
    BY <1>2, <1>3, <2>1, <2>3
  <2>5. ~IsSuffix(m, o)
    BY <1>5, <2>3, <2>4
  <2> QED
    BY <2>2, <2>5 DEF o
<1>9. CASE ~(a <= b)
  BY <1>5, <1>9 DEF o
<1>10. a < b \/ a = b \/ ~(a <= b)
  BY <1>1
<1> QED
  BY <1>7, <1>8, <1>9, <1>10

\* Two zones of a name that have the same length have the same name.
LEMMA SameSuffix ==
    ASSUME NEW m \in DNSName, NEW o \in DNSName, NEW n \in DNSName,
           IsSuffix(m, n), IsSuffix(o, n), Len(m) = Len(o)
    PROVE  m = o
<1>1. EndsIn(n, m) /\ EndsIn(n, o)
  BY SuffixIs
<1>2. \A i \in 1 .. Len(m) : m[i] = o[i]
  BY <1>1 DEF EndsIn
<1> QED
  BY <1>2, SeqEqual DEF DNSName

\* A name below the apex of its zones.
NonApex(n) == n # <<>> /\ \A z \in ManagedZones : z.name # n

\* The names of ownership records are in the zones of the names they are about: these are
\* below the apex of their zones, where a type before the first label would name another
\* zone, and no zone is named like an ownership record.  Zones are one or none for a name,
\* and the source makes no aliases.
Attributable(k) ==
    /\ Owned(k)
    /\ 0 \in TargetIds
    /\ \A z \in ManagedZones : z.name = <<>> \/ \A t \in OwnTypes, l \in STRING : z.name[1] # TypedLabel(t, l)
    /\ \A y, z \in ManagedZones : y.name = z.name => y = z
    /\ \A W \in Desirable[k] : \A e \in W : NonApex(NameOf(e)) /\ <<"alias", "true">> \notin e.props

\* A record as it is listed, and the name of its ownership record.
Shown(t) == IF t = "ALIAS" THEN "CNAME" ELSE t
OwnName(r) == ToTXTName(r.name, Shown(r.type))

\* A record as PowerDNS is asked for it.
Formed(r) ==
    /\ r.set = "" /\ r.target \in TargetIds
    /\ r.type = IF r.name = ZoneWithId(r.zone).name /\ Shown(r.type) = "CNAME" THEN "ALIAS" ELSE Shown(r.type)

\* The records that have an ownership record, and those that have it in S.
Labelled == ManagedTypes \cup {"ALIAS"}
Tagged(S, r) == \E x \in S : x.type = "TXT" /\ x.zone = r.zone /\ x.name = OwnName(r)
Attributed(S, r) == r.type \in Labelled => NonApex(r.name) /\ Tagged(S, r)

\* A record that is written has its ownership record, or gets it in the same call.
PutOK(S, c) ==
    /\ c.del = {} /\ c.clear = c.add
    /\ \A r \in c.add : Formed(r) /\ Attributed(c.add \cup S, r)

\* An ownership record that is removed takes its records with it.
DropOK(c) ==
    /\ c.del = {} /\ c.add = {}
    /\ \A x \in c.clear : \A r :
           /\ x.type = "TXT" /\ x.zone = r.zone /\ x.name = OwnName(r)
           /\ r.name \in DNSName /\ NonApex(r.name) /\ Formed(r) /\ r.type \in Labelled
           => \E y \in c.clear : SameSet(r, y)

\* Records are written before others are removed.
OwnScript(S, s) ==
    \E P, D : \E p \in Seq(P), d \in Seq(D) :
        s = p \o d /\ (\A c \in P : PutOK(S, c)) /\ (\A c \in D : DropOK(c))

\* Every record of this instance has its ownership record.
OwnService(k, S) ==
    \A r \in S \ InitService[k] : Formed(r) /\ Attributed(S, r)

LEMMA PutKeepsTags ==
    ASSUME NEW S, NEW c, PutOK(S, c), NEW r, Tagged(S, r)
    PROVE  Tagged(Effect(S, c), r)
<1>1. PICK x \in S : x.type = "TXT" /\ x.zone = r.zone /\ x.name = OwnName(r)
  BY DEF Tagged
<1>2. CASE x \in Effect(S, c)
  BY <1>1, <1>2 DEF Tagged
<1>3. CASE x \notin Effect(S, c)
  <2>1. PICK y \in c.add : SameSet(x, y)
    BY <1>3 DEF Effect, PutOK
  <2>2. y \in Effect(S, c) /\ y.type = "TXT" /\ y.zone = r.zone /\ y.name = OwnName(r)
    BY <1>1, <2>1 DEF Effect, SameSet
  <2> QED
    BY <2>2 DEF Tagged
<1> QED
  BY <1>2, <1>3

LEMMA PutOwn ==
    ASSUME NEW k, NEW S, OwnService(k, S), NEW c, PutOK(S, c)
    PROVE  OwnService(k, Effect(S, c))
<1> SUFFICES ASSUME NEW r \in Effect(S, c) \ InitService[k]
             PROVE  Formed(r) /\ Attributed(Effect(S, c), r)
  BY DEF OwnService
<1>1. c.add \subseteq Effect(S, c)
  BY DEF Effect
<1>2. CASE r \in c.add
  <2>1. ASSUME Tagged(c.add \cup S, r) PROVE Tagged(c.add, r) \/ Tagged(S, r)
    BY <2>1 DEF Tagged
  <2>2. Tagged(c.add, r) => Tagged(Effect(S, c), r)
    BY <1>1 DEF Tagged
  <2> QED
    BY <1>2, <2>1, <2>2, PutKeepsTags DEF PutOK, Attributed
<1>3. CASE r \notin c.add
  <2>1. r \in S
    BY <1>3 DEF Effect
  <2> QED
    BY <2>1, PutKeepsTags DEF OwnService, Attributed
<1> QED
  BY <1>2, <1>3

LEMMA DropOwn ==
    ASSUME NEW k, NEW S, Sound(S), OwnService(k, S), NEW c, DropOK(c)
    PROVE  OwnService(k, Effect(S, c))
<1> SUFFICES ASSUME NEW r \in Effect(S, c) \ InitService[k]
             PROVE  Formed(r) /\ Attributed(Effect(S, c), r)
  BY DEF OwnService
<1>1. r \in S /\ r.name \in DNSName /\ ~\E y \in c.clear : SameSet(r, y)
  BY DEF Effect, DropOK, Sound
<1>2. Formed(r) /\ (r.type \in Labelled => NonApex(r.name) /\ Tagged(S, r))
  BY <1>1 DEF OwnService, Attributed
<1>3. ASSUME r.type \in Labelled PROVE Tagged(Effect(S, c), r)
  <2>1. PICK x \in S : x.type = "TXT" /\ x.zone = r.zone /\ x.name = OwnName(r)
    BY <1>2, <1>3 DEF Tagged
  <2>2. ~\E y \in c.clear : SameSet(x, y)
    <3> SUFFICES ASSUME NEW y \in c.clear, SameSet(x, y) PROVE FALSE
      OBVIOUS
    <3>1. y.type = "TXT" /\ y.zone = r.zone /\ y.name = OwnName(r)
      BY <2>1 DEF SameSet
    <3> QED
      BY <1>1, <1>2, <1>3, <3>1 DEF DropOK
  <2>3. x \in Effect(S, c)
    BY <2>1, <2>2 DEF Effect, DropOK
  <2> QED
    BY <2>1, <2>3 DEF Tagged
<1> QED
  BY <1>2, <1>3 DEF Attributed

LEMMA OwnEmpty ==
    ASSUME NEW S
    PROVE  OwnScript(S, <<>>)
<1> DEFINE e == <<>>
           P == {}
<1>1. e \in Seq(P) /\ e = e \o e /\ (\A c \in P : PutOK(S, c)) /\ (\A c \in P : DropOK(c))
  OBVIOUS
<1> HIDE DEF e, P
<1>2. OwnScript(S, e)
  BY <1>1 DEF OwnScript
<1> QED
  BY <1>2 DEF e

\* The first call, and the rest after it.
LEMMA OwnCall ==
    ASSUME NEW k, NEW S, Sound(S), OwnService(k, S), NEW s, s # <<>>, OwnScript(S, s)
    PROVE  /\ OwnService(k, Effect(S, Head(s)))
           /\ OwnScript(S, Tail(s)) /\ OwnScript(Effect(S, Head(s)), Tail(s))
<1>1. PICK P, D : \E p \in Seq(P), d \in Seq(D) :
        s = p \o d /\ (\A c \in P : PutOK(S, c)) /\ (\A c \in D : DropOK(c))
  BY DEF OwnScript
<1>2. PICK p \in Seq(P), d \in Seq(D) :
        s = p \o d /\ (\A c \in P : PutOK(S, c)) /\ (\A c \in D : DropOK(c))
  BY <1>1
<1>3. CASE p # <<>>
  <2> DEFINE t == Tail(p)
  <2>1. Head(s) = Head(p) /\ Head(p) \in P /\ t \in Seq(P) /\ Tail(s) = t \o d
    BY <1>2, <1>3
  <2> HIDE DEF t
  <2>2. PutOK(S, Head(s))
    BY <1>2, <2>1
  <2>3. \A c \in P : PutOK(Effect(S, Head(s)), c)
    <3> SUFFICES ASSUME NEW c \in P PROVE PutOK(Effect(S, Head(s)), c)
      OBVIOUS
    <3> DEFINE T == Effect(S, Head(s))
    <3>1. PutOK(S, c)
      BY <1>2
    <3>2. \A r : Tagged(S, r) => Tagged(T, r)
      BY <2>2, PutKeepsTags
    <3> HIDE DEF T
    <3>3. \A r : Tagged(c.add \cup S, r) => Tagged(c.add \cup T, r)
      BY <3>2 DEF Tagged
    <3>4. PutOK(T, c)
      BY <3>1, <3>3 DEF PutOK, Attributed
    <3> QED
      BY <3>4 DEF T
  <2>4. OwnScript(S, t \o d)
    BY <1>2, <2>1 DEF OwnScript
  <2>5. OwnScript(Effect(S, Head(s)), t \o d)
    BY <1>2, <2>1, <2>3 DEF OwnScript
  <2> QED
    BY <2>1, <2>2, <2>4, <2>5, PutOwn
<1>4. CASE p = <<>>
  <2> DEFINE t == Tail(d)
             e == <<>>
             N == {}
  <2>1. s = d /\ d # <<>>
    BY <1>2, <1>4
  <2>2. Head(s) \in D /\ t \in Seq(D) /\ Tail(s) = t
    BY <2>1
  <2>3. e \in Seq(N) /\ t = e \o t /\ \A T : \A c \in N : PutOK(T, c)
    BY <2>2
  <2> HIDE DEF t, e, N
  <2>4. \A T : OwnScript(T, t)
    BY <1>2, <2>2, <2>3 DEF OwnScript
  <2> QED
    BY <1>2, <2>2, <2>4, DropOwn
<1> QED
  BY <1>3, <1>4

LEMMA OwnZones ==
    ASSUME Naming, NEW k, Attributable(k), NEW n \in DNSName, NonApex(n), NEW t \in OwnTypes
    PROVE  FindZone(ManagedZones, ToTXTName(n, t)) = FindZone(ManagedZones, n)
<1>1. n # <<>> /\ n[1] \in STRING
  BY TXTName DEF NonApex
<1>2. \A z \in ManagedZones : InZone(ToTXTName(n, t), z) <=> InZone(n, z)
  <2> SUFFICES ASSUME NEW z \in ManagedZones PROVE InZone(ToTXTName(n, t), z) <=> InZone(n, z)
    OBVIOUS
  <2>1. z.name \in DNSName /\ z.name # n /\ (z.name = <<>> \/ z.name[1] # TypedLabel(t, n[1]))
    BY <1>1, ZoneNames DEF ManagedZones, Attributable, NonApex
  <2> QED
    BY <1>1, <2>1, SuffixTyped DEF InZone
<1> DEFINE m == ToTXTName(n, t)
<1> HIDE DEF m
<1>3. {z \in ManagedZones : InZone(m, z)} = {z \in ManagedZones : InZone(n, z)}
  BY <1>2 DEF m
<1>4. FindZone(ManagedZones, m) = FindZone(ManagedZones, n)
  BY <1>3 DEF FindZone
<1> QED
  BY <1>4 DEF m

LEMMA PairRenamed ==
    ASSUME NEW x, NEW y, NEW z
    PROVE  [<<x, y>> EXCEPT ![1] = z] = <<z, y>>
  OBVIOUS

LEMMA OwnershipOf ==
    ASSUME Naming, NEW k, Attributable(k), NEW e, IsEp(e), e.type \in ManagedTypes,
           <<"alias", "true">> \notin e.props
    PROVE  LET o == OwnershipTXT(e)
           IN  /\ o.type = "TXT" /\ NameOf(o) = ToTXTName(NameOf(e), e.type)
               /\ TargetsOf(o) = {0}
               /\ \A n : e.key = <<n, "">> => o.key = <<NameOf(o), "">>
<1> DEFINE m == ToTXTName(NameOf(e), e.type)
           w == RankOf({0})
           f == [e EXCEPT !.key[1] = m, !.type = "TXT", !.targets = w,
                          !.ttl = 0, !.owned = <<NameOf(e), e.type>>]
<1>1. OwnershipTXT(e) = f
  BY DEF OwnershipTXT, NameOf
<1>2. TargetsOf([targets |-> w]) = {0}
  BY RankAssumption DEF Attributable
<1> HIDE DEF w
<1>3. TargetsOf([targets |-> w]) = {t \in TargetIds : (w \div 2^t) % 2 = 1}
  BY DEF TargetsOf
<1> HIDE DEF m
<1>4. NameOf(f) = m /\ f.type = "TXT" /\ f.targets = w
  BY DEF IsEp, NameOf
<1>5. TargetsOf(f) = {0}
  BY <1>2, <1>3, <1>4 DEF TargetsOf
<1>6. f.key = [e.key EXCEPT ![1] = m]
  BY DEF IsEp
<1>7. ASSUME NEW n, e.key = <<n, "">> PROVE f.key = <<m, "">>
  <2> HIDE DEF f
  <2>1. f.key = [<<n, "">> EXCEPT ![1] = m]
    BY <1>6, <1>7
  <2>2. [<<n, "">> EXCEPT ![1] = m] = <<m, "">>
    BY PairRenamed
  <2> QED
    BY <2>1, <2>2
<1> HIDE DEF f
<1> QED
  BY <1>1, <1>4, <1>5, <1>7 DEF m

LEMMA RrSetOf ==
    ASSUME NEW z \in Zones, NEW e, e.type \in ManagedTypes \cup {"TXT"}, NEW r \in RrSet(z, e)
    PROVE  /\ r.zone = z.id /\ r.name = NameOf(e) /\ Shown(r.type) = e.type /\ Formed(r)
           /\ \A s : /\ s.zone = z.id /\ s.name = NameOf(e) /\ Shown(s.type) = e.type /\ Formed(s)
                     => SameSet(s, r)
<1> DEFINE u == IF NameOf(e) = z.name /\ e.type = "CNAME" THEN "ALIAS" ELSE e.type
           ttl == IF e.ttl = 0 THEN PDNS_defaultTTL ELSE e.ttl
<1>1. PICK t \in TargetsOf(e) : r = RR(z.id, NameOf(e), "", u, t, ttl, {})
  BY DEF RrSet
<1>2. e.type # "ALIAS" /\ ZoneWithId(z.id) = z
  BY LoopAssumption, ZoneNames
<1> HIDE DEF ttl
<1>3. r.zone = z.id /\ r.name = NameOf(e) /\ r.set = "" /\ r.type = u /\ r.target = t
  BY <1>1 DEF RR
<1>4. Shown(r.type) = e.type
  BY <1>2, <1>3 DEF Shown
<1>5. t \in TargetIds
  BY DEF TargetsOf
<1>6. Formed(r)
  BY <1>2, <1>3, <1>4, <1>5 DEF Formed
<1>7. ASSUME NEW s, s.zone = z.id, s.name = NameOf(e), Shown(s.type) = e.type, Formed(s)
      PROVE  SameSet(s, r)
  BY <1>2, <1>3, <1>7 DEF Formed, SameSet
<1> QED
  BY <1>3, <1>4, <1>6, <1>7

LEMMA RrSetSome ==
    ASSUME NEW z, NEW e, TargetsOf(e) # {}
    PROVE  RrSet(z, e) # {}
  BY DEF RrSet

LEMMA PatchesFinite ==
    ASSUME NEW E, IsFiniteSet(E)
    PROVE  IsFiniteSet(ConvertEndpointsToZones(E))
<1> DEFINE Z == {p[1] : p \in ByZone(E)}
           here(z) == {q \in ByZone(E) : q[1] = z}
           h == [p \in ByZone(E) |-> p[1]]
           g == [z \in Z |-> UNION {RrSet(z, p[2]) : p \in here(z)}]
           X == ConvertEndpointsToZones(E)
<1>1. Z = {h[p] : p \in DOMAIN h} /\ DOMAIN h = ByZone(E)
  OBVIOUS
<1>2. IsFiniteSet({h[p] : p \in DOMAIN h})
  <2> HIDE DEF h
  <2> QED
    BY <1>1, ByZoneFinite, FiniteImage
<1>3. X = {g[z] : z \in DOMAIN g} /\ DOMAIN g = Z
  BY DEF ConvertEndpointsToZones
<1>4. IsFiniteSet(X)
  <2> HIDE DEF g, Z, X
  <2> QED
    BY <1>1, <1>2, <1>3, FiniteImage
<1> QED
  BY <1>4

\* One patch: the records of its zone.
LEMMA InPatch ==
    ASSUME NEW E, NEW rrs \in ConvertEndpointsToZones(E)
    PROVE  \E z \in Zones :
               /\ \A r \in rrs : \E e \in E : z \in FindZone(ManagedZones, NameOf(e)) /\ r \in RrSet(z, e)
               /\ \A e \in E : z \in FindZone(ManagedZones, NameOf(e)) => RrSet(z, e) \subseteq rrs
<1>1. PICK z \in {p[1] : p \in ByZone(E)} : rrs = UNION {RrSet(z, p[2]) : p \in {q \in ByZone(E) : q[1] = z}}
  BY DEF ConvertEndpointsToZones
<1>2. z \in Zones
  BY InByZone, Found
<1>3. ASSUME NEW r \in rrs
      PROVE  \E e \in E : z \in FindZone(ManagedZones, NameOf(e)) /\ r \in RrSet(z, e)
  <2>1. PICK p \in ByZone(E) : p[1] = z /\ r \in RrSet(z, p[2])
    BY <1>1
  <2> QED
    BY <2>1, InByZone
<1>4. ASSUME NEW e \in E, z \in FindZone(ManagedZones, NameOf(e))
      PROVE  RrSet(z, e) \subseteq rrs
  <2> DEFINE p == <<z, e>>
  <2>1. p \in ByZone(E) /\ p[1] = z /\ p[2] = e
    BY <1>4 DEF ByZone
  <2> HIDE DEF p
  <2> QED
    BY <1>1, <2>1
<1> QED
  BY <1>2, <1>3, <1>4

\* Every endpoint of E comes with an ownership record, in E or in the service.
Accompanied(S, E) ==
    \A e \in E : e.type \in ManagedTypes => \A z \in FindZone(ManagedZones, NameOf(e)) :
        \/ \E o \in E : /\ o.type = "TXT" /\ NameOf(o) = ToTXTName(NameOf(e), e.type)
                        /\ TargetsOf(o) # {}
        \/ \E x \in S : x.type = "TXT" /\ x.zone = z.id /\ x.name = ToTXTName(NameOf(e), e.type)

LEMMA PutsOK ==
    ASSUME Naming, NEW k, Attributable(k), NEW S, NEW E, IsFiniteSet(E),
           \A e \in E : IsEp(e) /\ e.type \in ManagedTypes \cup {"TXT"},
           \A e \in E : e.type \in ManagedTypes => NonApex(NameOf(e)), Accompanied(S, E)
    PROVE  \E P : mutateRecords(E, "REPLACE") \in Seq(P) /\ \A c \in P : PutOK(S, c)
<1> DEFINE X == ConvertEndpointsToZones(E)
           c == [rrs \in X |-> <<Put(rrs, "soft")>>]
           P == {Refuse("soft")} \cup {Put(rrs, "soft") : rrs \in X}
<1>0. "TXT" \notin ManagedTypes /\ ManagedTypes \subseteq {"A", "AAAA", "CNAME"}
  BY DEF Attributable, Owned
<1>1. ASSUME NEW rrs \in X PROVE PutOK(S, Put(rrs, "soft"))
  <2>1. PICK z \in Zones :
               /\ \A r \in rrs : \E e \in E : z \in FindZone(ManagedZones, NameOf(e)) /\ r \in RrSet(z, e)
               /\ \A e \in E : z \in FindZone(ManagedZones, NameOf(e)) => RrSet(z, e) \subseteq rrs
    BY InPatch
  <2>2. ASSUME NEW r \in rrs
        PROVE  Formed(r) /\ Attributed(rrs \cup S, r)
    <3>1. PICK e \in E : z \in FindZone(ManagedZones, NameOf(e)) /\ r \in RrSet(z, e)
      BY <2>1
    <3>2. r.zone = z.id /\ r.name = NameOf(e) /\ Shown(r.type) = e.type /\ Formed(r)
      BY <3>1, RrSetOf
    <3>3. ASSUME r.type \in Labelled PROVE NonApex(r.name) /\ Tagged(rrs \cup S, r)
      <4>1. e.type \in ManagedTypes
        BY <1>0, <3>2, <3>3 DEF Labelled, Shown
      <4>2. OwnName(r) = ToTXTName(NameOf(e), e.type) /\ NonApex(r.name)
        BY <3>2, <4>1 DEF OwnName
      <4>3. CASE \E x \in S : x.type = "TXT" /\ x.zone = z.id /\ x.name = ToTXTName(NameOf(e), e.type)
        BY <3>2, <4>2, <4>3 DEF Tagged
      <4>4. CASE \E o \in E : /\ o.type = "TXT" /\ NameOf(o) = ToTXTName(NameOf(e), e.type)
                              /\ TargetsOf(o) # {}
        <5>1. PICK o \in E : /\ o.type = "TXT" /\ NameOf(o) = ToTXTName(NameOf(e), e.type)
                             /\ TargetsOf(o) # {}
          BY <4>4
        <5>2. e.type \in OwnTypes /\ NameOf(e) \in DNSName /\ NonApex(NameOf(e))
          BY <4>1 DEF OwnTypes, IsEp
        <5>3. z \in FindZone(ManagedZones, NameOf(o))
          BY <3>1, <5>1, <5>2, OwnZones
        <5>4. PICK x : x \in RrSet(z, o)
          BY <5>1, RrSetSome
        <5>5. x \in rrs
          BY <2>1, <5>3, <5>4
        <5>6. x.zone = z.id /\ x.name = NameOf(o) /\ Shown(x.type) = "TXT"
          BY <5>1, <5>4, RrSetOf
        <5>7. x.type = "TXT"
          BY <5>6 DEF Shown
        <5> QED
          BY <3>2, <4>2, <5>1, <5>5, <5>6, <5>7 DEF Tagged
      <4> QED
        BY <3>1, <4>1, <4>3, <4>4 DEF Accompanied
    <3> QED
      BY <3>2, <3>3 DEF Attributed
  <2> QED
    BY <2>2 DEF PutOK, Put, Call
<1>2. PutOK(S, Refuse("soft"))
  BY DEF PutOK, Refuse, Call
<1>3. \A d \in P : PutOK(S, d)
  BY <1>1, <1>2
<1>4. mutateRecords(E, "REPLACE") \in {<<Refuse("soft")>>, Concat(c)}
  BY DEF mutateRecords, Each
<1>5. DOMAIN c = X /\ \A rrs \in X : c[rrs] \in Seq(P)
  OBVIOUS
<1>6. IsFiniteSet(X)
  BY PatchesFinite
<1>7. <<Refuse("soft")>> \in Seq(P)
  <2> DEFINE r == Refuse("soft")
  <2>1. r \in P
    OBVIOUS
  <2> HIDE DEF P, r
  <2>2. <<r>> \in Seq(P)
    BY <2>1
  <2> QED
    BY <2>2 DEF r
<1> HIDE DEF P, c, X
<1>8. Concat(c) \in Seq(P)
  BY <1>5, <1>6, ConcatSeq
<1> QED
  BY <1>3, <1>4, <1>7, <1>8

LEMMA DropsOK ==
    ASSUME Naming, NEW k, Attributable(k), NEW F, IsFiniteSet(F),
           \A e \in F : /\ IsEp(e) /\ e.type \in ManagedTypes /\ <<"alias", "true">> \notin e.props
                        /\ TargetsOf(e) # {}
    PROVE  \E D : mutateRecords(WithTXT(F), "DELETE") \in Seq(D) /\ \A c \in D : DropOK(c)
<1> DEFINE E == WithTXT(F)
           X == ConvertEndpointsToZones(E)
           c == [rrs \in X |-> <<Drop(rrs, "soft")>>]
           D == {Drop(rrs, "soft") : rrs \in X}
<1>0. "TXT" \notin ManagedTypes /\ ManagedTypes \subseteq {"A", "AAAA", "CNAME"}
  BY DEF Attributable, Owned
<1>1. IsFiniteSet(E) /\ \A e \in E : IsEp(e) /\ e.type \in ManagedTypes \cup {"TXT"}
  BY WithOwnership
<1>2. ASSUME NEW rrs \in X PROVE DropOK(Drop(rrs, "soft"))
  <2>1. PICK z \in Zones :
               /\ \A r \in rrs : \E e \in E : z \in FindZone(ManagedZones, NameOf(e)) /\ r \in RrSet(z, e)
               /\ \A e \in E : z \in FindZone(ManagedZones, NameOf(e)) => RrSet(z, e) \subseteq rrs
    BY InPatch
  <2>2. ASSUME NEW x \in rrs, NEW r, x.type = "TXT", x.zone = r.zone, x.name = OwnName(r),
               r.name \in DNSName, NonApex(r.name), Formed(r), r.type \in Labelled
        PROVE  \E y \in rrs : SameSet(r, y)
    <3>1. PICK o \in E : z \in FindZone(ManagedZones, NameOf(o)) /\ x \in RrSet(z, o)
      BY <2>1
    <3>2. x.zone = z.id /\ x.name = NameOf(o) /\ o.type = "TXT"
      BY <1>1, <2>2, <3>1, RrSetOf DEF Shown
    <3>3. PICK e \in F : o = OwnershipTXT(e)
      BY <1>0, <3>2 DEF WithTXT
    <3>4. NameOf(o) = ToTXTName(NameOf(e), e.type)
      BY <3>3, OwnershipOf
    <3> DEFINE t == Shown(r.type)
    <3>5. t \in OwnTypes /\ e.type \in OwnTypes
      BY <2>2 DEF Shown, Labelled, OwnTypes
    <3>6. ToTXTName(NameOf(e), e.type) = ToTXTName(r.name, t)
      BY <2>2, <3>2, <3>4 DEF OwnName
    <3> HIDE DEF t
    <3>7. NameOf(e) \in DNSName
      BY DEF IsEp
    <3>8. NameOf(e) = r.name /\ NonApex(NameOf(e))
      BY <2>2, <3>5, <3>6, <3>7, SameName
    <3>9. e.type = t
      BY <3>5, <3>6, <3>7, <3>8, SameName DEF NonApex
    <3>10. z \in FindZone(ManagedZones, NameOf(e)) /\ e \in E
      BY <3>1, <3>4, <3>5, <3>7, <3>8, OwnZones DEF WithTXT
    <3>11. PICK y : y \in RrSet(z, e)
      BY RrSetSome
    <3>12. y \in rrs
      BY <2>1, <3>10, <3>11
    <3>13. SameSet(r, y)
      <4>1. r.zone = z.id /\ r.name = NameOf(e) /\ Shown(r.type) = e.type /\ Formed(r)
        BY <2>2, <3>2, <3>8, <3>9 DEF t
      <4> QED
        BY <3>11, <4>1, RrSetOf
    <3> QED
      BY <3>12, <3>13
  <2> QED
    BY <2>2 DEF DropOK, Drop, Call
<1>3. \A d \in D : DropOK(d)
  BY <1>2
<1>4. mutateRecords(E, "DELETE") = Concat(c)
  BY DEF mutateRecords, Each
<1>5. DOMAIN c = X /\ \A rrs \in X : c[rrs] \in Seq(D)
  OBVIOUS
<1>6. IsFiniteSet(X)
  BY <1>1, PatchesFinite
<1> HIDE DEF D, c, X
<1>7. Concat(c) \in Seq(D)
  BY <1>5, <1>6, ConcatSeq
<1> QED
  BY <1>3, <1>4, <1>7

\* The endpoint that PowerDNS reports for record r.
Alike(S, r) == {s.target : s \in {x \in S : SameSet(x, r)}}
ListedAs(S, r) == Ep(r.name, "", Shown(r.type), Alike(S, r), r.ttl, {})

LEMMA PDNSLists ==
    ASSUME NEW S
    PROVE  RecordsOf("pdns", S) = {ListedAs(S, r) : r \in {x \in S : ZoneWithId(x.zone).managed}}
  BY DEF RecordsOf, ProviderRecords, Inner, PDNS_Records, ListedAs, Alike, Shown, InManagedZones

LEMMA ListedFields ==
    ASSUME NEW S, NEW r
    PROVE  LET e == ListedAs(S, r)
           IN  /\ e.key = <<r.name, "">> /\ NameOf(e) = r.name /\ e.type = Shown(r.type)
               /\ e.props = {} /\ TargetsOf(e) = TargetsOf([targets |-> RankOf(Alike(S, r))])
<1> DEFINE w == RankOf(Alike(S, r))
           t == Shown(r.type)
           n == r.name
           ttl == r.ttl
           e == [key |-> <<n, "">>, type |-> t, targets |-> w, ttl |-> ttl,
                 props |-> {}, owner |-> NoOwner, resource |-> NoResource, owned |-> NoName]
<1>1. ListedAs(S, r) = e
  BY DEF ListedAs, Ep
<1> HIDE DEF w, t, n, ttl
<1>2. e.key = <<n, "">> /\ e.type = t /\ e.props = {} /\ e.targets = w
  OBVIOUS
<1>3. NameOf(e) = n
  BY <1>2, Pair DEF NameOf
<1>4. TargetsOf(e) = TargetsOf([targets |-> w])
  BY <1>2 DEF TargetsOf
<1> HIDE DEF e
<1> QED
  BY <1>1, <1>2, <1>3, <1>4 DEF w, t, n

\* What the registry reports, but for the owner.
LEMMA RegistryOf ==
    ASSUME NEW k, NEW R, IsEps(R), NEW c \in RegistryRecords(k, R)
    PROVE  \E e \in R : /\ c.key = e.key /\ c.type = e.type
                        /\ "props" \in DOMAIN e => c.props = e.props
                        /\ TargetsOf(c) = TargetsOf(e)
<1> DEFINE mine(e) == OwnershipTXT(e).key \in {o.key : o \in OfType(R, "TXT")}
<1>1. PICK e \in R : c = e \/ c = [e EXCEPT !.owner = Me]
  <2> HIDE DEF mine
  <2>1. RegistryRecords(k, R) \in {R, {IF e.type \in ManagedTypes /\ mine(e) THEN [e EXCEPT !.owner = Me] ELSE e : e \in R}}
    BY DEF RegistryRecords, mine
  <2> QED
    BY <2>1
<1>2. IsEp(e)
  BY DEF IsEps
<1>3. /\ c.key = e.key /\ c.type = e.type /\ c.targets = e.targets
      /\ "props" \in DOMAIN e => c.props = e.props
  BY <1>1, <1>2 DEF IsEp
<1>4. TargetsOf(c) = TargetsOf(e)
  BY <1>3 DEF TargetsOf
<1> QED
  BY <1>3, <1>4

LEMMA NoTXT ==
    ASSUME Naming, NEW E, \A x \in E : IsEp(x) /\ x.type \in ManagedTypes, "TXT" \notin ManagedTypes,
           NEW e \in WithTXT(E), e.type \in ManagedTypes
    PROVE  e \in E
  BY Ownership DEF WithTXT

\* Every endpoint of WithTXT(E) comes with its ownership record, which may be there already.
LEMMA WithTXTAccompanied ==
    ASSUME Naming, NEW k, Attributable(k), NEW S, NEW E,
           \A e \in E : IsEp(e) /\ e.type \in ManagedTypes /\ <<"alias", "true">> \notin e.props
    PROVE  Accompanied(S, WithTXT(E))
<1>0. "TXT" \notin ManagedTypes
  BY DEF Attributable, Owned
<1> SUFFICES ASSUME NEW e \in WithTXT(E), e.type \in ManagedTypes
             PROVE  \E o \in WithTXT(E) :
                        /\ o.type = "TXT" /\ NameOf(o) = ToTXTName(NameOf(e), e.type)
                        /\ TargetsOf(o) # {}
  BY DEF Accompanied
<1>1. e \in E
  BY <1>0, NoTXT
<1> DEFINE o == OwnershipTXT(e)
<1>2. o \in WithTXT(E)
  BY <1>1 DEF WithTXT
<1>3. o.type = "TXT" /\ NameOf(o) = ToTXTName(NameOf(e), e.type) /\ TargetsOf(o) # {}
  BY <1>1, OwnershipOf
<1> HIDE DEF o
<1> QED
  BY <1>2, <1>3

LEMMA SameLength ==
    ASSUME NEW m \in DNSName, NEW n \in DNSName, Len(m) <= Len(n), Len(n) <= Len(m)
    PROVE  Len(m) = Len(n)
<1>1. Len(m) \in Nat /\ Len(n) \in Nat
  BY DEF DNSName
<1> QED
  BY <1>1

\* The creates of the registry: a TXT that is there is not created again.
Created(R, E) == {e \in WithTXT(E) : e.type = "TXT" => e.key \notin {f.key : f \in OfType(R, "TXT")}}

LEMMA CreatesAccompanied ==
    ASSUME Naming, NEW k, k = "pdns", Attributable(k), NEW S, InPlace(k, S), NEW E,
           \A e \in E : /\ IsEp(e) /\ e.type \in ManagedTypes /\ <<"alias", "true">> \notin e.props
                        /\ e.key = <<NameOf(e), "">> /\ NonApex(NameOf(e))
    PROVE  Accompanied(S, Created(RecordsOf(k, S), E))
<1> DEFINE R == RecordsOf(k, S)
           there == {e.key : e \in OfType(R, "TXT")}
           C == {e \in WithTXT(E) : e.type = "TXT" => e.key \notin there}
<1>0. "TXT" \notin ManagedTypes /\ k \in Owning /\ k \notin Relatively
  BY DEF Attributable, Owned, Relatively
<1> SUFFICES ASSUME NEW e \in C, e.type \in ManagedTypes, NEW z \in FindZone(ManagedZones, NameOf(e))
             PROVE  \/ \E o \in C : /\ o.type = "TXT" /\ NameOf(o) = ToTXTName(NameOf(e), e.type)
                                    /\ TargetsOf(o) # {}
                    \/ \E x \in S : x.type = "TXT" /\ x.zone = z.id /\ x.name = ToTXTName(NameOf(e), e.type)
  BY DEF Accompanied, Created
<1>1. e \in E
  <2>1. e \in WithTXT(E)
    OBVIOUS
  <2> HIDE DEF C
  <2> QED
    BY <1>0, <2>1, NoTXT
<1> DEFINE o == OwnershipTXT(e)
           m == ToTXTName(NameOf(e), e.type)
<1>2. o \in WithTXT(E)
  BY <1>1 DEF WithTXT
<1>3. /\ o.type = "TXT" /\ NameOf(o) = m /\ TargetsOf(o) # {} /\ o.key = <<m, "">>
  <2> DEFINE n == NameOf(e)
  <2>1. e.key = <<n, "">>
    BY <1>1
  <2> HIDE DEF n
  <2>2. o.key = <<NameOf(o), "">>
    BY <1>1, <2>1, OwnershipOf
  <2>3. o.type = "TXT" /\ NameOf(o) = m /\ TargetsOf(o) # {}
    BY <1>1, OwnershipOf
  <2> QED
    BY <2>2, <2>3
<1>4. CASE o.key \notin there
  <2>1. o \in C
    BY <1>2, <1>4
  <2> QED
    BY <1>3, <2>1
<1>5. CASE o.key \in there
  <2>1. PICK f \in R : f.type = "TXT" /\ f.key = o.key
    BY <1>5 DEF OfType
  <2>2. ListsOf(k, S, R)
    BY <1>0, OwningLists
  <2> HIDE DEF R, o, C
  <2>3. PICK r \in S : ZoneWithId(r.zone).managed /\ f.key = <<WholeName(k, r), "">> /\ r.type = "TXT"
    BY <2>1, <2>2 DEF ListsOf
  <2>4. r.name = m
    <3>1. f.key = <<r.name, "">> /\ f.key = <<m, "">>
      BY <1>0, <1>3, <2>1, <2>3 DEF WholeName
    <3> HIDE DEF m
    <3> DEFINE x == r.name
    <3> HIDE DEF x
    <3>2. f.key[1] = x /\ f.key[1] = m
      BY <3>1, Pair DEF x
    <3> QED
      BY <3>2 DEF x
  <2>5. InRightZone(k, r)
    BY <2>3 DEF InPlace, Attributable, Owned
  <2>6. PICK y \in Zones : r.zone = y.id
    BY DEF InPlace, Sound
  <2>7. ZoneWithId(r.zone) = y
    BY <2>6, ZoneNames
  <2>8. /\ y \in ManagedZones /\ InZone(m, y)
        /\ \A x \in ManagedZones : InZone(m, x) => Len(x.name) <= Len(y.name)
    BY <1>0, <2>4, <2>5, <2>7 DEF InRightZone, WholeName, ManagedZones
  <2>9. NameOf(e) \in DNSName /\ e.type \in OwnTypes /\ m \in DNSName /\ NonApex(NameOf(e))
    <3>1. r.name \in DNSName
      BY DEF InPlace, Sound
    <3> QED
      BY <1>1, <2>4, <3>1 DEF IsEp, OwnTypes
  <2>10. z \in FindZone(ManagedZones, m)
    BY <2>9, OwnZones
  <2> HIDE DEF m
  <2>11. /\ z \in ManagedZones /\ InZone(m, z)
         /\ \A x \in ManagedZones : InZone(m, x) => Len(x.name) <= Len(z.name)
    BY <2>10, Found
  <2>12. y.name \in DNSName /\ z.name \in DNSName
    BY <2>8, <2>11, ZoneNames DEF ManagedZones
  <2>13. Len(y.name) = Len(z.name)
    <3> DEFINE a == y.name
               b == z.name
    <3>1. Len(a) <= Len(b) /\ Len(b) <= Len(a) /\ a \in DNSName /\ b \in DNSName
      BY <2>8, <2>11, <2>12
    <3> HIDE DEF a, b
    <3>2. Len(a) = Len(b)
      BY <3>1, SameLength
    <3> QED
      BY <3>2 DEF a, b
  <2>14. y.name = z.name
    BY <2>8, <2>9, <2>11, <2>12, <2>13, SameSuffix DEF InZone
  <2>15. y = z
    BY <2>8, <2>11, <2>14 DEF Attributable
  <2> QED
    BY <2>3, <2>4, <2>6, <2>15 DEF m
<1> QED
  BY <1>4, <1>5

\* An endpoint of this instance that is listed has the targets of its records.
LEMMA OwnListed ==
    ASSUME Naming, NEW k, k = "pdns", Attributable(k), NEW S, Sound(S), Unclaimed(k, S), OwnService(k, S),
           NEW c \in RegistryRecords(k, RecordsOf(k, S)), c.type \in ManagedTypes, c.owner = Me
    PROVE  c.props = {} /\ TargetsOf(c) # {}
<1> DEFINE R == RecordsOf(k, S)
<1>0. /\ k \in Owning /\ k \in Covered /\ k \notin Relatively /\ Owned(k) /\ Me # NoOwner
      /\ \A r \in InitService[k] : ZoneWithId(r.zone).managed => r.type # "ALIAS"
  BY DEF Attributable, Owned, Owning, Covered, Exact, Relatively, Me, NoOwner
<1>1. IsEps(R)
  BY <1>0, RecordsEps
<1>2. PICK e \in R : /\ c.key = e.key /\ c.type = e.type
                     /\ "props" \in DOMAIN e => c.props = e.props
                     /\ TargetsOf(c) = TargetsOf(e)
  BY <1>1, RegistryOf
<1>3. PICK r \in S : ZoneWithId(r.zone).managed /\ e = ListedAs(S, r)
  BY PDNSLists
<1>4. /\ NameOf(e) = r.name /\ e.type = Shown(r.type) /\ e.props = {}
      /\ TargetsOf(e) = TargetsOf([targets |-> RankOf(Alike(S, r))])
  BY <1>3, ListedFields
<1>5. "props" \in DOMAIN e
  BY <1>3 DEF ListedAs, Ep
<1>6. r.name \notin TakenNames(k)
  <2>1. NameOf(c) = r.name
    BY <1>2, <1>4 DEF NameOf
  <2> QED
    BY <1>0, <2>1, TakenUnowned
<1>7. ASSUME NEW s \in S, SameSet(s, r) PROVE s.target \in TargetIds
  <2>1. s.zone = r.zone /\ s.name = r.name /\ s.type = r.type
    BY <1>7 DEF SameSet
  <2>2. CASE s \in InitService[k]
    <3>1. s.type # "ALIAS" /\ ZoneWithId(s.zone).managed
      BY <1>0, <1>3, <2>1, <2>2
    <3>2. s.type \in ManagedTypes
      BY <1>2, <1>4, <2>1, <3>1 DEF Shown
    <3>3. WholeName(k, s) = r.name
      BY <1>0, <2>1 DEF WholeName
    <3> QED
      BY <1>6, <2>2, <3>1, <3>2, <3>3 DEF TakenNames
  <2>3. CASE s \notin InitService[k]
    BY <2>3 DEF OwnService, Formed
  <2> QED
    BY <2>2, <2>3
<1>8. Alike(S, r) \in SUBSET TargetIds /\ r.target \in Alike(S, r)
  BY <1>7 DEF Alike, SameSet
<1>9. TargetsOf(e) = Alike(S, r)
  BY <1>4, <1>8, RankAssumption
<1> QED
  BY <1>2, <1>4, <1>5, <1>8, <1>9

\* What the plan for PowerDNS asks for.
LEMMA OwnPlan ==
    ASSUME Naming, NEW k \in Kinds, k = "pdns", Attributable(k), NEW S, Sound(S), Unclaimed(k, S), OwnService(k, S),
           NEW W \in Desirable[k]
    PROVE  LET ch == Planned(k, RecordsOf(k, S), W)
           IN  /\ \A e \in ch.create : /\ NonApex(NameOf(e)) /\ <<"alias", "true">> \notin e.props
                                        /\ e.key = <<NameOf(e), "">>
               /\ \A e \in ch.updateNew : NonApex(NameOf(e)) /\ <<"alias", "true">> \notin e.props
               /\ \A e \in ch.delete : <<"alias", "true">> \notin e.props /\ TargetsOf(e) # {}
<1> DEFINE reg == RegistryRecords(k, RecordsOf(k, S))
           desired == Adjusted(k, W)
           current == InTable(reg, desired)
           cur == filterRecordsForPlan(current)
           des == filterRecordsForPlan(desired)
           ch == Planned(k, RecordsOf(k, S), W)
<1>1. k \in Covered /\ k \in Owning /\ k \in TXTKinds /\ Owned(k)
  BY DEF Attributable, Owned, Owning, Covered, Exact
<1>2. ch = Calculate(Me, NoOwner, current, desired)
  <2>1. \A n : Managed(k, n)
    BY <1>1 DEF Managed, Owning
  <2>2. OwnerOf(k) = Me
    BY <1>1 DEF OwnerOf
  <2> QED
    BY <2>1, <2>2 DEF Planned
<1>3. current \subseteq reg
  BY DEF InTable
<1>4. \A x \in desired : x.targets \in Nat /\ x \in W /\ x.key = <<NameOf(x), "">>
  BY <1>1, AdjustedWishes, PlainKeys DEF IsWish, Adjusted, PDNS_AdjustEndpoints
<1>5. \A x \in W : /\ NonApex(NameOf(x)) /\ <<"alias", "true">> \notin x.props
                    /\ "props" \in DOMAIN x /\ IsEp(x)
  <2>1. \A x \in W : IsEndpoint(x)
    BY LoopAssumption
  <2> QED
    BY <2>1, SourceWish DEF Attributable, IsEndpoint, IsWish
<1>6. (\A x \in cur : x \in reg /\ x.type \in ManagedTypes) /\ des \subseteq desired
  BY <1>3 DEF filterRecordsForPlan, IsManagedRecord
<1> HIDE DEF ch, current, desired
<1>7. Me # NoOwner
  BY DEF Me, NoOwner
<1>8. /\ FromPlan(Me, cur, des, ch)
      /\ \A x \in ch.updateOld \cup ch.updateNew \cup ch.delete : x.owner = Me
  BY <1>2, <1>4, <1>7, PlanFrom
<1> HIDE DEF cur, des
<1>9. \A e \in ch.create : /\ NonApex(NameOf(e)) /\ <<"alias", "true">> \notin e.props
                           /\ e.key = <<NameOf(e), "">>
  BY <1>4, <1>5, <1>6, <1>8 DEF FromPlan
<1>10. \A e \in ch.updateNew : NonApex(NameOf(e)) /\ <<"alias", "true">> \notin e.props
  <2> SUFFICES ASSUME NEW e \in ch.updateNew PROVE NonApex(NameOf(e)) /\ <<"alias", "true">> \notin e.props
    OBVIOUS
  <2>1. PICK c \in cur, d \in des : e = inheritOwner(c, d)
    BY <1>8 DEF FromPlan
  <2>2. d \in W
    BY <1>4, <1>6
  <2>3. e.props = d.props
    BY <1>5, <2>1, <2>2 DEF inheritOwner
  <2>4. NameOf(e) = NameOf(d)
    BY <1>5, <2>1, <2>2, WithOwner DEF inheritOwner
  <2> QED
    BY <1>5, <2>2, <2>3, <2>4
<1>11. \A e \in ch.delete : <<"alias", "true">> \notin e.props /\ TargetsOf(e) # {}
  <2> SUFFICES ASSUME NEW e \in ch.delete PROVE e.props = {} /\ TargetsOf(e) # {}
    OBVIOUS
  <2>1. e \in reg /\ e.type \in ManagedTypes /\ e.owner = Me
    BY <1>6, <1>8 DEF FromPlan
  <2> QED
    BY <2>1, OwnListed
<1> QED
  BY <1>9, <1>10, <1>11 DEF ch

LEMMA OwnParts ==
    ASSUME NEW S, NEW P1, NEW p1 \in Seq(P1), \A c \in P1 : PutOK(S, c),
           NEW P2, NEW p2 \in Seq(P2), \A c \in P2 : PutOK(S, c),
           NEW D, NEW d \in Seq(D), \A c \in D : DropOK(c)
    PROVE  OwnScript(S, p1 \o p2 \o d)
<1> DEFINE P == P1 \cup P2
           p == p1 \o p2
<1>1. p1 \in Seq(P) /\ p2 \in Seq(P)
  BY SeqMonotonic
<1>2. \A c \in P : PutOK(S, c)
  OBVIOUS
<1> HIDE DEF P
<1>3. p \in Seq(P)
  BY <1>1, ConcatProperties
<1> HIDE DEF p
<1>4. OwnScript(S, p \o d)
  BY <1>2, <1>3 DEF OwnScript
<1> QED
  BY <1>4 DEF p

\* ApplyChanges of PowerDNS writes records with their ownership records, and removes them
\* together.
LEMMA ScriptOwn ==
    ASSUME Naming, NEW k \in Kinds, k = "pdns", Attributable(k), NEW S, InPlace(k, S), Unclaimed(k, S),
           OwnService(k, S), NEW W \in Desirable[k], NEW q, NEW tag
    PROVE  LET R == RecordsOf(k, S)
               all == RegistryChanges(k, R, Planned(k, R, W))
           IN  OwnScript(S, Script(k, S, all, q, tag))
<1> DEFINE R == RecordsOf(k, S)
           ch == Planned(k, R, W)
           there == {e.key : e \in OfType(R, "TXT")}
           C == {e \in WithTXT(ch.create) : e.type = "TXT" => e.key \notin there}
           all == [create |-> C, updateOld |-> WithTXT(ch.updateOld),
                   updateNew |-> WithTXT(ch.updateNew), delete |-> WithTXT(ch.delete)]
<1>1. k \in Covered /\ k \in TXTKinds /\ Sound(S)
  BY DEF Attributable, Owned, Covered, Exact, InPlace
<1>2. IsEps(R)
  BY <1>1, RecordsEps
<1>3. FineChanges(ManagedTypes, ch)
  BY <1>1, <1>2, PlanFine
<1>4. /\ \A e \in ch.create : /\ NonApex(NameOf(e)) /\ <<"alias", "true">> \notin e.props
                               /\ e.key = <<NameOf(e), "">>
      /\ \A e \in ch.updateNew : NonApex(NameOf(e)) /\ <<"alias", "true">> \notin e.props
      /\ \A e \in ch.delete : <<"alias", "true">> \notin e.props /\ TargetsOf(e) # {}
  BY <1>1, OwnPlan
<1>5. RegistryChanges(k, R, ch) = all
  BY <1>1 DEF RegistryChanges
<1> DEFINE a == mutateRecords(C, "REPLACE")
           b == mutateRecords(WithTXT(ch.updateNew), "REPLACE")
           d == mutateRecords(WithTXT(ch.delete), "DELETE")
<1>6. Script(k, S, all, q, tag) = a \o b \o d
  <2>1. Script(k, S, all, q, tag) = PDNS_ApplyChanges(all)
    BY DEF Script, ProviderScript, Inner
  <2>2. all.create = C /\ all.updateNew = WithTXT(ch.updateNew) /\ all.delete = WithTXT(ch.delete)
    OBVIOUS
  <2> HIDE DEF all
  <2> QED
    BY <2>1, <2>2 DEF PDNS_ApplyChanges
<1>7. Accompanied(S, C)
  <2>1. \A e \in ch.create : /\ IsEp(e) /\ e.type \in ManagedTypes /\ <<"alias", "true">> \notin e.props
                             /\ e.key = <<NameOf(e), "">> /\ NonApex(NameOf(e))
    BY <1>3, <1>4 DEF FineChanges, All
  <2> HIDE DEF ch, all, a, b, d
  <2> DEFINE E == ch.create
  <2>2. \A e \in E : /\ IsEp(e) /\ e.type \in ManagedTypes /\ <<"alias", "true">> \notin e.props
                     /\ e.key = <<NameOf(e), "">> /\ NonApex(NameOf(e))
    BY <2>1
  <2> HIDE DEF E
  <2>3. Accompanied(S, Created(R, E))
    BY <2>2, CreatesAccompanied
  <2>4. C = Created(R, E)
    BY DEF Created, E
  <2> QED
    BY <2>3, <2>4
<1> HIDE DEF ch, R
<1>8. /\ IsFiniteSet(ch.create) /\ IsFiniteSet(ch.updateNew) /\ IsFiniteSet(ch.delete)
      /\ \A e \in ch.create \cup ch.updateNew \cup ch.delete : IsEp(e) /\ e.type \in ManagedTypes
  BY <1>3 DEF FineChanges, FiniteChanges, All
<1>9. IsFiniteSet(C) /\ \A e \in C : IsEp(e) /\ e.type \in ManagedTypes \cup {"TXT"}
  <2>1. C \subseteq WithTXT(ch.create)
    OBVIOUS
  <2> HIDE DEF C
  <2>2. IsFiniteSet(WithTXT(ch.create))
        /\ \A e \in WithTXT(ch.create) : IsEp(e) /\ e.type \in ManagedTypes \cup {"TXT"}
    BY <1>8, WithOwnership
  <2> QED
    BY <2>1, <2>2, FiniteSubset
<1>14. ASSUME NEW E \in {ch.create, ch.updateNew}, NEW e \in WithTXT(E), e.type \in ManagedTypes
       PROVE  NonApex(NameOf(e))
  <2>1. "TXT" \notin ManagedTypes
    BY DEF Attributable, Owned
  <2>2. e \in E
    BY <1>8, <1>14, <2>1, NoTXT
  <2> QED
    BY <1>4, <2>2
<1>15. \A e \in C : e.type \in ManagedTypes => NonApex(NameOf(e))
  BY <1>14
<1> HIDE DEF C, there
<1>10. PICK P1 : a \in Seq(P1) /\ \A c \in P1 : PutOK(S, c)
  BY <1>7, <1>9, <1>15, PutsOK
<1>11. PICK P2 : b \in Seq(P2) /\ \A c \in P2 : PutOK(S, c)
  <2>1. Accompanied(S, WithTXT(ch.updateNew))
    BY <1>4, <1>8, WithTXTAccompanied
  <2>2. IsFiniteSet(WithTXT(ch.updateNew))
        /\ \A e \in WithTXT(ch.updateNew) : IsEp(e) /\ e.type \in ManagedTypes \cup {"TXT"}
    BY <1>8, WithOwnership
  <2>3. \A e \in WithTXT(ch.updateNew) : e.type \in ManagedTypes => NonApex(NameOf(e))
    BY <1>14
  <2> QED
    BY <2>1, <2>2, <2>3, PutsOK
<1>12. PICK D : d \in Seq(D) /\ \A c \in D : DropOK(c)
  BY <1>4, <1>8, DropsOK
<1> HIDE DEF a, b, d
<1>13. OwnScript(S, a \o b \o d)
  BY <1>10, <1>11, <1>12, OwnParts
<1> QED
  BY <1>5, <1>6, <1>13 DEF R, ch

\* The service, and what the calls that are left make of it.
OwnInv ==
    kind = "pdns" /\ Attributable(kind) =>
        OwnService(kind, svc) /\ OwnScript(svc, script) /\ stray = <<>>

LEMMA OwnInit == Init => OwnInv
  BY OwnEmpty DEF Init, OwnInv, OwnService

LEMMA OwnReconcile ==
    ASSUME Naming, TypeOK, LoopInv, OthersStay, OwnInv, kind = "pdns", Attributable(kind), Reconcile
    PROVE  OwnInv'
<1>1. kind \in Covered /\ kind \in Exact /\ Owned(kind) /\ Distinct(kind)
  BY DEF Covered, Exact, Attributable, Distinct
<1>2. kind' = kind /\ svc' = svc /\ stray' = stray
  BY <1>1, LoopReconcile DEF Reconcile
<1> DEFINE R == RecordsOf(kind, svc)
           all == RegistryChanges(kind, R, Planned(kind, R, want))
<1>3. \A run \in Runs : Listed(run) = R /\ run.base = svc
  BY <1>1, RunOf DEF OthersStay, Listed
<1>4. script' = Script(kind, svc, all, queue, MaxFaults - faults)
  BY <1>3 DEF Reconcile
<1>5. /\ kind \in Kinds /\ want \in Desirable[kind] /\ InPlace(kind, svc)
      /\ Unclaimed(kind, svc) /\ OwnService(kind, svc)
  BY <1>1 DEF TypeOK, LoopInv, OthersStay, Spares, OwnInv
<1>6. OwnScript(svc, Script(kind, svc, all, queue, MaxFaults - faults))
  BY <1>5, ScriptOwn
<1> HIDE DEF all
<1> QED
  BY <1>2, <1>4, <1>6 DEF OwnInv

LEMMA OwnNext ==
    ASSUME Naming, TypeOK, LoopInv, OthersStay, OwnInv, [Next]_vars
    PROVE  OwnInv'
<1>0. kind' = kind
  BY KindStays
<1> SUFFICES ASSUME kind = "pdns", Attributable(kind) PROVE OwnInv'
  BY <1>0 DEF OwnInv
<1>1. kind \in Covered
  BY DEF Covered, Exact
<1>2. Sound(svc) /\ OwnService(kind, svc) /\ OwnScript(svc, script) /\ stray = <<>>
  BY <1>1 DEF LoopInv, InPlace, OwnInv
<1>3. ASSUME svc' = svc, stray' = stray, script' \in {script, <<>>}
      PROVE  OwnInv'
  BY <1>0, <1>2, <1>3, OwnEmpty DEF OwnInv
<1>4. CASE Reconcile
  BY <1>4, OwnReconcile
<1>5. CASE UpToDate
  BY <1>1, <1>3, <1>5, RunOf DEF UpToDate
<1>6. CASE Look
  <2>1. script # <<>> /\ Head(script).later # {}
    BY <1>6 DEF Look
  <2> QED
    BY <1>1, <2>1, FitParts DEF LoopInv, FitCall
<1>7. CASE CallSucceeds \/ CallFails
  <2>1. /\ script # <<>> /\ stray' = stray /\ script' \in {<<>>, Tail(script)}
        /\ svc' \in {svc, Effect(svc, Head(script))}
    BY <1>1, <1>7, FailedCall DEF CallSucceeds, CallFails
  <2>2. /\ OwnService(kind, Effect(svc, Head(script)))
        /\ OwnScript(svc, Tail(script)) /\ OwnScript(Effect(svc, Head(script)), Tail(script))
    BY <1>2, <2>1, OwnCall
  <2>3. OwnScript(svc', script')
    BY <2>1, <2>2, OwnEmpty
  <2> QED
    BY <1>0, <1>2, <2>1, <2>2, <2>3 DEF OwnInv
<1>8. CASE Finish \/ Edit \/ Kill \/ Expire
  BY <1>3, <1>8 DEF Finish, Edit, Kill, Expire
<1>9. CASE Drift
  <2>1. OwnerOf(kind) # NoOwner
    BY DEF Attributable, Owned, OwnerOf, Me, NoOwner
  <2> QED
    BY <1>9, <2>1 DEF Drift
<1>10. CASE Disconnect
  BY <1>10 DEF Disconnect
<1>11. CASE StrayCall
  BY <1>2, <1>11 DEF StrayCall
<1>12. CASE UNCHANGED vars
  BY <1>3, <1>12 DEF vars
<1> QED
  BY <1>4, <1>5, <1>6, <1>7, <1>8, <1>9, <1>10, <1>11, <1>12 DEF Next

\* Where others have a record, this instance has none: its ownership record would claim it.
LEMMA OthersAlike ==
    ASSUME Naming, NEW k, k = "pdns", Attributable(k), NEW S, InitService[k] \subseteq S, Unclaimed(k, S),
           OwnService(k, S), NEW r \in InitService[k], ZoneWithId(r.zone).managed, r.type \in ManagedTypes
    PROVE  ListedAs(S, r) = ListedAs(InitService[k], r)
<1>1. k \notin Relatively
  BY DEF Relatively
<1>2. ASSUME NEW s \in S, SameSet(s, r) PROVE s \in InitService[k]
  <2> SUFFICES ASSUME s \notin InitService[k] PROVE FALSE
    OBVIOUS
  <2>1. s.zone = r.zone /\ s.name = r.name /\ s.type = r.type
    BY <1>2 DEF SameSet
  <2>2. PICK x \in S : x.type = "TXT" /\ x.zone = s.zone /\ x.name = OwnName(s)
    BY <2>1 DEF OwnService, Labelled, Tagged, Attributed
  <2>3. r.name \in TakenNames(k)
    BY <1>1 DEF TakenNames, WholeName
  <2>4. Shown(s.type) = r.type
    BY <2>1, LoopAssumption DEF Shown
  <2>5. r.type \in OwnTypes /\ x.name = ToTXTName(r.name, r.type)
    BY <2>1, <2>2, <2>4 DEF OwnTypes, OwnName
  <2>6. WholeName(k, x) = x.name
    BY <1>1 DEF WholeName
  <2> QED
    BY <2>1, <2>2, <2>3, <2>5, <2>6 DEF Unclaimed
<1>3. {x \in S : SameSet(x, r)} = {x \in InitService[k] : SameSet(x, r)}
  BY <1>2
<1>4. Alike(S, r) = Alike(InitService[k], r)
  BY <1>3 DEF Alike
<1> QED
  BY <1>4 DEF ListedAs

LEMMA OwnedHere ==
    ASSUME Naming, TypeOK, LoopInv, OthersStay, OwnInv, kind = "pdns", Attributable(kind)
    PROVE  OwnedTogether
<1> DEFINE R == RecordsOf(kind, svc)
           mine(f) == OwnershipTXT(f).key \in {o.key : o \in OfType(R, "TXT")}
<1>1. /\ kind \in Covered /\ kind \in TXTKinds /\ kind \in Exact /\ Distinct(kind) /\ Owned(kind)
      /\ \A r \in InitService[kind] : ZoneWithId(r.zone).managed => r.type # "ALIAS"
  BY DEF Covered, Exact, Attributable, Owned, Distinct
<1>2. /\ Sound(svc) /\ InitService[kind] \subseteq svc /\ Unclaimed(kind, svc) /\ OwnService(kind, svc)
  BY <1>1 DEF LoopInv, InPlace, OthersStay, Spares, OwnInv
<1>3. IsEps(R)
  BY <1>1, <1>2, RecordsEps
<1> SUFFICES ASSUME NEW e \in RegistryRecords(kind, R), e.type \in ManagedTypes,
                    e \notin RecordsOf(kind, InitService[kind])
             PROVE  e.owner = Me
  BY DEF OwnedTogether
<1>4. PICK f \in R : e = IF f.type \in ManagedTypes /\ mine(f) THEN [f EXCEPT !.owner = Me] ELSE f
  BY <1>1 DEF RegistryRecords
<1>5. IsEp(f) /\ f.type \in ManagedTypes
  <2>1. IsEp(f)
    BY <1>3 DEF IsEps
  <2> HIDE DEF mine
  <2> QED
    BY <1>4, <2>1, WithOwner
<1>6. ASSUME mine(f) \/ e # f PROVE e.owner = Me
  <2> HIDE DEF mine
  <2>1. e = [f EXCEPT !.owner = Me]
    BY <1>4, <1>5, <1>6
  <2> QED
    BY <1>5, <2>1 DEF IsEp
<1>7. PICK r \in svc : ZoneWithId(r.zone).managed /\ f = ListedAs(svc, r)
  BY PDNSLists
<1> DEFINE n == r.name
<1>8. f.key = <<n, "">> /\ NameOf(f) = n /\ f.type = Shown(r.type) /\ f.props = {}
  BY <1>7, ListedFields
<1>9. CASE r \in InitService[kind]
  <2>1. r.type \in ManagedTypes
    BY <1>1, <1>5, <1>7, <1>8, <1>9 DEF Shown
  <2>2. f = ListedAs(InitService[kind], r)
    BY <1>2, <1>7, <1>9, <2>1, OthersAlike
  <2>3. f \in RecordsOf(kind, InitService[kind])
    BY <1>7, <1>9, <2>2, PDNSLists
  <2> QED
    BY <1>6, <2>3
<1>10. CASE r \notin InitService[kind]
  <2>1. r.type \in Labelled
    BY <1>5, <1>8 DEF Labelled, Shown
  <2>2. PICK x \in svc : x.type = "TXT" /\ x.zone = r.zone /\ x.name = OwnName(r)
    BY <1>2, <1>10, <2>1 DEF OwnService, Tagged, Attributed
  <2> DEFINE o == OwnershipTXT(f)
             l == ListedAs(svc, x)
             m == x.name
  <2>3. m = ToTXTName(NameOf(f), f.type)
    BY <1>8, <2>2 DEF OwnName
  <2>4. o.key = <<NameOf(o), "">> /\ NameOf(o) = m
    <3> HIDE DEF n, m
    <3> QED
      BY <1>5, <1>8, <2>3, OwnershipOf
  <2>5. l \in R
    BY <1>7, <2>2, PDNSLists
  <2>6. l.key = <<m, "">> /\ l.type = "TXT"
    BY <2>2, ListedFields DEF Shown
  <2> HIDE DEF l, o, m, R
  <2>7. l \in OfType(R, "TXT") /\ o.key = l.key
    BY <2>4, <2>5, <2>6 DEF OfType
  <2>8. mine(f)
    BY <2>7 DEF o
  <2> QED
    BY <1>6, <2>8
<1> QED
  BY <1>9, <1>10

\* Below the TXT registry PowerDNS never has a record that this instance made without its
\* ownership record, whichever calls fail and whenever the process dies: a zone gets both in
\* one patch, and loses both in one.  It is about names below the apex of their zones: the
\* type before the first label of an apex gives a name outside the zone, and the ownership
\* record is not written.
THEOREM PDNSOwnedTogether ==
    ASSUME Naming
    PROVE  Spec /\ kind = "pdns" /\ Attributable(kind) => []OwnedTogether
<1>1. Init => OthersStay
  BY DEF Init, OthersStay, Spares, Avoids, Unclaimed, Owned
<1>2. kind = "pdns" /\ Attributable(kind) => kind \in Exact /\ Distinct(kind)
  BY DEF Exact, Attributable, Distinct
<1>3. TypeOK /\ LoopInv /\ OthersStay /\ kind \in Exact /\ Distinct(kind) /\ [Next]_vars => OthersStay'
  BY LoopContract
<1>4. kind = "pdns" /\ Attributable(kind) /\ [Next]_vars => (kind = "pdns" /\ Attributable(kind))'
  BY KindStays
<1>5. TypeOK /\ LoopInv /\ OthersStay /\ OwnInv /\ kind = "pdns" /\ Attributable(kind) => OwnedTogether
  BY OwnedHere
<1>6. TypeOK /\ LoopInv /\ [Next]_vars => LoopInv'
  BY LoopNext
<1>7. TypeOK /\ LoopInv /\ OthersStay /\ OwnInv /\ [Next]_vars => OwnInv'
  BY OwnNext
<1> QED
  BY <1>1, <1>2, <1>3, <1>4, <1>5, <1>6, <1>7, InitType, NextType, LoopInit, OwnInit, PTL DEF Spec

-----------------------------------------------------------------------------
(***************************************************************************)
(* --dry-run.  NoChangesMade does not hold for all providers: that of NS1  *)
(* does not get the option.  It does for these.                            *)
(***************************************************************************)

HeedDryRun ==
    {"akamai", "aws", "awssd", "azure", "azure-private", "civo", "cloudflare",
     "cloudflare-saas", "coredns", "coredns-strict", "digitalocean", "dnsimple", "exoscale",
     "gandi", "godaddy", "google", "linode", "oci", "ovh", "rfc2136", "scaleway", "transip"}

\* An error of ApplyChanges at most.
Refusals == {<<>>, <<Refuse("hard")>>, <<Refuse("soft")>>}

LEMMA DryScript ==
    ASSUME DryRun, NEW k \in HeedDryRun, NEW S, NEW ch, NEW q, NEW tag
    PROVE  Script(k, S, ch, q, tag) \in Refusals
<1>0. Script(k, S, ch, q, tag) = ProviderScript(k, S, ch, q, tag)
  BY DEF Script, Inner, HeedDryRun
<1>1. CASE k = "aws"
  <2>1. ProviderScript(k, S, ch, q, tag) = AWS_ApplyChanges(ch, q, tag)
    BY <1>1 DEF ProviderScript
  <2> QED
    BY <1>0, <2>1 DEF Refusals, AWS_ApplyChanges, AWS_submitChanges
<1>2. CASE k = "awssd"
  <2>1. ProviderScript(k, S, ch, q, tag) = AWSSD_ApplyChanges(S, ch)
    BY <1>2 DEF ProviderScript
  <2> QED
    BY <1>0, <2>1 DEF Refusals, AWSSD_ApplyChanges
<1>3. CASE k = "akamai"
  <2>1. ProviderScript(k, S, ch, q, tag) = Akamai_ApplyChanges(S, ch)
    BY <1>3 DEF ProviderScript
  <2> QED
    BY <1>0, <2>1 DEF Refusals, Akamai_ApplyChanges
<1>4. CASE k = "cloudflare"
  <2>1. ProviderScript(k, S, ch, q, tag) = Cloudflare_ApplyChanges(FALSE, ch)
    BY <1>4 DEF ProviderScript
  <2> QED
    BY <1>0, <2>1 DEF Refusals, Cloudflare_ApplyChanges
<1>5. CASE k = "cloudflare-saas"
  <2>1. ProviderScript(k, S, ch, q, tag) = Cloudflare_ApplyChanges(TRUE, ch)
    BY <1>5 DEF ProviderScript
  <2> QED
    BY <1>0, <2>1 DEF Refusals, Cloudflare_ApplyChanges
<1>6. CASE k = "coredns"
  <2>1. ProviderScript(k, S, ch, q, tag) = CoreDNS_ApplyChanges(FALSE, S, ch)
    BY <1>6 DEF ProviderScript
  <2> QED
    BY <1>0, <2>1 DEF Refusals, CoreDNS_ApplyChanges
<1>7. CASE k = "coredns-strict"
  <2>1. ProviderScript(k, S, ch, q, tag) = CoreDNS_ApplyChanges(TRUE, S, ch)
    BY <1>7 DEF ProviderScript
  <2> QED
    BY <1>0, <2>1 DEF Refusals, CoreDNS_ApplyChanges
<1>8. CASE k = "digitalocean"
  <2>1. ProviderScript(k, S, ch, q, tag) = DigitalOcean_ApplyChanges(S, ch)
    BY <1>8 DEF ProviderScript
  <2> QED
    BY <1>0, <2>1 DEF Refusals, DigitalOcean_ApplyChanges, DigitalOcean_submitChanges
<1>9. CASE k = "dnsimple"
  <2>1. ProviderScript(k, S, ch, q, tag) = DNSimple_ApplyChanges(ch)
    BY <1>9 DEF ProviderScript
  <2> QED
    BY <1>0, <2>1 DEF Refusals, DNSimple_ApplyChanges
<1>10. CASE k = "exoscale"
  <2>1. ProviderScript(k, S, ch, q, tag) = Exoscale_ApplyChanges(ch)
    BY <1>10 DEF ProviderScript
  <2> QED
    BY <1>0, <2>1 DEF Refusals, Exoscale_ApplyChanges
<1>11. CASE k = "gandi"
  <2>1. ProviderScript(k, S, ch, q, tag) = Gandi_ApplyChanges(ch)
    BY <1>11 DEF ProviderScript
  <2> QED
    BY <1>0, <2>1 DEF Refusals, Gandi_ApplyChanges
<1>12. CASE k = "godaddy"
  <2>1. ProviderScript(k, S, ch, q, tag) = GoDaddy_ApplyChanges(S, ch)
    BY <1>12 DEF ProviderScript
  <2> QED
    BY <1>0, <2>1 DEF Refusals, GoDaddy_ApplyChanges
<1>13. CASE k = "google"
  <2>1. ProviderScript(k, S, ch, q, tag) = Google_ApplyChanges(ch)
    BY <1>13 DEF ProviderScript
  <2> QED
    BY <1>0, <2>1 DEF Refusals, Google_ApplyChanges, Google_submitChange
<1>14. CASE k = "linode"
  <2>1. ProviderScript(k, S, ch, q, tag) = Linode_ApplyChanges(S, ch)
    BY <1>14 DEF ProviderScript
  <2> QED
    BY <1>0, <2>1 DEF Refusals, Linode_ApplyChanges, Linode_Submitted, Linode_submitChanges
<1>15. CASE k = "civo"
  <2>1. ProviderScript(k, S, ch, q, tag) = CivoApplyChanges(S, ch)
    BY <1>15 DEF ProviderScript
  <2> QED
    BY <1>0, <2>1 DEF Refusals, CivoApplyChanges, Linode_Submitted, Linode_submitChanges
<1>16. CASE k = "oci"
  <2>1. ProviderScript(k, S, ch, q, tag) = OCI_ApplyChanges(ch)
    BY <1>16 DEF ProviderScript
  <2> QED
    BY <1>0, <2>1 DEF Refusals, OCI_ApplyChanges
<1>17. CASE k = "ovh"
  <2>1. ProviderScript(k, S, ch, q, tag) = OVH_ApplyChanges(S, ch)
    BY <1>17 DEF ProviderScript
  <2> QED
    BY <1>0, <2>1 DEF Refusals, OVH_ApplyChanges
<1>18. CASE k = "rfc2136"
  <2>1. ProviderScript(k, S, ch, q, tag) = RFC2136_ApplyChanges(S, ch)
    BY <1>18 DEF ProviderScript
  <2> QED
    BY <1>0, <2>1 DEF Refusals, RFC2136_ApplyChanges
<1>19. CASE k = "scaleway"
  <2>1. ProviderScript(k, S, ch, q, tag) = Scaleway_ApplyChanges(S, ch)
    BY <1>19 DEF ProviderScript
  <2> QED
    BY <1>0, <2>1 DEF Refusals, Scaleway_ApplyChanges
<1>20. CASE k = "transip"
  <2>1. ProviderScript(k, S, ch, q, tag) = TransIP_ApplyChanges(ch)
    BY <1>20 DEF ProviderScript
  <2> QED
    BY <1>0, <2>1 DEF Refusals, TransIP_ApplyChanges
<1>21. CASE k = "azure"
  <2>1. ProviderScript(k, S, ch, q, tag) = Azure_ApplyChanges(ch)
    BY <1>21 DEF ProviderScript
  <2> QED
    BY <1>0, <2>1 DEF Refusals, Azure_ApplyChanges, deleteRecords, Azure_updateRecords
<1>22. CASE k = "azure-private"
  <2>1. ProviderScript(k, S, ch, q, tag) = Azure_PrivateApplyChanges(ch)
    BY <1>22 DEF ProviderScript
  <2> QED
    BY <1>0, <2>1 DEF Refusals, Azure_PrivateApplyChanges, deleteRecords, Azure_updateRecords
<1> QED
  BY <1>1, <1>2, <1>3, <1>4, <1>5, <1>6, <1>7, <1>8, <1>9, <1>10, <1>11, <1>12, <1>13, <1>14, <1>15, <1>16, <1>17, <1>18, <1>19, <1>20, <1>21, <1>22 DEF HeedDryRun

DryInv == DryRun /\ kind \in HeedDryRun => script \in Refusals /\ stray = <<>>

LEMMA RefusalCall ==
    ASSUME NEW s \in Refusals, s # <<>>
    PROVE  /\ Tail(s) = <<>> /\ Head(s).instead = <<>> /\ Head(s).later = {}
           /\ Head(s).onFail # "parallel"
           /\ \A S : Effect(S, Head(s)) = S
<1>1. PICK err \in {"hard", "soft"} : s = <<Refuse(err)>>
  BY DEF Refusals
<1> DEFINE c == Refuse(err)
<1>2. c.del = {} /\ c.clear = {} /\ c.add = {} /\ c.instead = <<>> /\ c.later = {}
      /\ c.onFail # "parallel"
  BY DEF Refuse, Call
<1>3. Tail(s) = <<>> /\ Head(s) = c
  BY <1>1
<1> HIDE DEF c
<1>4. \A S : Effect(S, c) = S
  BY <1>2 DEF Effect
<1> QED
  BY <1>2, <1>3, <1>4

LEMMA DryNext == DryInv /\ [Next]_vars => DryInv' /\ (DryRun /\ phase = "applying" /\ kind \in HeedDryRun => svc' = svc)
<1> SUFFICES ASSUME DryInv, [Next]_vars
             PROVE  DryInv' /\ (DryRun /\ phase = "applying" /\ kind \in HeedDryRun => svc' = svc)
  OBVIOUS
<1>0. kind' = kind
  BY KindStays
<1> SUFFICES ASSUME DryRun, kind \in HeedDryRun
             PROVE  (script \in Refusals /\ stray = <<>>)' /\ (phase = "applying" => svc' = svc)
  BY <1>0 DEF DryInv
<1>1. script \in Refusals /\ stray = <<>> /\ <<>> \in Refusals
  BY DEF DryInv, Refusals
<1>2. CASE Reconcile
  <2>1. phase # "applying" /\ stray' = stray
    BY <1>2 DEF Reconcile
  <2>2. \E S, all : script' = Script(kind, S, all, queue, MaxFaults - faults)
    BY <1>2 DEF Reconcile
  <2> QED
    BY <1>1, <2>1, <2>2, DryScript
<1>3. CASE UpToDate
  BY <1>1, <1>3 DEF UpToDate
<1>4. CASE Look
  <2>1. script # <<>> /\ Head(script).later # {}
    BY <1>4 DEF Look
  <2> QED
    BY <1>1, <2>1, RefusalCall
<1>5. CASE CallSucceeds
  BY <1>1, <1>5, RefusalCall DEF CallSucceeds
<1>6. CASE CallFails
  <2>1. script # <<>> /\ svc' \in {svc, Effect(svc, Head(script))} /\ stray' = stray
    BY <1>6 DEF CallFails
  <2>2. /\ Tail(script) = <<>> /\ Head(script).instead = <<>> /\ Effect(svc, Head(script)) = svc
        /\ Head(script).onFail # "parallel"
    BY <1>1, <2>1, RefusalCall
  <2>3. script' = <<>>
    BY <1>6, <2>2 DEF CallFails, AfterFailure
  <2> QED
    BY <1>1, <2>1, <2>2, <2>3
<1>7. CASE Finish \/ Edit \/ Expire
  BY <1>1, <1>7 DEF Finish, Edit, Expire
<1>8. CASE Drift
  BY <1>1, <1>8 DEF Drift
<1>9. CASE Kill
  BY <1>1, <1>9 DEF Kill
<1>10. CASE Disconnect
  BY <1>10 DEF Disconnect, HeedDryRun
<1>11. CASE StrayCall
  BY <1>1, <1>11 DEF StrayCall
<1>12. CASE UNCHANGED vars
  BY <1>1, <1>12 DEF vars
<1> QED
  BY <1>2, <1>3, <1>4, <1>5, <1>6, <1>7, <1>8, <1>9, <1>10, <1>11, <1>12 DEF Next

\* With --dry-run ApplyChanges of these providers leaves the service as it is, whatever
\* the plan.
THEOREM DryRunHeeded ==
    Spec /\ kind \in HeedDryRun => NoChangesMade
<1>1. Init => DryInv
  BY DEF Init, DryInv, Refusals
<1>2. DryInv /\ kind \in HeedDryRun /\ [Next]_vars
          => DryInv' /\ [DryRun /\ phase = "applying" => svc' = svc]_vars
  BY DryNext
<1>3. kind \in HeedDryRun /\ [Next]_vars => (kind \in HeedDryRun)'
  BY KindStays
<1> QED
  BY <1>1, <1>2, <1>3, PTL DEF Spec, NoChangesMade

=============================================================================
