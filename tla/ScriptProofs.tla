--------------------------- MODULE ScriptProofs ---------------------------
(***************************************************************************)
(* What ApplyChanges of the providers does to the service, for every plan: *)
(* the calls of each script, taken apart.  A script is put together by     *)
(* folds over sets; the first lemmas say what such a list holds.           *)
(***************************************************************************)
EXTENDS ProviderLoop, FiniteSetTheorems, SequenceTheorems, WellFoundedInduction, TLAPS

-----------------------------------------------------------------------------
(***************************************************************************)
(* Finite sets.                                                            *)
(***************************************************************************)

\* A set of natural numbers that is not empty has a least member.
LEMMA Least ==
    ASSUME NEW T, T \subseteq Nat, T # {}
    PROVE  \E m \in T : \A n \in T : ~(n < m)
<1> DEFINE R == {ss \in Nat \X Nat : ss[1] < ss[2]}
<1>1. IsWellFoundedOn(R, Nat)
  BY NatLessThanWellFounded DEF OpToRel
<1>2. PICK m \in T : \A n \in T : ~(<<n, m>> \in R)
  <2> HIDE DEF R
  <2> QED
    BY <1>1, WFMin
<1> QED
  BY <1>2

\* The values of a function with a finite domain are finitely many.
LEMMA FiniteImage ==
    ASSUME NEW f, IsFiniteSet(DOMAIN f)
    PROVE  IsFiniteSet({f[x] : x \in DOMAIN f})
<1> DEFINE g == [x \in DOMAIN f |-> f[x]]
<1>1. g \in Surjection(DOMAIN f, {f[x] : x \in DOMAIN f})
  BY DEF Surjection
<1> QED
  BY <1>1, FS_Surjection

LEMMA FiniteSubset ==
    ASSUME NEW S, IsFiniteSet(S), NEW T, T \subseteq S
    PROVE  IsFiniteSet(T)
  BY FS_Subset

-----------------------------------------------------------------------------
(***************************************************************************)
(* Concat.  The recursive function in its definition exists for a finite   *)
(* domain: there is one on the sets of at most n members, for every n, or  *)
(* else there is a least n without.                                        *)
(***************************************************************************)

One(s) == CHOOSE x \in s : TRUE

Joins(g, f, D) ==
    g = [s \in D |-> IF s = {} THEN <<>> ELSE g[s \ {One(s)}] \o f[One(s)]]

LEMMA ConcatIs ==
    ASSUME NEW f
    PROVE  Concat(f) = (CHOOSE g : Joins(g, f, SUBSET DOMAIN f))[DOMAIN f]
  BY DEF Concat, FoldSet, MapThenFoldSet, Joins, One

Small(S, n) == {s \in SUBSET S : Cardinality(s) <= n}

LEMMA OneSmaller ==
    ASSUME NEW S, IsFiniteSet(S), NEW n \in Nat, NEW s \in Small(S, n), s # {}
    PROVE  /\ One(s) \in s
           /\ n > 0 /\ s \ {One(s)} \in Small(S, n - 1)
<1>1. One(s) \in s
  BY DEF One
<1>2. IsFiniteSet(s)
  BY FS_Subset DEF Small
<1>3. Cardinality(s) \in Nat /\ Cardinality(s \ {One(s)}) = Cardinality(s) - 1 /\ Cardinality(s) # 0
  BY <1>1, <1>2, FS_RemoveElement, FS_CardinalityType, FS_EmptySet
<1> QED
  BY <1>1, <1>3 DEF Small

LEMMA JoinsExists ==
    ASSUME NEW f, IsFiniteSet(DOMAIN f), NEW n \in Nat
    PROVE  \E g : Joins(g, f, Small(DOMAIN f, n))
<1> DEFINE S == DOMAIN f
           Bad == {k \in Nat : ~\E g : Joins(g, f, Small(S, k))}
<1> SUFFICES ASSUME Bad # {} PROVE FALSE
  OBVIOUS
<1>1. PICK m \in Bad : \A k \in Bad : ~(k < m)
  <2>1. Bad \subseteq Nat
    OBVIOUS
  <2> HIDE DEF Bad
  <2> QED
    BY <2>1, Least
<1>2. CASE m = 0
  <2> DEFINE g == [s \in Small(S, 0) |-> <<>>]
  <2>1. ASSUME NEW s \in Small(S, 0), s # {} PROVE FALSE
    <3>1. 0 > 0
      <4> HIDE DEF S
      <4>1. IsFiniteSet(S)
        BY DEF S
      <4> QED
        BY <2>1, <4>1, OneSmaller
    <3> QED
      BY <3>1
  <2>2. Joins(g, f, Small(S, 0))
    BY <2>1 DEF Joins
  <2> QED
    BY <1>2, <2>2
<1>3. CASE m # 0
  <2>1. m - 1 \in Nat /\ m - 1 < m
    BY <1>3
  <2>2. PICK g : Joins(g, f, Small(S, m - 1))
    BY <1>1, <2>1
  <2> DEFINE h == [s \in Small(S, m) |-> IF s = {} THEN <<>> ELSE g[s \ {One(s)}] \o f[One(s)]]
  <2>3. Small(S, m - 1) \subseteq Small(S, m)
    <3> SUFFICES ASSUME NEW s \in Small(S, m - 1) PROVE Cardinality(s) <= m
      BY DEF Small
    <3>1. Cardinality(s) \in Nat
      BY FS_Subset, FS_CardinalityType DEF Small
    <3> QED
      BY <2>1, <3>1 DEF Small
  <2>4. ASSUME NEW s \in Small(S, m - 1)
        PROVE  h[s] = g[s]
    BY <2>2, <2>3, <2>4 DEF Joins
  <2>5. ASSUME NEW s \in Small(S, m), s # {}
        PROVE  h[s] = h[s \ {One(s)}] \o f[One(s)]
    BY <2>4, <2>5, OneSmaller
  <2>6. Joins(h, f, Small(S, m))
    <3> HIDE DEF S
    <3>1. h = [s \in Small(S, m) |-> h[s]] 
      OBVIOUS
    <3>2. \A s \in Small(S, m) : h[s] = IF s = {} THEN <<>> ELSE h[s \ {One(s)}] \o f[One(s)]
      BY <2>5
    <3> HIDE DEF h
    <3> QED
      BY <3>1, <3>2 DEF Joins
  <2> QED
    BY <2>6
<1> QED
  BY <1>2, <1>3

LEMMA ConcatSeq ==
    ASSUME NEW f, IsFiniteSet(DOMAIN f), NEW V, \A x \in DOMAIN f : f[x] \in Seq(V)
    PROVE  Concat(f) \in Seq(V)
<1> DEFINE S == DOMAIN f
           N == Cardinality(S)
           g == CHOOSE g : Joins(g, f, SUBSET S)
<1>0. N \in Nat
  BY FS_CardinalityType
<1>1. Small(S, N) = SUBSET S
  <2> SUFFICES ASSUME NEW s \in SUBSET S PROVE Cardinality(s) <= N
    BY DEF Small
  <2> QED
    BY FS_Subset
<1>2. Joins(g, f, SUBSET S)
  <2>1. \E h : Joins(h, f, Small(S, N))
    <3> HIDE DEF N
    <3> QED
      BY <1>0, JoinsExists
  <2>2. \E h : Joins(h, f, SUBSET S)
    BY <1>1, <2>1
  <2> QED
    BY <2>2
<1> DEFINE Bad == {k \in Nat : \E s \in Small(S, k) : g[s] \notin Seq(V)}
<1>3. Bad = {}
  <2> SUFFICES ASSUME Bad # {} PROVE FALSE
    OBVIOUS
  <2>1. PICK m \in Bad : \A k \in Bad : ~(k < m)
    <3>1. Bad \subseteq Nat
      OBVIOUS
    <3> HIDE DEF Bad
    <3> QED
      BY <3>1, Least
  <2>2. PICK s \in Small(S, m) : g[s] \notin Seq(V)
    BY <2>1
  <2>3. s \in SUBSET S
    BY DEF Small
  <2>4. g[s] = IF s = {} THEN <<>> ELSE g[s \ {One(s)}] \o f[One(s)]
    <3> HIDE DEF g
    <3> QED
      BY <1>2, <2>3 DEF Joins
  <2> HIDE DEF g
  <2>5. CASE s = {}
    BY <2>2, <2>4, <2>5
  <2>6. CASE s # {}
    <3>1. One(s) \in s /\ m > 0 /\ s \ {One(s)} \in Small(S, m - 1)
      BY <2>1, <2>6, OneSmaller
    <3>2. m - 1 \in Nat /\ m - 1 < m
      BY <2>1, <3>1
    <3>3. g[s \ {One(s)}] \in Seq(V)
      BY <2>1, <3>1, <3>2
    <3>4. f[One(s)] \in Seq(V)
      BY <2>3, <3>1
    <3> QED
      BY <2>2, <2>4, <2>6, <3>3, <3>4
  <2> QED
    BY <2>5, <2>6
<1>4. g[S] \in Seq(V)
  <2> HIDE DEF g
  <2> QED
    BY <1>0, <1>1, <1>3
<1> QED
  BY <1>4, ConcatIs

-----------------------------------------------------------------------------
(***************************************************************************)
(* Names and zones.                                                        *)
(***************************************************************************)

Label == STRING
DNSName == Seq(Label)

\* What is before a suffix, and the suffix.
LEMMA SuffixJoins ==
    ASSUME NEW m \in DNSName, NEW n \in DNSName, IsSuffix(m, n)
    PROVE  /\ Len(m) <= Len(n)
           /\ SubSeq(n, 1, Len(n) - Len(m)) \in DNSName
           /\ SubSeq(n, 1, Len(n) - Len(m)) \o m = n
<1> DEFINE a == Len(m)  b == Len(n)
<1>1. a \in Nat /\ b \in Nat /\ DOMAIN m = 1 .. a /\ DOMAIN n = 1 .. b
  BY DEF DNSName
<1>2. Len(Reverse(m)) = a /\ Len(Reverse(n)) = b
  BY <1>1 DEF Reverse
<1>3. a <= b /\ SubSeq(Reverse(m), 1, a) = SubSeq(Reverse(n), 1, a)
  BY <1>2 DEF IsSuffix, IsPrefix
<1>4. \A i \in 1 .. a : m[i] = n[b - a + i]
  <2> SUFFICES ASSUME NEW i \in 1 .. a PROVE m[i] = n[b - a + i]
    OBVIOUS
  <2> DEFINE j == a - i + 1
  <2>1. j \in 1 .. a /\ j \in 1 .. b
    BY <1>1, <1>3
  <2>2. SubSeq(Reverse(m), 1, a)[j] = Reverse(m)[j] /\ SubSeq(Reverse(n), 1, a)[j] = Reverse(n)[j]
    BY <1>1, <2>1
  <2>3. Reverse(m)[j] = m[(a - j) + 1] /\ Reverse(n)[j] = n[(b - j) + 1]
    BY <2>1 DEF Reverse
  <2>4. (a - j) + 1 = i /\ (b - j) + 1 = b - a + i
    BY <1>1
  <2> HIDE DEF j
  <2> QED
    BY <1>3, <2>2, <2>3, <2>4
<1> DEFINE u == SubSeq(n, 1, b - a)
<1>5. \A i \in 1 .. (b - a) : n[i] \in Label
  BY <1>1, ElementOfSeq DEF DNSName
<1>6. /\ u \in Seq(Label) /\ Len(u) = b - a
      /\ \A i \in 1 .. (b - a) : u[i] = n[i]
  <2> DEFINE w == b - a
  <2>1. w \in Int /\ 1 \in Int /\ w >= 0 /\ \A i \in 1 .. w : n[i] \in Label
    BY <1>1, <1>3, <1>5
  <2>2. /\ SubSeq(n, 1, w) \in Seq(Label) /\ Len(SubSeq(n, 1, w)) = (IF 1 <= w THEN w - 1 + 1 ELSE 0)
        /\ \A i \in 1 .. w - 1 + 1 : SubSeq(n, 1, w)[i] = n[1 + i - 1]
    <3> HIDE DEF w
    <3> QED
      BY <2>1, SubSeqProperties
  <2>3. u = SubSeq(n, 1, w)
    OBVIOUS
  <2> HIDE DEF u, w
  <2>4. u \in Seq(Label) /\ Len(u) = w /\ \A i \in 1 .. w : u[i] = n[i]
    BY <2>1, <2>2, <2>3
  <2> QED
    BY <2>4 DEF w
<1> HIDE DEF u
<1>7. /\ u \o m \in Seq(Label) /\ Len(u \o m) = b
      /\ \A i \in 1 .. b : (u \o m)[i] = IF i <= b - a THEN u[i] ELSE m[i - (b - a)]
  <2>1. u \in Seq(Label) /\ m \in Seq(Label)
    BY <1>6 DEF DNSName
  <2>2. /\ u \o m \in Seq(Label) /\ Len(u \o m) = Len(u) + Len(m)
        /\ \A i \in 1 .. Len(u) + Len(m) : (u \o m)[i] = IF i <= Len(u) THEN u[i] ELSE m[i - Len(u)]
    BY <2>1, ConcatProperties
  <2>3. Len(u) = b - a /\ Len(m) = a /\ (b - a) + a = b
    BY <1>1, <1>6
  <2> HIDE DEF a, b
  <2> QED
    BY <2>2, <2>3
<1>8. \A i \in 1 .. b : (u \o m)[i] = n[i]
  <2> SUFFICES ASSUME NEW i \in 1 .. b PROVE (u \o m)[i] = n[i]
    OBVIOUS
  <2>1. CASE i <= b - a
    BY <1>1, <1>3, <1>6, <1>7, <2>1
  <2>2. CASE ~(i <= b - a)
    <3>1. i - (b - a) \in 1 .. a /\ b - a + (i - (b - a)) = i
      BY <1>1, <1>3, <2>2
    <3>2. (u \o m)[i] = m[i - (b - a)]
      BY <1>7, <2>2
    <3> QED
      BY <1>4, <3>1, <3>2
  <2> QED
    BY <2>1, <2>2
<1>9. u \o m = n
  BY <1>7, <1>8, SeqEqual DEF DNSName
<1> QED
  BY <1>3, <1>6, <1>9 DEF u, DNSName

LEMMA ZoneNames ==
    ASSUME NEW z \in Zones
    PROVE  z.name \in DNSName /\ ZoneWithId(z.id) = z
<1>1. z.name \in DNSName
  BY ZoneAssumption, SeqMonotonic DEF DNSName, Label
<1>2. \A y \in Zones : y.id = z.id => y = z
  BY ZoneAssumption
<1> QED
  BY <1>1, <1>2 DEF ZoneWithId

\* Of the zones that a name is in, FindZone takes one of the longest.
LEMMA Found ==
    ASSUME NEW n, NEW z \in FindZone(ManagedZones, n)
    PROVE  /\ z \in ManagedZones /\ z \in Zones /\ z.managed
           /\ InZone(n, z)
           /\ \A y \in ManagedZones : InZone(n, y) => Len(y.name) <= Len(z.name)
  BY DEF FindZone, ManagedZones

LEMMA RelativeName ==
    ASSUME NEW n \in DNSName, NEW z \in Zones, InZone(n, z)
    PROVE  Relative(n, z) \in DNSName /\ Full(Relative(n, z), z) = n
  BY ZoneNames, SuffixJoins DEF InZone, Relative, Full

LEMMA InByZone ==
    ASSUME NEW E, NEW p \in ByZone(E)
    PROVE  p = <<p[1], p[2]>> /\ p[2] \in E /\ p[1] \in FindZone(ManagedZones, NameOf(p[2]))
  BY DEF ByZone

LEMMA ByZoneFinite ==
    ASSUME NEW E, IsFiniteSet(E)
    PROVE  IsFiniteSet(ByZone(E)) /\ IsFiniteSet(ManagedZones)
<1>1. IsFiniteSet(ManagedZones)
  BY ZoneAssumption, FiniteSubset DEF ManagedZones
<1>2. ByZone(E) \subseteq ManagedZones \X E
  <2> SUFFICES ASSUME NEW p \in ByZone(E) PROVE p \in ManagedZones \X E
    OBVIOUS
  <2> QED
    BY InByZone, Found
<1>3. IsFiniteSet(ManagedZones \X E)
  BY <1>1, FS_Product
<1> QED
  BY <1>1, <1>2, <1>3, FiniteSubset

-----------------------------------------------------------------------------
(***************************************************************************)
(* Scripts.  A call is good if all it adds belongs to the endpoints E: to  *)
(* the zone, the name and the type of one of them.  For most providers the *)
(* same is shown of what it removes.                                       *)
(***************************************************************************)

Placed(k, E, r) ==
    \E e \in E : \E z \in FindZone(ManagedZones, NameOf(e)) :
        /\ r.zone = z.id
        /\ r.name = IF k \in Relatively THEN Relative(NameOf(e), z) ELSE NameOf(e)
        /\ r.type = e.type \/ (r.type = "ALIAS" /\ e.type = "CNAME")

Exact == {"akamai", "azure", "azure-private", "cached", "civo", "digitalocean", "linode",
          "ns1", "oci", "pdns", "scaleway", "webhook"}

GoodCall(k, E, c) ==
    /\ IsFiniteSet(c.add)
    /\ \A r \in c.add : Placed(k, E, r)
    /\ k \in Exact => \A r \in c.del \cup c.clear : Placed(k, E, r)
    /\ c.instead = <<>> /\ c.later = {} /\ c.onFail # "parallel"
    /\ "clear" \in DOMAIN c /\ "del" \in DOMAIN c /\ "add" \in DOMAIN c
    /\ "instead" \in DOMAIN c /\ "later" \in DOMAIN c /\ "onFail" \in DOMAIN c

GoodScript(k, E, s) == \E V : s \in Seq(V) /\ \A c \in V : GoodCall(k, E, c)

LEMMA GoodEmpty ==
    ASSUME NEW k, NEW E
    PROVE  GoodScript(k, E, <<>>)
<1> DEFINE s == <<>>
           V == {}
<1>1. s \in Seq(V) /\ \A d \in V : GoodCall(k, E, d)
  OBVIOUS
<1> HIDE DEF s, V
<1>2. GoodScript(k, E, s)
  BY <1>1 DEF GoodScript
<1> QED
  BY <1>2 DEF s

LEMMA GoodSingle ==
    ASSUME NEW k, NEW E, NEW c, GoodCall(k, E, c)
    PROVE  GoodScript(k, E, <<c>>)
<1> DEFINE s == <<c>>
           V == {c}
<1>1. s \in Seq(V) /\ \A d \in V : GoodCall(k, E, d)
  OBVIOUS
<1> HIDE DEF s, V
<1>2. GoodScript(k, E, s)
  BY <1>1 DEF GoodScript
<1> QED
  BY <1>2 DEF s

LEMMA GoodJoin ==
    ASSUME NEW k, NEW E, NEW s, NEW t, GoodScript(k, E, s), GoodScript(k, E, t)
    PROVE  GoodScript(k, E, s \o t)
<1>1. PICK V : s \in Seq(V) /\ \A c \in V : GoodCall(k, E, c)
  BY DEF GoodScript
<1>2. PICK W : t \in Seq(W) /\ \A c \in W : GoodCall(k, E, c)
  BY DEF GoodScript
<1>3. s \in Seq(V \cup W) /\ t \in Seq(V \cup W)
  BY <1>1, <1>2, SeqMonotonic
<1>4. s \o t \in Seq(V \cup W)
  BY <1>3, ConcatProperties
<1> QED
  BY <1>1, <1>2, <1>4 DEF GoodScript

LEMMA GoodConcat ==
    ASSUME NEW k, NEW E, NEW f, IsFiniteSet(DOMAIN f),
           \A x \in DOMAIN f : GoodScript(k, E, f[x])
    PROVE  GoodScript(k, E, Concat(f))
<1> DEFINE Of(x) == CHOOSE V : f[x] \in Seq(V) /\ \A c \in V : GoodCall(k, E, c)
           W == UNION {Of(x) : x \in DOMAIN f}
<1>1. \A x \in DOMAIN f : f[x] \in Seq(Of(x)) /\ \A c \in Of(x) : GoodCall(k, E, c)
  <2> SUFFICES ASSUME NEW x \in DOMAIN f
               PROVE  f[x] \in Seq(Of(x)) /\ \A c \in Of(x) : GoodCall(k, E, c)
    OBVIOUS
  <2>1. \E V : f[x] \in Seq(V) /\ \A c \in V : GoodCall(k, E, c)
    BY DEF GoodScript
  <2> QED
    BY <2>1
<1> HIDE DEF Of
<1>2. \A x \in DOMAIN f : f[x] \in Seq(W)
  BY <1>1, SeqMonotonic
<1>3. \A c \in W : GoodCall(k, E, c)
  BY <1>1
<1> HIDE DEF W
<1>4. Concat(f) \in Seq(W)
  BY <1>2, ConcatSeq
<1> QED
  BY <1>3, <1>4 DEF GoodScript

\* One call for each index.
LEMMA GoodEach ==
    ASSUME NEW k, NEW E, NEW f, IsFiniteSet(DOMAIN f),
           \A x \in DOMAIN f : \E c : f[x] = <<c>> /\ GoodCall(k, E, c)
    PROVE  GoodScript(k, E, Concat(f))
<1>1. \A x \in DOMAIN f : GoodScript(k, E, f[x])
  BY GoodSingle
<1> QED
  BY <1>1, GoodConcat

\* The usual calls, on sets of records that belong to E.
LEMMA GoodCalls ==
    ASSUME NEW k, NEW E, NEW R, IsFiniteSet(R), \A r \in R : Placed(k, E, r), NEW how, how # "parallel"
    PROVE  /\ GoodCall(k, E, Add(R, how)) /\ GoodCall(k, E, Put(R, how))
           /\ GoodCall(k, E, Drop(R, how)) /\ GoodCall(k, E, Del(R, how))
           /\ GoodCall(k, E, Refuse(how))
  BY FS_EmptySet DEF GoodCall, Add, Put, Drop, Del, Refuse, Call

-----------------------------------------------------------------------------
(***************************************************************************)
(* The records of an endpoint.                                             *)
(***************************************************************************)

LEMMA NamedPlaced ==
    ASSUME NEW k, k \notin Relatively, NEW E, NEW p \in ByZone(E), NEW ttl
    PROVE  /\ IsFiniteSet(NamedRecordsFor(p[1], p[2], ttl))
           /\ \A r \in NamedRecordsFor(p[1], p[2], ttl) : Placed(k, E, r)
<1> DEFINE f == [t \in TargetsOf(p[2]) |-> RR(p[1].id, NameOf(p[2]), "", p[2].type, t, ttl, {})]
<1>1. IsFiniteSet(TargetsOf(p[2]))
  BY ZoneAssumption, FiniteSubset DEF TargetsOf
<1>2. NamedRecordsFor(p[1], p[2], ttl) = {f[x] : x \in DOMAIN f}
  BY DEF NamedRecordsFor
<1>3. DOMAIN f = TargetsOf(p[2])
  OBVIOUS
<1>4. IsFiniteSet({f[x] : x \in DOMAIN f})
  <2> HIDE DEF f
  <2> QED
    BY <1>1, <1>3, FiniteImage
<1>5. \A r \in NamedRecordsFor(p[1], p[2], ttl) :
          r.zone = p[1].id /\ r.name = NameOf(p[2]) /\ r.type = p[2].type
  <2> SUFFICES ASSUME NEW t \in TargetsOf(p[2]), NEW r, r = RR(p[1].id, NameOf(p[2]), "", p[2].type, t, ttl, {})
               PROVE  r.zone = p[1].id /\ r.name = NameOf(p[2]) /\ r.type = p[2].type
    BY DEF NamedRecordsFor
  <2> QED
    BY DEF RR
<1>6. p[2] \in E /\ p[1] \in FindZone(ManagedZones, NameOf(p[2]))
  BY InByZone
<1> QED
  BY <1>2, <1>4, <1>5, <1>6 DEF Placed

LEMMA RelativelyPlaced ==
    ASSUME NEW k, k \in Relatively, NEW E, NEW p \in ByZone(E), NEW ttl
    PROVE  /\ IsFiniteSet(RecordsFor(p[1], p[2], ttl))
           /\ \A r \in RecordsFor(p[1], p[2], ttl) : Placed(k, E, r)
<1> DEFINE f == [t \in TargetsOf(p[2]) |->
                    RR(p[1].id, Relative(NameOf(p[2]), p[1]), "", p[2].type, t, ttl, {})]
<1>1. IsFiniteSet(TargetsOf(p[2]))
  BY ZoneAssumption, FiniteSubset DEF TargetsOf
<1>2. RecordsFor(p[1], p[2], ttl) = {f[x] : x \in DOMAIN f}
  BY DEF RecordsFor
<1>3. DOMAIN f = TargetsOf(p[2])
  OBVIOUS
<1>4. IsFiniteSet({f[x] : x \in DOMAIN f})
  <2> HIDE DEF f
  <2> QED
    BY <1>1, <1>3, FiniteImage
<1>5. \A r \in RecordsFor(p[1], p[2], ttl) :
          r.zone = p[1].id /\ r.name = Relative(NameOf(p[2]), p[1]) /\ r.type = p[2].type
  <2> SUFFICES ASSUME NEW t \in TargetsOf(p[2]), NEW r,
                      r = RR(p[1].id, Relative(NameOf(p[2]), p[1]), "", p[2].type, t, ttl, {})
               PROVE  r.zone = p[1].id /\ r.name = Relative(NameOf(p[2]), p[1]) /\ r.type = p[2].type
    BY DEF RecordsFor
  <2> QED
    BY DEF RR
<1>6. p[2] \in E /\ p[1] \in FindZone(ManagedZones, NameOf(p[2]))
  BY InByZone
<1> QED
  BY <1>2, <1>4, <1>5, <1>6 DEF Placed

LEMMA MatchingPlaced ==
    ASSUME NEW k, k \in Relatively, NEW E, NEW p \in ByZone(E), NEW S, IsFiniteSet(S)
    PROVE  /\ IsFiniteSet(Matching(S, p[1], p[2]))
           /\ \A r \in Matching(S, p[1], p[2]) : Placed(k, E, r)
<1>1. IsFiniteSet(Matching(S, p[1], p[2]))
  BY FiniteSubset DEF Matching
<1>2. p[2] \in E /\ p[1] \in FindZone(ManagedZones, NameOf(p[2]))
  BY InByZone
<1> QED
  BY <1>1, <1>2 DEF Placed, Matching

\* What belongs to some of the endpoints belongs to all.
LEMMA PlacedMore ==
    ASSUME NEW k, NEW E, NEW F, E \subseteq F, NEW r, Placed(k, E, r)
    PROVE  Placed(k, F, r)
  BY DEF Placed

LEMMA ByZoneMore ==
    ASSUME NEW E, NEW F, E \subseteq F
    PROVE  ByZone(E) \subseteq ByZone(F)
  BY DEF ByZone

\* The endpoints of one zone.
LEMMA OfZone ==
    ASSUME NEW E, IsFiniteSet(E), NEW z
    PROVE  /\ IsFiniteSet({p[2] : p \in {q \in ByZone(E) : q[1] = z}})
           /\ \A e \in {p[2] : p \in {q \in ByZone(E) : q[1] = z}} : <<z, e>> \in ByZone(E)
<1> DEFINE O == {p[2] : p \in {q \in ByZone(E) : q[1] = z}}
<1>1. \A p \in ByZone(E) : p = <<p[1], p[2]>> /\ p[2] \in E
  BY InByZone
<1>2. O \subseteq E /\ \A e \in O : <<z, e>> \in ByZone(E)
  BY <1>1
<1> QED
  BY <1>2, FiniteSubset

LEMMA PlacedUnion ==
    ASSUME NEW k, NEW E, NEW f, IsFiniteSet(DOMAIN f),
           \A x \in DOMAIN f : IsFiniteSet(f[x]) /\ \A r \in f[x] : Placed(k, E, r)
    PROVE  /\ IsFiniteSet(UNION {f[x] : x \in DOMAIN f})
           /\ \A r \in UNION {f[x] : x \in DOMAIN f} : Placed(k, E, r)
<1>1. IsFiniteSet({f[x] : x \in DOMAIN f})
  BY FiniteImage
<1>2. \A T \in {f[x] : x \in DOMAIN f} : IsFiniteSet(T)
  OBVIOUS
<1> QED
  BY <1>1, <1>2, FS_UNION

All(ch) == ch.create \cup ch.updateOld \cup ch.updateNew \cup ch.delete

FiniteChanges(ch) ==
    /\ IsFiniteSet(ch.create) /\ IsFiniteSet(ch.updateOld)
    /\ IsFiniteSet(ch.updateNew) /\ IsFiniteSet(ch.delete)

-----------------------------------------------------------------------------
(***************************************************************************)
(* The providers: what ApplyChanges writes belongs to the plan.            *)
(***************************************************************************)

LEMMA NS1Good ==
    ASSUME NEW ch, FiniteChanges(ch), NEW k, k \notin Relatively
    PROVE  GoodScript(k, All(ch), NS1_ApplyChanges(ch))
<1> DEFINE of(E, z) == {p[2] : p \in {q \in ByZone(E) : q[1] = z}}
           f1(z) == [e \in of(ch.create, z) |-> <<Add(ns1BuildRecord(z, e), "hard")>>]
           f2(z) == [e \in of(ch.updateNew, z) |-> <<Put(ns1BuildRecord(z, e), "hard")>>]
           f3(z) == [e \in of(ch.delete, z) |-> <<Drop(ns1BuildRecord(z, e), "hard")>>]
           zones == [z \in ManagedZones |-> Concat(f1(z)) \o Concat(f2(z)) \o Concat(f3(z))]
<1>1. ASSUME NEW E, E \subseteq All(ch), NEW z, NEW e, <<z, e>> \in ByZone(E)
      PROVE  /\ IsFiniteSet(ns1BuildRecord(z, e))
             /\ \A r \in ns1BuildRecord(z, e) : Placed(k, All(ch), r)
  <2>1. <<z, e>> \in ByZone(All(ch))
    BY <1>1, ByZoneMore
  <2> DEFINE p == <<z, e>>
  <2>2. p \in ByZone(All(ch)) /\ p[1] = z /\ p[2] = e
    BY <2>1
  <2> HIDE DEF p
  <2> QED
    BY <2>2, NamedPlaced DEF ns1BuildRecord
<1>2. ASSUME NEW z
      PROVE  GoodScript(k, All(ch), Concat(f1(z)) \o Concat(f2(z)) \o Concat(f3(z)))
  <2>1. GoodScript(k, All(ch), Concat(f1(z)))
    <3>1. /\ IsFiniteSet(DOMAIN f1(z))
          /\ \A e \in DOMAIN f1(z) : f1(z)[e] = <<Add(ns1BuildRecord(z, e), "hard")>> /\ <<z, e>> \in ByZone(ch.create)
      BY OfZone DEF FiniteChanges
    <3> QED
      BY <1>1, <3>1, GoodCalls, GoodEach DEF All
  <2>2. GoodScript(k, All(ch), Concat(f2(z)))
    <3>1. /\ IsFiniteSet(DOMAIN f2(z))
          /\ \A e \in DOMAIN f2(z) : f2(z)[e] = <<Put(ns1BuildRecord(z, e), "hard")>> /\ <<z, e>> \in ByZone(ch.updateNew)
      BY OfZone DEF FiniteChanges
    <3> QED
      BY <1>1, <3>1, GoodCalls, GoodEach DEF All
  <2>3. GoodScript(k, All(ch), Concat(f3(z)))
    <3>1. /\ IsFiniteSet(DOMAIN f3(z))
          /\ \A e \in DOMAIN f3(z) : f3(z)[e] = <<Drop(ns1BuildRecord(z, e), "hard")>> /\ <<z, e>> \in ByZone(ch.delete)
      BY OfZone DEF FiniteChanges
    <3> QED
      BY <1>1, <3>1, GoodCalls, GoodEach DEF All
  <2> QED
    BY <2>1, <2>2, <2>3, GoodJoin
<1>3. IsFiniteSet(DOMAIN zones) /\ \A z \in DOMAIN zones : GoodScript(k, All(ch), zones[z])
  BY <1>2, ByZoneFinite DEF FiniteChanges
<1>4. GoodScript(k, All(ch), Concat(zones))
  <2> HIDE DEF zones
  <2> QED
    BY <1>3, GoodConcat
<1>5. NS1_ApplyChanges(ch) = Concat(zones)
  BY DEF NS1_ApplyChanges, ns1SubmitChanges, dryRun, ConcatOver, Each
<1> QED
  BY <1>4, <1>5

\* Whether one call per zone or one per record set.
LEMMA AkamaiGood ==
    ASSUME NEW ch, FiniteChanges(ch), NEW S, NEW k, k \notin Relatively
    PROVE  GoodScript(k, All(ch), Akamai_ApplyChanges(S, ch))
<1>1. ASSUME NEW E, E \subseteq All(ch), NEW p \in ByZone(E)
      PROVE  /\ IsFiniteSet(newAkamaiRecordset(p[1], p[2]))
             /\ \A r \in newAkamaiRecordset(p[1], p[2]) : Placed(k, All(ch), r)
  BY <1>1, ByZoneMore, NamedPlaced DEF newAkamaiRecordset
<1>2. GoodScript(k, All(ch), createRecordsets(S, ch.create))
  <2> DEFINE here(z) == {q \in ByZone(ch.create) : q[1] = z}
             f(z) == [p \in here(z) |-> newAkamaiRecordset(z, p[2])]
             all(z) == UNION {newAkamaiRecordset(z, p[2]) : p \in here(z)}
             g == [z \in ManagedZones |->
                     <<IF \E r \in all(z), s \in S : SameSet(r, s) THEN Refuse("hard") ELSE Add(all(z), "hard")>>]
  <2>1. ASSUME NEW z PROVE IsFiniteSet(all(z)) /\ \A r \in all(z) : Placed(k, All(ch), r)
    <3>1. IsFiniteSet(here(z))
      BY ByZoneFinite, FiniteSubset DEF FiniteChanges
    <3>2. \A p \in here(z) : IsFiniteSet(newAkamaiRecordset(z, p[2])) /\ \A r \in newAkamaiRecordset(z, p[2]) : Placed(k, All(ch), r)
      BY <1>1 DEF All
    <3>3. DOMAIN f(z) = here(z) /\ \A p \in here(z) : f(z)[p] = newAkamaiRecordset(z, p[2])
      OBVIOUS
    <3>4. all(z) = UNION {f(z)[x] : x \in DOMAIN f(z)}
      OBVIOUS
    <3> HIDE DEF here, f, all
    <3> QED
      BY <3>1, <3>2, <3>3, <3>4, PlacedUnion
  <2> HIDE DEF all
  <2>2. GoodScript(k, All(ch), Concat(g))
    <3>1. IsFiniteSet(DOMAIN g) /\ \A z \in DOMAIN g : g[z] \in {<<Add(all(z), "hard")>>, <<Refuse("hard")>>}
      BY ByZoneFinite DEF FiniteChanges
    <3> HIDE DEF g
    <3> QED
      BY <2>1, <3>1, GoodCalls, GoodEach
  <2>3. createRecordsets(S, ch.create) \in {<<>>, Concat(g)}
    BY DEF createRecordsets, Each, all
  <2> QED
    BY <2>2, <2>3, GoodEmpty
<1>3. GoodScript(k, All(ch), deleteRecordsets(S, ch.delete))
  <2> DEFINE P == {p \in ByZone(ch.delete) : Akamai_Exists(S, p)}
             g == [p \in P |-> <<Drop(newAkamaiRecordset(p[1], p[2]), "hard")>>]
  <2>1. IsFiniteSet(P) /\ P \subseteq ByZone(ch.delete)
    BY ByZoneFinite, FiniteSubset DEF FiniteChanges
  <2>2. DOMAIN g = P /\ \A p \in P : g[p] = <<Drop(newAkamaiRecordset(p[1], p[2]), "hard")>>
    OBVIOUS
  <2>3. deleteRecordsets(S, ch.delete) = Concat(g)
    BY DEF deleteRecordsets, Each
  <2>4. \A p \in P : GoodCall(k, All(ch), Drop(newAkamaiRecordset(p[1], p[2]), "hard"))
    BY <1>1, GoodCalls DEF All
  <2> HIDE DEF P, g
  <2> QED
    BY <2>1, <2>2, <2>3, <2>4, GoodEach
<1>4. GoodScript(k, All(ch), updateNewRecordsets(S, ch.updateNew))
  <2> DEFINE P == ByZone(ch.updateNew)
             g == [p \in P |-> <<IF Akamai_Exists(S, p) THEN Put(newAkamaiRecordset(p[1], p[2]), "hard")
                                 ELSE Refuse("hard")>>]
  <2>1. IsFiniteSet(P)
    BY ByZoneFinite DEF FiniteChanges
  <2>2. DOMAIN g = P /\ \A p \in P : \/ g[p] = <<Put(newAkamaiRecordset(p[1], p[2]), "hard")>>
                                     \/ g[p] = <<Refuse("hard")>>
    OBVIOUS
  <2>3. updateNewRecordsets(S, ch.updateNew) = Concat(g)
    BY DEF updateNewRecordsets, Each
  <2>4. \A p \in P : IsFiniteSet(newAkamaiRecordset(p[1], p[2])) /\ \A r \in newAkamaiRecordset(p[1], p[2]) : Placed(k, All(ch), r)
    BY <1>1 DEF All
  <2> HIDE DEF P, g
  <2> QED
    BY <2>1, <2>2, <2>3, <2>4, GoodCalls, GoodEach
<1> QED
  BY <1>2, <1>3, <1>4, GoodEmpty, GoodJoin DEF Akamai_ApplyChanges

\* A record set may be cut down to one of its records.
LEMMA AzureGood ==
    ASSUME NEW ch, FiniteChanges(ch), NEW types, NEW k, k \in Relatively
    PROVE  GoodScript(k, All(ch), deleteRecords(mapChanges(ch).deleted)
                                     \o Azure_updateRecords(types, mapChanges(ch).updated))
<1> DEFINE D == ByZone(ch.delete)
           U == {p \in ByZone(ch.create \cup ch.updateNew) : p[2].type \in types}
           f == [p \in D |-> <<Drop(RecordsFor(p[1], p[2], 0), "forget")>>]
           g == [p \in U |-> <<Put(newRecordSet(p[1], p[2]), "forget")>>]
<1>1. IsFiniteSet(D) /\ IsFiniteSet(U)
  BY ByZoneFinite, FiniteSubset, FS_Union DEF FiniteChanges
<1>2. D \subseteq ByZone(All(ch)) /\ U \subseteq ByZone(All(ch))
  <2>1. ByZone(ch.delete) \subseteq ByZone(All(ch))
    BY ByZoneMore DEF All
  <2>2. ByZone(ch.create \cup ch.updateNew) \subseteq ByZone(All(ch))
    BY ByZoneMore DEF All
  <2> QED
    BY <2>1, <2>2
<1>3. GoodScript(k, All(ch), Concat(f))
  <2>1. DOMAIN f = D /\ \A p \in D : f[p] = <<Drop(RecordsFor(p[1], p[2], 0), "forget")>>
    OBVIOUS
  <2>2. \A p \in D : GoodCall(k, All(ch), Drop(RecordsFor(p[1], p[2], 0), "forget"))
    BY <1>2, RelativelyPlaced, GoodCalls
  <2> HIDE DEF D, f
  <2> QED
    BY <1>1, <2>1, <2>2, GoodEach
<1>4. ASSUME NEW p \in ByZone(All(ch))
      PROVE  IsFiniteSet(newRecordSet(p[1], p[2])) /\ \A r \in newRecordSet(p[1], p[2]) : Placed(k, All(ch), r)
  <2> DEFINE all == RecordsFor(p[1], p[2], IF p[2].ttl # 0 THEN p[2].ttl ELSE Azure_defaultTTL)
  <2>1. IsFiniteSet(all) /\ \A r \in all : Placed(k, All(ch), r)
    BY RelativelyPlaced
  <2>2. newRecordSet(p[1], p[2]) \subseteq all
    BY DEF newRecordSet
  <2> HIDE DEF all
  <2> QED
    BY <2>1, <2>2, FiniteSubset
<1>5. GoodScript(k, All(ch), Concat(g))
  <2>1. DOMAIN g = U /\ \A p \in U : g[p] = <<Put(newRecordSet(p[1], p[2]), "forget")>>
    OBVIOUS
  <2>2. \A p \in U : GoodCall(k, All(ch), Put(newRecordSet(p[1], p[2]), "forget"))
    BY <1>2, <1>4, GoodCalls
  <2> HIDE DEF U, g
  <2> QED
    BY <1>1, <2>1, <2>2, GoodEach
<1>6. deleteRecords(mapChanges(ch).deleted) \in {<<>>, Concat(f)}
  BY DEF deleteRecords, mapChanges, Each
<1>7. Azure_updateRecords(types, mapChanges(ch).updated) \in {<<>>, Concat(g)}
  BY DEF Azure_updateRecords, mapChanges, Each
<1> QED
  BY <1>3, <1>5, <1>6, <1>7, GoodEmpty, GoodJoin

LEMMA GoodChange ==
    ASSUME NEW k, NEW E, NEW how, how # "parallel", NEW old, Placed(k, E, old), NEW new, Placed(k, E, new)
    PROVE  GoodCall(k, E, Change(old, new, how))
<1> DEFINE g == Change(old, new, how)
<1>1. g.add = {new} /\ g.del = {old} /\ g.clear = {} /\ g.instead = <<>> /\ g.later = {} /\ g.onFail = how
      /\ "clear" \in DOMAIN g /\ "del" \in DOMAIN g /\ "add" \in DOMAIN g
      /\ "instead" \in DOMAIN g /\ "later" \in DOMAIN g /\ "onFail" \in DOMAIN g
  BY DEF Change, Call
<1>2. IsFiniteSet({new})
  BY FS_Singleton
<1> HIDE DEF g
<1>3. GoodCall(k, E, g)
  BY <1>1, <1>2 DEF GoodCall
<1> QED
  BY <1>3 DEF g

LEMMA GoodOne ==
    ASSUME NEW k, NEW E, NEW how, how # "parallel", NEW r, Placed(k, E, r)
    PROVE  GoodCall(k, E, Add({r}, how)) /\ GoodCall(k, E, Del({r}, how))
<1> DEFINE R == {r}
<1>1. IsFiniteSet(R) /\ \A q \in R : Placed(k, E, q)
  BY FS_Singleton
<1> HIDE DEF R
<1>2. GoodCall(k, E, Add(R, how)) /\ GoodCall(k, E, Del(R, how))
  BY <1>1, GoodCalls
<1> QED
  BY <1>2 DEF R

\* Records that belong to E, and pairs of them.
RSet(k, E, R) == IsFiniteSet(R) /\ \A r \in R : Placed(k, E, r)
PSet(k, E, P) == IsFiniteSet(P) /\ \A p \in P : Placed(k, E, p[1]) /\ Placed(k, E, p[2])

UnionOf(f) == UNION {f[x] : x \in DOMAIN f}

LEMMA UnionSets ==
    ASSUME NEW k, NEW E, NEW f, IsFiniteSet(DOMAIN f)
    PROVE  /\ (\A x \in DOMAIN f : RSet(k, E, f[x])) => RSet(k, E, UnionOf(f))
           /\ (\A x \in DOMAIN f : PSet(k, E, f[x])) => PSet(k, E, UnionOf(f))
<1>1. IsFiniteSet({f[x] : x \in DOMAIN f})
  BY FiniteImage
<1>2. (\A x \in DOMAIN f : IsFiniteSet(f[x])) => IsFiniteSet(UnionOf(f))
  <2> SUFFICES ASSUME \A x \in DOMAIN f : IsFiniteSet(f[x]) PROVE IsFiniteSet(UnionOf(f))
    OBVIOUS
  <2>1. \A T \in {f[x] : x \in DOMAIN f} : IsFiniteSet(T)
    OBVIOUS
  <2> QED
    BY <1>1, <2>1, FS_UNION DEF UnionOf
<1>3. \A r \in UnionOf(f) : \E x \in DOMAIN f : r \in f[x]
  BY DEF UnionOf
<1> QED
  BY <1>2, <1>3 DEF RSet, PSet

LEMMA JoinSets ==
    ASSUME NEW k, NEW E, NEW R, NEW Q, RSet(k, E, R), RSet(k, E, Q)
    PROVE  RSet(k, E, R \cup Q)
  BY FS_Union DEF RSet

LEMMA SmallerSet ==
    ASSUME NEW k, NEW E, NEW R, RSet(k, E, R), NEW Q, Q \subseteq R
    PROVE  RSet(k, E, Q)
  BY FiniteSubset DEF RSet

\* A call for each record to add, to remove and to change.
LEMMA RecordByRecord ==
    ASSUME NEW k, NEW E, NEW how, how # "parallel", NEW C, RSet(k, E, C), NEW U, PSet(k, E, U),
           NEW D, RSet(k, E, D),
           NEW c, c = [r \in C |-> <<Add({r}, how)>>],
           NEW e, e = [u \in U |-> <<Change(u[1], u[2], how)>>],
           NEW d, d = [r \in D |-> <<Del({r}, how)>>]
    PROVE  GoodScript(k, E, Concat(c)) /\ GoodScript(k, E, Concat(e)) /\ GoodScript(k, E, Concat(d))
<1>1. /\ \A r \in C : GoodCall(k, E, Add({r}, how))
      /\ \A r \in D : GoodCall(k, E, Del({r}, how))
  BY GoodOne DEF RSet
<1>2. \A u \in U : GoodCall(k, E, Change(u[1], u[2], how))
  BY GoodChange DEF PSet
<1>3. /\ DOMAIN c = C /\ (\A r \in C : c[r] = <<Add({r}, how)>>)
      /\ DOMAIN e = U /\ (\A u \in U : e[u] = <<Change(u[1], u[2], how)>>)
      /\ DOMAIN d = D /\ (\A r \in D : d[r] = <<Del({r}, how)>>)
  OBVIOUS
<1>4. IsFiniteSet(C) /\ IsFiniteSet(U) /\ IsFiniteSet(D)
  BY DEF RSet, PSet
<1> QED
  BY <1>1, <1>2, <1>3, <1>4, GoodEach

\* Edits target by target: what is written and removed are the records of the endpoint
\* and those found under its name and type.
CreatesOf(u) == UNION {d.create : d \in u}
UpdatesOf(u) == UNION {d.update : d \in u}
DeletesOf(u) == UNION {d.delete : d \in u}

LEMMA MatchedEdits ==
    ASSUME NEW ch, FiniteChanges(ch), NEW S, IsFiniteSet(S), NEW k, k \in Relatively, NEW ttl,
           NEW f, DOMAIN f = ByZone(ch.updateNew),
           \A p \in DOMAIN f :
               f[p] = ByTarget(Matching(S, p[1], p[2]), RecordsFor(p[1], p[2], ttl[p[2]])),
           NEW u, u = {f[p] : p \in DOMAIN f}
    PROVE  /\ RSet(k, All(ch), CreatesOf(u))
           /\ PSet(k, All(ch), UpdatesOf(u))
           /\ RSet(k, All(ch), DeletesOf(u))
<1> DEFINE P == DOMAIN f
           c == [p \in P |-> f[p].create]
           x == [p \in P |-> f[p].delete]
           e == [p \in P |-> f[p].update]
<1>1. IsFiniteSet(P)
  BY ByZoneFinite DEF FiniteChanges
<1>2. ASSUME NEW p \in P
      PROVE  RSet(k, All(ch), c[p]) /\ PSet(k, All(ch), e[p]) /\ RSet(k, All(ch), x[p])
  <2>1. p \in ByZone(All(ch))
    BY ByZoneMore DEF All
  <2> DEFINE M == Matching(S, p[1], p[2])
             N == RecordsFor(p[1], p[2], ttl[p[2]])
  <2>2. RSet(k, All(ch), M) /\ RSet(k, All(ch), N)
    BY <2>1, MatchingPlaced, RelativelyPlaced DEF RSet
  <2>3. f[p] = ByTarget(M, N) /\ c[p] = f[p].create /\ e[p] = f[p].update /\ x[p] = f[p].delete
    OBVIOUS
  <2> HIDE DEF M, N
  <2>4. /\ f[p].create \subseteq N /\ f[p].delete \subseteq M /\ f[p].update \subseteq M \X N
    BY <2>3 DEF ByTarget
  <2>5. IsFiniteSet(M \X N)
    BY <2>2, FS_Product DEF RSet
  <2>6. PSet(k, All(ch), f[p].update)
    BY <2>2, <2>4, <2>5, FiniteSubset DEF RSet, PSet
  <2> QED
    BY <2>2, <2>3, <2>4, <2>6, SmallerSet
<1>3. /\ CreatesOf(u) = UnionOf(c) /\ UpdatesOf(u) = UnionOf(e)
      /\ DeletesOf(u) = UnionOf(x)
  BY DEF UnionOf, CreatesOf, UpdatesOf, DeletesOf
<1>4. DOMAIN c = P /\ DOMAIN e = P /\ DOMAIN x = P
  OBVIOUS
<1> HIDE DEF c, e, x, P
<1> QED
  BY <1>1, <1>2, <1>3, <1>4, UnionSets

LEMMA DigitalOceanGood ==
    ASSUME NEW ch, FiniteChanges(ch), NEW S, IsFiniteSet(S), NEW k, k \in Relatively
    PROVE  GoodScript(k, All(ch), DigitalOcean_ApplyChanges(S, ch))
<1> DEFINE u == processUpdateActions(S, ch.updateNew)
           ttl == [e \in ch.updateNew |-> getTTLFromEndpoint(e)]
           f == [p \in ByZone(ch.updateNew) |->
                   ByTarget(Matching(S, p[1], p[2]), RecordsFor(p[1], p[2], ttl[p[2]]))]
           C == processCreateActions(ch.create) \cup CreatesOf(u)
           U == UpdatesOf(u)
           D == processDeleteActions(S, ch.delete) \cup DeletesOf(u)
<1>1. DOMAIN f = ByZone(ch.updateNew) /\ \A p \in DOMAIN f :
          f[p] = ByTarget(Matching(S, p[1], p[2]), RecordsFor(p[1], p[2], ttl[p[2]]))
  OBVIOUS
<1>2. u = {f[p] : p \in DOMAIN f}
  <2>1. \A p \in ByZone(ch.updateNew) : p[2] \in ch.updateNew
    BY InByZone
  <2> QED
    BY <2>1 DEF processUpdateActions, getMatchingDomainRecords, makeDomainEditRequest
<1>3. /\ IsFiniteSet(processCreateActions(ch.create))
      /\ \A r \in processCreateActions(ch.create) : Placed(k, All(ch), r)
  <2> DEFINE g == [p \in ByZone(ch.create) |-> makeDomainEditRequest(p[1], p[2])]
  <2>1. IsFiniteSet(DOMAIN g) /\ DOMAIN g = ByZone(ch.create)
    BY ByZoneFinite DEF FiniteChanges
  <2>2. ByZone(ch.create) \subseteq ByZone(All(ch))
    BY ByZoneMore DEF All
  <2>3. \A p \in DOMAIN g : IsFiniteSet(g[p]) /\ \A r \in g[p] : Placed(k, All(ch), r)
    BY <2>2, RelativelyPlaced DEF makeDomainEditRequest
  <2>4. processCreateActions(ch.create) = UNION {g[p] : p \in DOMAIN g}
    BY DEF processCreateActions
  <2> HIDE DEF g
  <2> QED
    BY <2>1, <2>3, <2>4, PlacedUnion
<1>4. /\ IsFiniteSet(processDeleteActions(S, ch.delete))
      /\ \A r \in processDeleteActions(S, ch.delete) : Placed(k, All(ch), r)
  <2>1. processDeleteActions(S, ch.delete) \subseteq S
    BY DEF processDeleteActions, getMatchingDomainRecords, Matching
  <2>2. ByZone(ch.delete) \subseteq ByZone(All(ch))
    BY ByZoneMore DEF All
  <2>3. \A r \in processDeleteActions(S, ch.delete) : \E p \in ByZone(ch.delete) : r \in Matching(S, p[1], p[2])
    BY DEF processDeleteActions, getMatchingDomainRecords
  <2> QED
    BY <2>1, <2>2, <2>3, MatchingPlaced, FiniteSubset
<1> HIDE DEF f, u
<1>5. RSet(k, All(ch), C) /\ PSet(k, All(ch), U) /\ RSet(k, All(ch), D)
  <2>1. /\ RSet(k, All(ch), CreatesOf(u))
        /\ PSet(k, All(ch), UpdatesOf(u))
        /\ RSet(k, All(ch), DeletesOf(u))
    <3> HIDE DEF ttl
    <3> QED
      BY <1>1, <1>2, MatchedEdits
  <2> QED
    BY <1>3, <1>4, <2>1, JoinSets DEF RSet
<1>6. DigitalOcean_ApplyChanges(S, ch) = DigitalOcean_submitChanges(C, U, D)
  BY DEF DigitalOcean_ApplyChanges, u, CreatesOf, UpdatesOf, DeletesOf
<1> HIDE DEF C, U, D
<1>7. GoodScript(k, All(ch), DigitalOcean_submitChanges(C, U, D))
  <2> DEFINE c == [r \in C |-> <<Add({r}, "hard")>>]
             e == [x \in U |-> <<Change(x[1], x[2], "hard")>>]
             d == [r \in D |-> <<Del({r}, "hard")>>]
  <2>1. GoodScript(k, All(ch), Concat(c)) /\ GoodScript(k, All(ch), Concat(e)) /\ GoodScript(k, All(ch), Concat(d))
    BY <1>5, RecordByRecord
  <2>2. DigitalOcean_submitChanges(C, U, D) \in {<<>>, Concat(c) \o Concat(e) \o Concat(d)}
    BY DEF DigitalOcean_submitChanges, Each
  <2> HIDE DEF c, e, d
  <2> QED
    BY <2>1, <2>2, GoodEmpty, GoodJoin
<1> QED
  BY <1>6, <1>7

LEMMA LinodeSubmits ==
    ASSUME NEW ch, FiniteChanges(ch), NEW S, IsFiniteSet(S), NEW k, k \in Relatively,
           NEW new, IsFiniteSet(new), \A r \in new : Placed(k, All(ch), r)
    PROVE  GoodScript(k, All(ch), Linode_Submitted(S, ch, new))
<1> DEFINE u == Linode_Updates(S, ch.updateNew)
           ttl == [e \in ch.updateNew |-> e.ttl]
           f == [p \in ByZone(ch.updateNew) |->
                   ByTarget(Matching(S, p[1], p[2]), RecordsFor(p[1], p[2], ttl[p[2]]))]
           C == new \cup CreatesOf(u)
           U == UpdatesOf(u)
           D == Linode_Deletes(S, ch.delete) \cup DeletesOf(u)
<1>1. DOMAIN f = ByZone(ch.updateNew) /\ \A p \in DOMAIN f :
          f[p] = ByTarget(Matching(S, p[1], p[2]), RecordsFor(p[1], p[2], ttl[p[2]]))
  OBVIOUS
<1>2. u = {f[p] : p \in DOMAIN f}
  <2>1. \A p \in ByZone(ch.updateNew) : p[2] \in ch.updateNew
    BY InByZone
  <2> QED
    BY <2>1 DEF Linode_Updates, Linode_getRecordID
<1>3. /\ IsFiniteSet(Linode_Deletes(S, ch.delete))
      /\ \A r \in Linode_Deletes(S, ch.delete) : Placed(k, All(ch), r)
  <2>1. Linode_Deletes(S, ch.delete) \subseteq S
    BY DEF Linode_Deletes, Linode_getRecordID, Matching
  <2>2. ByZone(ch.delete) \subseteq ByZone(All(ch))
    BY ByZoneMore DEF All
  <2>3. \A r \in Linode_Deletes(S, ch.delete) : \E p \in ByZone(ch.delete) : r \in Matching(S, p[1], p[2])
    BY DEF Linode_Deletes, Linode_getRecordID
  <2> QED
    BY <2>1, <2>2, <2>3, MatchingPlaced, FiniteSubset
<1> HIDE DEF f, u
<1>4. RSet(k, All(ch), C) /\ PSet(k, All(ch), U) /\ RSet(k, All(ch), D)
  <2>1. /\ RSet(k, All(ch), CreatesOf(u))
        /\ PSet(k, All(ch), UpdatesOf(u))
        /\ RSet(k, All(ch), DeletesOf(u))
    <3> HIDE DEF ttl
    <3> QED
      BY <1>1, <1>2, MatchedEdits
  <2> QED
    BY <1>3, <2>1, JoinSets DEF RSet
<1>5. Linode_Submitted(S, ch, new) = Linode_submitChanges(C, U, D)
  BY DEF Linode_Submitted, u, CreatesOf, UpdatesOf, DeletesOf
<1> HIDE DEF C, U, D
<1>6. GoodScript(k, All(ch), Linode_submitChanges(C, U, D))
  <2> DEFINE c == [r \in C |-> <<Add({r}, "forget")>>]
             e == [x \in U |-> <<Change(x[1], x[2], "forget")>>]
             d == [r \in D |-> <<Del({r}, "forget")>>]
  <2>1. GoodScript(k, All(ch), Concat(c)) /\ GoodScript(k, All(ch), Concat(e)) /\ GoodScript(k, All(ch), Concat(d))
    BY <1>4, RecordByRecord
  <2>2. Linode_submitChanges(C, U, D) \in {<<>>, Concat(c) \o Concat(d) \o Concat(e)}
    BY DEF Linode_submitChanges, Each
  <2> HIDE DEF c, e, d
  <2> QED
    BY <2>1, <2>2, GoodEmpty, GoodJoin
<1> QED
  BY <1>5, <1>6

LEMMA LinodeGood ==
    ASSUME NEW ch, FiniteChanges(ch), NEW S, IsFiniteSet(S), NEW k, k \in Relatively
    PROVE  /\ GoodScript(k, All(ch), Linode_ApplyChanges(S, ch))
           /\ GoodScript(k, All(ch), CivoApplyChanges(S, ch))
<1> DEFINE g == [p \in ByZone(ch.create) |-> RecordsFor(p[1], p[2], p[2].ttl)]
           all == UNION {g[p] : p \in DOMAIN g}
<1>1. IsFiniteSet(all) /\ \A r \in all : Placed(k, All(ch), r)
  <2>1. IsFiniteSet(DOMAIN g) /\ DOMAIN g = ByZone(ch.create)
    BY ByZoneFinite DEF FiniteChanges
  <2>2. ByZone(ch.create) \subseteq ByZone(All(ch))
    BY ByZoneMore DEF All
  <2>3. \A p \in DOMAIN g : IsFiniteSet(g[p]) /\ \A r \in g[p] : Placed(k, All(ch), r)
    BY <2>2, RelativelyPlaced
  <2> HIDE DEF g
  <2> QED
    BY <2>1, <2>3, PlacedUnion
<1>2. LinodeCreates(S, ch.create) \subseteq all /\ CivoCreates(S, ch.create) \subseteq all
  BY DEF LinodeCreates, CivoCreates
<1> HIDE DEF all
<1>3. /\ GoodScript(k, All(ch), Linode_Submitted(S, ch, LinodeCreates(S, ch.create)))
      /\ GoodScript(k, All(ch), Linode_Submitted(S, ch, CivoCreates(S, ch.create)))
  BY <1>1, <1>2, FiniteSubset, LinodeSubmits
<1>4. GoodScript(k, All(ch), <<Refuse("hard")>>)
  BY FS_EmptySet, GoodCalls, GoodSingle
<1> QED
  BY <1>3, <1>4 DEF Linode_ApplyChanges, CivoApplyChanges

\* A CNAME at the apex of its zone is an ALIAS.
LEMMA PDNSGood ==
    ASSUME NEW ch, FiniteChanges(ch), NEW k, k \notin Relatively
    PROVE  GoodScript(k, All(ch), PDNS_ApplyChanges(ch))
<1>1. ASSUME NEW p \in ByZone(All(ch))
      PROVE  RSet(k, All(ch), RrSet(p[1], p[2]))
  <2> DEFINE rr(t) == RR(p[1].id, NameOf(p[2]), "",
                         IF NameOf(p[2]) = p[1].name /\ p[2].type = "CNAME" THEN "ALIAS" ELSE p[2].type,
                         t, IF p[2].ttl = 0 THEN PDNS_defaultTTL ELSE p[2].ttl, {})
             f == [t \in TargetsOf(p[2]) |-> rr(t)]
  <2>1. IsFiniteSet(TargetsOf(p[2]))
    BY ZoneAssumption, FiniteSubset DEF TargetsOf
  <2>2. RrSet(p[1], p[2]) = {f[x] : x \in DOMAIN f} /\ DOMAIN f = TargetsOf(p[2])
    BY DEF RrSet
  <2>3. IsFiniteSet({f[x] : x \in DOMAIN f})
    <3> HIDE DEF f
    <3> QED
      BY <2>1, <2>2, FiniteImage
  <2>4. \A t : /\ rr(t).zone = p[1].id /\ rr(t).name = NameOf(p[2])
               /\ rr(t).type = p[2].type \/ (rr(t).type = "ALIAS" /\ p[2].type = "CNAME")
    BY DEF RR
  <2>5. \A r \in RrSet(p[1], p[2]) : \E t : r = rr(t)
    BY <2>2
  <2>6. p[2] \in All(ch) /\ p[1] \in FindZone(ManagedZones, NameOf(p[2]))
    BY InByZone
  <2> HIDE DEF rr, f
  <2> QED
    BY <2>2, <2>3, <2>4, <2>5, <2>6 DEF RSet, Placed
<1>2. ASSUME NEW E, E \subseteq All(ch), IsFiniteSet(E), NEW how \in {"REPLACE", "DELETE"}
      PROVE  GoodScript(k, All(ch), mutateRecords(E, how))
  <2> DEFINE Z == {p[1] : p \in ByZone(E)}
             here(z) == {q \in ByZone(E) : q[1] = z}
             f(z) == [p \in here(z) |-> RrSet(z, p[2])]
             g == [z \in Z |-> UNION {RrSet(z, p[2]) : p \in here(z)}]
             X == ConvertEndpointsToZones(E)
             c == [rrs \in X |-> <<IF how = "REPLACE" THEN Put(rrs, "soft") ELSE Drop(rrs, "soft")>>]
  <2>1. IsFiniteSet(ByZone(E)) /\ ByZone(E) \subseteq ByZone(All(ch))
    BY <1>2, ByZoneFinite, ByZoneMore
  <2>2. ASSUME NEW z \in Z PROVE RSet(k, All(ch), g[z])
    <3>1. g[z] = UnionOf(f(z)) /\ DOMAIN f(z) = here(z) /\ \A p \in here(z) : f(z)[p] = RrSet(z, p[2])
      BY DEF UnionOf
    <3>2. IsFiniteSet(here(z)) /\ \A p \in here(z) : RSet(k, All(ch), RrSet(z, p[2]))
      BY <1>1, <2>1, FiniteSubset
    <3> HIDE DEF f, g, here
    <3> QED
      BY <3>1, <3>2, UnionSets
  <2>3. IsFiniteSet(X) /\ \A rrs \in X : RSet(k, All(ch), rrs)
    <3> DEFINE h == [p \in ByZone(E) |-> p[1]]
    <3>1. Z = {h[p] : p \in DOMAIN h} /\ DOMAIN h = ByZone(E)
      OBVIOUS
    <3>2. IsFiniteSet({h[p] : p \in DOMAIN h})
      <4> HIDE DEF h
      <4> QED
        BY <2>1, <3>1, FiniteImage
    <3>3. X = {g[z] : z \in DOMAIN g} /\ DOMAIN g = Z
      BY DEF ConvertEndpointsToZones
    <3>4. IsFiniteSet({g[z] : z \in DOMAIN g})
      <4> HIDE DEF g, Z, X
      <4> QED
        BY <3>1, <3>2, <3>3, FiniteImage
    <3> HIDE DEF g, X, Z
    <3> QED
      BY <2>2, <3>3, <3>4
  <2>4. DOMAIN c = X /\ \A rrs \in X : c[rrs] \in {<<Put(rrs, "soft")>>, <<Drop(rrs, "soft")>>}
    OBVIOUS
  <2>5. mutateRecords(E, how) \in {<<Refuse("soft")>>, Concat(c)}
    BY DEF mutateRecords, Each
  <2> HIDE DEF c, X
  <2>6. \A rrs \in X : GoodCall(k, All(ch), Put(rrs, "soft")) /\ GoodCall(k, All(ch), Drop(rrs, "soft"))
    BY <2>3, GoodCalls DEF RSet
  <2>7. GoodScript(k, All(ch), Concat(c))
    BY <2>3, <2>4, <2>6, GoodEach
  <2>8. GoodScript(k, All(ch), <<Refuse("soft")>>)
    BY FS_EmptySet, GoodCalls, GoodSingle
  <2> QED
    BY <2>5, <2>7, <2>8
<1>3. /\ GoodScript(k, All(ch), mutateRecords(ch.create, "REPLACE"))
      /\ GoodScript(k, All(ch), mutateRecords(ch.updateNew, "REPLACE"))
      /\ GoodScript(k, All(ch), mutateRecords(ch.delete, "DELETE"))
  BY <1>2 DEF FiniteChanges, All
<1> QED
  BY <1>3, GoodJoin DEF PDNS_ApplyChanges

\* One patch with all that a zone loses and gets.
LEMMA OCIGood ==
    ASSUME NEW ch, FiniteChanges(ch), NEW k, k \notin Relatively
    PROVE  GoodScript(k, All(ch), OCI_ApplyChanges(ch))
<1>1. ASSUME NEW E, E \subseteq All(ch), IsFiniteSet(E), NEW z
      PROVE  RSet(k, All(ch), newFilteredRecordOperations(E, z))
  <2> DEFINE here == {q \in ByZone(E) : q[1] = z}
             f == [p \in here |-> newRecordOperation(z, p[2])]
  <2>1. IsFiniteSet(here) /\ here \subseteq ByZone(All(ch))
    <3>1. IsFiniteSet(ByZone(E)) /\ ByZone(E) \subseteq ByZone(All(ch))
      BY <1>1, ByZoneFinite, ByZoneMore
    <3> QED
      BY <3>1, FiniteSubset
  <2>2. \A p \in here : RSet(k, All(ch), newRecordOperation(z, p[2]))
    BY <2>1, NamedPlaced DEF newRecordOperation, RSet
  <2>3. newFilteredRecordOperations(E, z) = UnionOf(f)
    BY DEF newFilteredRecordOperations, UnionOf
  <2>4. DOMAIN f = here /\ \A p \in here : f[p] = newRecordOperation(z, p[2])
    OBVIOUS
  <2> HIDE DEF f, here
  <2> QED
    BY <2>1, <2>2, <2>3, <2>4, UnionSets
<1> DEFINE add(z) == newFilteredRecordOperations(ch.create \cup ch.updateNew, z)
           remove(z) == newFilteredRecordOperations(ch.updateOld \cup ch.delete, z)
           busy == {z \in ManagedZones : add(z) \cup remove(z) # {}}
           f == [z \in busy |-> <<Call({}, remove(z), add(z), "soft")>>]
<1>2. \A z : RSet(k, All(ch), add(z)) /\ RSet(k, All(ch), remove(z))
  <2>1. /\ ch.create \cup ch.updateNew \subseteq All(ch) /\ ch.updateOld \cup ch.delete \subseteq All(ch)
        /\ IsFiniteSet(ch.create \cup ch.updateNew) /\ IsFiniteSet(ch.updateOld \cup ch.delete)
    BY FS_Union DEF All, FiniteChanges
  <2> QED
    BY <1>1, <2>1
<1>3. OCI_ApplyChanges(ch) \in {<<>>, Concat(f)}
  BY DEF OCI_ApplyChanges, operationsByZone, Each
<1>4. GoodScript(k, All(ch), Concat(f))
  <2>1. IsFiniteSet(busy)
    BY FiniteSubset, ByZoneFinite DEF FiniteChanges
  <2>2. DOMAIN f = busy /\ \A z \in busy : f[z] = <<Call({}, remove(z), add(z), "soft")>>
    OBVIOUS
  <2> HIDE DEF busy, f, add, remove
  <2>3. \A z : GoodCall(k, All(ch), Call({}, remove(z), add(z), "soft"))
    BY <1>2 DEF GoodCall, Call, RSet
  <2> QED
    BY <2>1, <2>2, <2>3, GoodEach
<1> QED
  BY <1>3, <1>4, GoodEmpty

LEMMA ScalewayGood ==
    ASSUME NEW ch, FiniteChanges(ch), NEW S, IsFiniteSet(S), NEW k, k \in Relatively
    PROVE  GoodScript(k, All(ch), Scaleway_ApplyChanges(S, ch))
<1> DEFINE of(E, z) == {p[2] : p \in {q \in ByZone(E) : q[1] = z}}
           gone(z) == UNION {endpointToScalewayRecordsChangeDelete(S, z, e) :
                                e \in of(ch.updateOld \cup ch.delete, z)}
           fresh(z) == UNION {endpointToScalewayRecords(z, e) : e \in of(ch.create \cup ch.updateNew, z)}
           busy == {z \in ManagedZones : gone(z) \cup fresh(z) # {}}
           f == [z \in busy |-> <<Call({}, gone(z), fresh(z), "hard")>>]
<1>1. /\ ch.create \cup ch.updateNew \subseteq All(ch) /\ ch.updateOld \cup ch.delete \subseteq All(ch)
      /\ IsFiniteSet(ch.create \cup ch.updateNew) /\ IsFiniteSet(ch.updateOld \cup ch.delete)
  BY FS_Union DEF All, FiniteChanges
<1>2. ASSUME NEW E, E \subseteq All(ch), IsFiniteSet(E), NEW z, NEW e \in of(E, z)
      PROVE  <<z, e>> \in ByZone(All(ch))
  BY <1>2, OfZone, ByZoneMore
<1>3. ASSUME NEW z PROVE RSet(k, All(ch), gone(z))
  <2>1. \A r \in gone(z) : \E e \in of(ch.updateOld \cup ch.delete, z) : r \in Matching(S, z, e)
    BY DEF endpointToScalewayRecordsChangeDelete
  <2>2. \A r \in gone(z) : Placed(k, All(ch), r)
    <3> SUFFICES ASSUME NEW e \in of(ch.updateOld \cup ch.delete, z), NEW r \in Matching(S, z, e)
                 PROVE  Placed(k, All(ch), r)
      BY <2>1
    <3> DEFINE p == <<z, e>>
    <3>1. p \in ByZone(All(ch)) /\ p[1] = z /\ p[2] = e
      BY <1>1, <1>2
    <3> HIDE DEF p
    <3> QED
      BY <3>1, MatchingPlaced
  <2>3. gone(z) \subseteq S
    BY <2>1 DEF Matching
  <2> QED
    BY <2>2, <2>3, FiniteSubset DEF RSet
<1>4. ASSUME NEW z PROVE RSet(k, All(ch), fresh(z))
  <2> DEFINE O == of(ch.create \cup ch.updateNew, z)
             g == [e \in O |-> endpointToScalewayRecords(z, e)]
  <2>1. fresh(z) = UnionOf(g) /\ DOMAIN g = O /\ \A e \in O : g[e] = endpointToScalewayRecords(z, e)
    BY DEF UnionOf
  <2>2. IsFiniteSet(O)
    BY <1>1, OfZone
  <2>3. ASSUME NEW e \in O PROVE RSet(k, All(ch), endpointToScalewayRecords(z, e))
    <3> DEFINE p == <<z, e>>
               R == RecordsFor(z, e, IF e.ttl # 0 THEN e.ttl ELSE Scaleway_defaultTTL)
               priority == {q \in e.props : q[1] = "priority"}
               props == IF priority = {} THEN {scalewayDefaultPriority} ELSE priority
               h == [r \in R |-> [r EXCEPT !.props = props]]
    <3>1. p \in ByZone(All(ch)) /\ p[1] = z /\ p[2] = e
      BY <1>1, <1>2
    <3>2. RSet(k, All(ch), R)
      <4> HIDE DEF p
      <4> QED
        BY <3>1, RelativelyPlaced DEF RSet
    <3>3. endpointToScalewayRecords(z, e) = {h[r] : r \in DOMAIN h} /\ DOMAIN h = R
      BY DEF endpointToScalewayRecords
    <3>4. \A r \in R : h[r].zone = r.zone /\ h[r].name = r.name /\ h[r].type = r.type
      <4>1. \A r \in R : \E a, b, c, d, t : r = RR(a, b, "", c, d, t, {})
        BY DEF RecordsFor
      <4>2. ASSUME NEW r \in R PROVE h[r].zone = r.zone /\ h[r].name = r.name /\ h[r].type = r.type
        <5>1. PICK a, b, c, d, t : r = RR(a, b, "", c, d, t, {})
          BY <4>1
        <5>2. h[r] = [r EXCEPT !.props = props]
          OBVIOUS
        <5> HIDE DEF R, h, props
        <5> QED
          BY <5>1, <5>2 DEF RR
      <4> QED
        BY <4>2
    <3>5. IsFiniteSet({h[r] : r \in DOMAIN h})
      <4> HIDE DEF h, R
      <4> QED
        BY <3>2, <3>3, FiniteImage DEF RSet
    <3> HIDE DEF h, R
    <3> QED
      BY <3>2, <3>3, <3>4, <3>5 DEF RSet, Placed
  <2> HIDE DEF g, O, fresh
  <2> QED
    BY <2>1, <2>2, <2>3, UnionSets
<1>5. Scaleway_ApplyChanges(S, ch) \in {<<>>, Concat(f)}
  BY DEF Scaleway_ApplyChanges, generateApplyRequests, Each
<1>6. GoodScript(k, All(ch), Concat(f))
  <2>1. IsFiniteSet(busy)
    BY FiniteSubset, ByZoneFinite DEF FiniteChanges
  <2>2. DOMAIN f = busy /\ \A z \in busy : f[z] = <<Call({}, gone(z), fresh(z), "hard")>>
    OBVIOUS
  <2> HIDE DEF busy, f, gone, fresh
  <2>3. \A z : GoodCall(k, All(ch), Call({}, gone(z), fresh(z), "hard"))
    BY <1>3, <1>4 DEF GoodCall, Call, RSet
  <2> QED
    BY <2>1, <2>2, <2>3, GoodEach
<1> QED
  BY <1>5, <1>6, GoodEmpty

\* The endpoints of a chunk that are of zone z.
Chunks(E) == chunkBy(AsSeq(E), RFC2136BatchChangeSize)
InChunk(E, i, z) == {Chunks(E)[i][j] : j \in {l \in DOMAIN Chunks(E)[i] : z \in findMsgZone(Chunks(E)[i][l])}}

AddChunk(E, i, z) == UNION {AddRecord(z, e) : e \in InChunk(E, i, z)}
AllInZone(E, i, z) == \A e \in InChunk(E, i, z) : InZone(NameOf(e), z)
IsMessage(E, i, z, m) ==
    \/ m = <<Refuse("note")>>
    \/ AllInZone(E, i, z) /\ \E D, A : m = <<Call({}, D, A, "note")>> /\ A \subseteq AddChunk(E, i, z)

\* Some zone of a finite set has the most labels.
LEMMA MostLabels ==
    ASSUME NEW F, IsFiniteSet(F), F # {}, \A z \in F : Len(z.name) \in Nat
    PROVE  \E z \in F : \A y \in F : Len(y.name) <= Len(z.name)
<1> DEFINE above(z) == {y \in F : Len(z.name) <= Len(y.name)}
           size == {Cardinality(above(z)) : z \in F}
<1>1. ASSUME NEW z \in F PROVE IsFiniteSet(above(z)) /\ Cardinality(above(z)) \in Nat
  BY FiniteSubset, FS_CardinalityType
<1>2. size \subseteq Nat /\ size # {}
  BY <1>1
<1>3. PICK m \in size : \A n \in size : ~(n < m)
  <2> HIDE DEF size
  <2> QED
    BY <1>2, Least
<1>4. PICK z \in F : m = Cardinality(above(z))
  BY <1>3
<1>5. ASSUME NEW y \in F, ~(Len(y.name) <= Len(z.name)) PROVE FALSE
  <2>1. above(y) \subseteq above(z)
    BY <1>5
  <2>2. z \in above(z) /\ z \notin above(y)
    BY <1>5
  <2>3. Cardinality(above(y)) < Cardinality(above(z))
    <3> HIDE DEF above
    <3>1. Cardinality(above(y)) <= Cardinality(above(z)) /\ Cardinality(above(y)) # Cardinality(above(z))
      BY <1>1, <1>5, <2>1, <2>2, FS_Subset
    <3> QED
      BY <1>1, <1>5, <3>1
  <2> QED
    BY <1>3, <1>4, <1>5, <2>3
<1> QED
  BY <1>5

\* A zone that is found for a name that is in it is the one it belongs to, although the
\* search asks for less.
LEMMA FoundMsgZone ==
    ASSUME NEW e, NEW z \in findMsgZone(e), InZone(NameOf(e), z)
    PROVE  z \in FindZone(ManagedZones, NameOf(e))
<1> DEFINE n == NameOf(e)
           fit == {y \in ManagedZones : HasSuffix(n, y)}
           first == {x \in fit : \A y \in fit : Len(y.name) <= Len(x.name)}
<1>1. \A y \in ManagedZones : y.name \in Seq(STRING) /\ Len(y.name) \in Nat
  BY ZoneAssumption DEF ManagedZones
<1>2. \A y \in ManagedZones : InZone(n, y) /\ y.name # <<>> => y \in fit
  BY DEF HasSuffix
<1>3. CASE fit = {}
  <2>1. z \in ManagedZones /\ z.name = <<>>
    BY <1>3 DEF findMsgZone
  <2>2. \A y \in ManagedZones : InZone(n, y) => y.name = <<>>
    BY <1>2, <1>3
  <2> HIDE DEF fit
  <2> QED
    BY <1>1, <2>1, <2>2 DEF FindZone
<1>4. CASE fit # {}
  <2>1. first # {}
    <3>1. IsFiniteSet(fit)
      BY ByZoneFinite, FS_EmptySet, FiniteSubset
    <3> HIDE DEF fit
    <3>2. \A y \in fit : Len(y.name) \in Nat
      BY <1>1 DEF fit
    <3> QED
      BY <1>4, <3>1, <3>2, MostLabels
  <2>2. z \in first
    <3>1. z = CHOOSE x \in first : TRUE
      BY <1>4 DEF findMsgZone
    <3> HIDE DEF first
    <3> QED
      BY <2>1, <3>1
  <2>3. z \in ManagedZones /\ \A y \in fit : Len(y.name) <= Len(z.name)
    BY <2>2
  <2>4. \A y \in ManagedZones : InZone(n, y) => Len(y.name) <= Len(z.name)
    <3> SUFFICES ASSUME NEW y \in ManagedZones, InZone(n, y) PROVE Len(y.name) <= Len(z.name)
      OBVIOUS
    <3>1. CASE y.name = <<>>
      BY <1>1, <2>3, <3>1
    <3>2. CASE y.name # <<>>
      BY <1>2, <2>3, <3>2
    <3> QED
      BY <3>1, <3>2
  <2> QED
    BY <2>3, <2>4 DEF FindZone
<1> QED
  BY <1>3, <1>4

LEMMA ChunksOf ==
    ASSUME NEW E, IsFiniteSet(E)
    PROVE  /\ IsFiniteSet(DOMAIN Chunks(E))
           /\ \A i \in DOMAIN Chunks(E) : \A z :
                  AllInZone(E, i, z) => \A e \in InChunk(E, i, z) : <<z, e>> \in ByZone(E)
<1> DEFINE n == RFC2136BatchChangeSize
           s == AsSeq(E)
           f == [x \in E |-> <<x>>]
<1>1. n \in Nat /\ n # 0
  BY RFC2136Assumption
<1>2. s \in Seq(E)
  <2>1. DOMAIN f = E /\ \A x \in E : f[x] \in Seq(E)
    OBVIOUS
  <2>2. s = Concat(f)
    BY DEF AsSeq
  <2> HIDE DEF f, s
  <2> QED
    BY <2>1, <2>2, ConcatSeq
<1> HIDE DEF s, n
<1>3. Len(s) \in Nat /\ DOMAIN s = 1 .. Len(s)
  BY <1>2
<1>4. (Len(s) + n - 1) \div n \in Int
  BY <1>1, <1>3
<1>5. DOMAIN Chunks(E) = 1 .. (Len(s) + n - 1) \div n
  BY DEF Chunks, chunkBy, s, n
<1>6. IsFiniteSet(DOMAIN Chunks(E))
  BY <1>4, <1>5, FS_Interval
<1>7. ASSUME NEW i \in DOMAIN Chunks(E) PROVE Chunks(E)[i] \in Seq(E)
  <2> DEFINE lo == (i - 1) * n + 1
             hi == IF i * n < Len(s) THEN i * n ELSE Len(s)
  <2>1. i \in Nat /\ i # 0
    BY <1>4, <1>5, <1>7
  <2>2. (i - 1) * n \in Nat /\ i * n \in Nat
    <3>1. i - 1 \in Nat
      BY <2>1
    <3> QED
      BY <1>1, <2>1, <3>1
  <2>3. lo \in Int /\ hi \in Int /\ lo >= 1 /\ hi <= Len(s)
    BY <1>3, <2>2
  <2>4. Chunks(E)[i] = SubSeq(s, lo, hi)
    BY <1>5, <1>7 DEF Chunks, chunkBy, s, n
  <2> HIDE DEF lo, hi
  <2>5. \A x \in lo .. hi : s[x] \in E
    BY <1>2, <1>3, <2>3, ElementOfSeq
  <2> QED
    BY <2>3, <2>4, <2>5, SubSeqProperties
<1>8. ASSUME NEW i \in DOMAIN Chunks(E), NEW z, AllInZone(E, i, z), NEW e \in InChunk(E, i, z)
      PROVE  <<z, e>> \in ByZone(E)
  <2>0. e \in E /\ z \in findMsgZone(e)
    BY <1>7, <1>8, ElementOfSeq, LenProperties DEF InChunk
  <2>1. z \in FindZone(ManagedZones, NameOf(e))
    BY <1>8, <2>0, FoundMsgZone DEF AllInZone
  <2> QED
    BY <2>0, <2>1 DEF ByZone
<1> QED
  BY <1>6, <1>8

\* What a message removes is not looked at here.
LEMMA MessagesGood ==
    ASSUME NEW ch, FiniteChanges(ch), NEW E, IsFiniteSet(E), E \subseteq All(ch),
           NEW f, DOMAIN f = DOMAIN Chunks(E),
           \A i \in DOMAIN f : \E g : \E t \in {<<>>, <<Refuse("note")>>} :
               /\ f[i] = Concat(g) \o t /\ DOMAIN g \subseteq ManagedZones
               /\ \A z \in DOMAIN g : IsMessage(E, i, z, g[z])
    PROVE  GoodScript("rfc2136", All(ch), Concat(f))
<1>1. ASSUME NEW i \in DOMAIN f, NEW z, AllInZone(E, i, z)
      PROVE  RSet("rfc2136", All(ch), AddChunk(E, i, z))
  <2> DEFINE h == [e \in InChunk(E, i, z) |-> AddRecord(z, e)]
  <2>1. \A e \in InChunk(E, i, z) : <<z, e>> \in ByZone(E)
    BY <1>1, ChunksOf
  <2>2. InChunk(E, i, z) \subseteq E
    BY <2>1, InByZone
  <2>3. IsFiniteSet(DOMAIN h)
    BY <2>2, FiniteSubset
  <2>4. \A e \in InChunk(E, i, z) : RSet("rfc2136", All(ch), AddRecord(z, e))
    <3> SUFFICES ASSUME NEW e \in InChunk(E, i, z) PROVE RSet("rfc2136", All(ch), AddRecord(z, e))
      OBVIOUS
    <3> DEFINE p == <<z, e>>
    <3>1. p \in ByZone(All(ch)) /\ p[1] = z /\ p[2] = e
      BY <2>1, ByZoneMore
    <3> HIDE DEF p
    <3>2. "rfc2136" \notin Relatively
      BY DEF Relatively
    <3> QED
      BY <3>1, <3>2, NamedPlaced DEF RSet, AddRecord
  <2>5. AddChunk(E, i, z) = UnionOf(h)
    BY DEF UnionOf, AddChunk
  <2>6. DOMAIN h = InChunk(E, i, z) /\ \A e \in DOMAIN h : h[e] = AddRecord(z, e)
    OBVIOUS
  <2> HIDE DEF h
  <2> QED
    BY <2>3, <2>4, <2>5, <2>6, UnionSets
<1>2. ASSUME NEW i \in DOMAIN f PROVE GoodScript("rfc2136", All(ch), f[i])
  <2>1. PICK g : \E t \in {<<>>, <<Refuse("note")>>} :
                   /\ f[i] = Concat(g) \o t /\ DOMAIN g \subseteq ManagedZones
                   /\ \A z \in DOMAIN g : IsMessage(E, i, z, g[z])
    OBVIOUS
  <2>2. IsFiniteSet(DOMAIN g)
    BY <2>1, ByZoneFinite, FiniteSubset
  <2>3. ASSUME NEW z \in DOMAIN g PROVE \E c : g[z] = <<c>> /\ GoodCall("rfc2136", All(ch), c)
    <3>1. CASE g[z] = <<Refuse("note")>>
      BY <3>1, FS_EmptySet, GoodCalls
    <3>2. CASE AllInZone(E, i, z) /\ \E D, A : g[z] = <<Call({}, D, A, "note")>> /\ A \subseteq AddChunk(E, i, z)
      <4>1. PICK D, A : g[z] = <<Call({}, D, A, "note")>> /\ A \subseteq AddChunk(E, i, z)
        BY <3>2
      <4>2. RSet("rfc2136", All(ch), A)
        BY <1>1, <3>2, <4>1, SmallerSet
      <4>3. GoodCall("rfc2136", All(ch), Call({}, D, A, "note"))
        BY <4>2 DEF GoodCall, Call, RSet, Exact
      <4> QED
        BY <4>1, <4>3
    <3> QED
      BY <2>1, <3>1, <3>2 DEF IsMessage
  <2>4. GoodScript("rfc2136", All(ch), Concat(g))
    BY <2>2, <2>3, GoodEach
  <2>5. \A t \in {<<>>, <<Refuse("note")>>} : GoodScript("rfc2136", All(ch), t)
    BY FS_EmptySet, GoodCalls, GoodSingle, GoodEmpty
  <2> QED
    BY <2>1, <2>4, <2>5, GoodJoin
<1> QED
  BY <1>2, ChunksOf, GoodConcat

LEMMA RFC2136Good ==
    ASSUME NEW ch, FiniteChanges(ch), NEW S
    PROVE  GoodScript("rfc2136", All(ch), RFC2136_ApplyChanges(S, ch))
<1> DEFINE at(E, i) == {z \in ManagedZones : InChunk(E, i, z) # {}}
           old(e) == {OldOf(ch, e)}
           rem1(E, i, z) == UNION {UNION {RemoveRecord(S, z, g) : g \in {} \cup {e}} : e \in InChunk(E, i, z)}
           rem2(E, i, z) == UNION {UNION {RemoveRecord(S, z, g) : g \in old(e) \cup {e}} : e \in InChunk(E, i, z)}
           rem3(E, i, z) == UNION {UNION {RemoveRecord(S, z, g) : g \in {e} \cup {}} : e \in InChunk(E, i, z)}
           add1(E, i, z) == UNION {UNION {AddRecord(z, f) : f \in {e}} : e \in InChunk(E, i, z)}
           add3(E, i, z) == UNION {UNION {AddRecord(z, f) : f \in {}} : e \in InChunk(E, i, z)}
           sent(E, i, z, c) == <<IF AllInZone(E, i, z) THEN c ELSE Refuse("note")>>
           lost(E, i) == {j \in DOMAIN Chunks(E)[i] : findMsgZone(Chunks(E)[i][j]) = {}}
           rest(E, i) == IF lost(E, i) = {} THEN <<>> ELSE <<Refuse("note")>>
           g1(i) == [z \in at(ch.create, i) |->
                       sent(ch.create, i, z, Call({}, rem1(ch.create, i, z), add1(ch.create, i, z), "note"))]
           g2(i) == [z \in at(ch.updateNew, i) |->
                       sent(ch.updateNew, i, z, Call({}, rem2(ch.updateNew, i, z), add1(ch.updateNew, i, z), "note"))]
           g3(i) == [z \in at(ch.delete, i) |->
                       sent(ch.delete, i, z, Call({}, rem3(ch.delete, i, z), add3(ch.delete, i, z), "note"))]
           f1 == [i \in DOMAIN Chunks(ch.create) |-> Concat(g1(i)) \o rest(ch.create, i)]
           f2 == [i \in DOMAIN Chunks(ch.updateNew) |-> Concat(g2(i)) \o rest(ch.updateNew, i)]
           f3 == [i \in DOMAIN Chunks(ch.delete) |-> Concat(g3(i)) \o rest(ch.delete, i)]
<1>1. RFC2136_ApplyChanges(S, ch) \in {<<>>, Concat(f1) \o Concat(f2) \o Concat(f3)}
  BY DEF RFC2136_ApplyChanges, ConcatOver, Each, Chunks, InChunk, AllInZone
<1>2. \A E, i, z : add1(E, i, z) \subseteq AddChunk(E, i, z) /\ add3(E, i, z) \subseteq AddChunk(E, i, z)
  BY DEF AddChunk
<1>3. /\ IsFiniteSet(ch.create) /\ ch.create \subseteq All(ch)
      /\ IsFiniteSet(ch.updateNew) /\ ch.updateNew \subseteq All(ch)
      /\ IsFiniteSet(ch.delete) /\ ch.delete \subseteq All(ch)
  BY DEF FiniteChanges, All
<1> \A E, i : rest(E, i) \in {<<>>, <<Refuse("note")>>}
  OBVIOUS
<1>b. ASSUME NEW E, NEW i, NEW z, NEW D, NEW A, A \subseteq AddChunk(E, i, z)
      PROVE  IsMessage(E, i, z, sent(E, i, z, Call({}, D, A, "note")))
  BY <1>b DEF IsMessage
<1> HIDE DEF add1, add3, rem1, rem2, rem3, sent, rest
<1>4. GoodScript("rfc2136", All(ch), Concat(f1))
  <2>1. DOMAIN f1 = DOMAIN Chunks(ch.create) /\ \A i \in DOMAIN f1 : f1[i] = Concat(g1(i)) \o rest(ch.create, i)
    OBVIOUS
  <2>2. \A i : /\ DOMAIN g1(i) \subseteq ManagedZones
               /\ \A z \in DOMAIN g1(i) :
                      g1(i)[z] = sent(ch.create, i, z, Call({}, rem1(ch.create, i, z), add1(ch.create, i, z), "note"))
    OBVIOUS
  <2> HIDE DEF f1, g1
  <2>3. \A i : \A z \in DOMAIN g1(i) : IsMessage(ch.create, i, z, g1(i)[z])
    BY <1>2, <1>b, <2>2
  <2>4. \A i \in DOMAIN f1 : \E g : \E t \in {<<>>, <<Refuse("note")>>} :
            /\ f1[i] = Concat(g) \o t /\ DOMAIN g \subseteq ManagedZones
            /\ \A z \in DOMAIN g : IsMessage(ch.create, i, z, g[z])
    <3> TAKE i \in DOMAIN f1
    <3> WITNESS g1(i)
    <3> WITNESS rest(ch.create, i) \in {<<>>, <<Refuse("note")>>}
    <3> QED
      BY <2>1, <2>2, <2>3
  <2> QED
    BY <1>3, <2>1, <2>4, MessagesGood
<1>5. GoodScript("rfc2136", All(ch), Concat(f2))
  <2>1. DOMAIN f2 = DOMAIN Chunks(ch.updateNew) /\ \A i \in DOMAIN f2 : f2[i] = Concat(g2(i)) \o rest(ch.updateNew, i)
    OBVIOUS
  <2>2. \A i : /\ DOMAIN g2(i) \subseteq ManagedZones
               /\ \A z \in DOMAIN g2(i) :
                      g2(i)[z] = sent(ch.updateNew, i, z, Call({}, rem2(ch.updateNew, i, z), add1(ch.updateNew, i, z), "note"))
    OBVIOUS
  <2> HIDE DEF f2, g2
  <2>3. \A i : \A z \in DOMAIN g2(i) : IsMessage(ch.updateNew, i, z, g2(i)[z])
    BY <1>2, <1>b, <2>2
  <2>4. \A i \in DOMAIN f2 : \E g : \E t \in {<<>>, <<Refuse("note")>>} :
            /\ f2[i] = Concat(g) \o t /\ DOMAIN g \subseteq ManagedZones
            /\ \A z \in DOMAIN g : IsMessage(ch.updateNew, i, z, g[z])
    <3> TAKE i \in DOMAIN f2
    <3> WITNESS g2(i)
    <3> WITNESS rest(ch.updateNew, i) \in {<<>>, <<Refuse("note")>>}
    <3> QED
      BY <2>1, <2>2, <2>3
  <2> QED
    BY <1>3, <2>1, <2>4, MessagesGood
<1>6. GoodScript("rfc2136", All(ch), Concat(f3))
  <2>1. DOMAIN f3 = DOMAIN Chunks(ch.delete) /\ \A i \in DOMAIN f3 : f3[i] = Concat(g3(i)) \o rest(ch.delete, i)
    OBVIOUS
  <2>2. \A i : /\ DOMAIN g3(i) \subseteq ManagedZones
               /\ \A z \in DOMAIN g3(i) :
                      g3(i)[z] = sent(ch.delete, i, z, Call({}, rem3(ch.delete, i, z), add3(ch.delete, i, z), "note"))
    OBVIOUS
  <2> HIDE DEF f3, g3
  <2>3. \A i : \A z \in DOMAIN g3(i) : IsMessage(ch.delete, i, z, g3(i)[z])
    BY <1>2, <1>b, <2>2
  <2>4. \A i \in DOMAIN f3 : \E g : \E t \in {<<>>, <<Refuse("note")>>} :
            /\ f3[i] = Concat(g) \o t /\ DOMAIN g \subseteq ManagedZones
            /\ \A z \in DOMAIN g : IsMessage(ch.delete, i, z, g[z])
    <3> TAKE i \in DOMAIN f3
    <3> WITNESS g3(i)
    <3> WITNESS rest(ch.delete, i) \in {<<>>, <<Refuse("note")>>}
    <3> QED
      BY <2>1, <2>2, <2>3
  <2> QED
    BY <1>3, <2>1, <2>4, MessagesGood
<1> HIDE DEF f1, f2, f3
<1> QED
  BY <1>1, <1>4, <1>5, <1>6, GoodEmpty, GoodJoin

=============================================================================
