-------------------------- MODULE ConversionProofs --------------------------
(***************************************************************************)
(* The laws of conversion between v1beta1 and v1beta2, kind by kind: types *)
(* are kept, what a v1beta1 client sends is what it finds again, and what  *)
(* it sends back as it was means what it meant.                            *)
(***************************************************************************)
EXTENDS APIServer, FiniteSetTheorems, SequenceTheorems, WellFoundedInduction,
        TLAPS

----------------------------------------------------------------------------
(* Integers. *)

LEMMA Remainders ==
    ASSUME NEW m \in Nat \ {0}
    PROVE  /\ \A a \in Int : a % m \in 0..(m - 1)
           /\ \A a \in 0..(m - 1) : a % m = a
  BY SMT

\* int32() gives an integer of 32 bits, and the one it was given if it can.
LEMMA Narrowing ==
    /\ \A n \in Int32 : n \in Int /\ Wrap(n) = n
    /\ \A n \in Int : Wrap(n) \in Int32
<1> DEFINE h == HalfRange
           m == 2 * h
<1>1. h \in Nat /\ h > 6443 /\ m \in Nat \ {0} /\ m = h + h
  BY IntBitsAssumption
<1>2. Int32 = -h..(h - 1) /\ \A n : Wrap(n) = ((n + h) % m) - h
  BY DEF Int32, Wrap
<1> HIDE DEF h, m
<1>3. /\ \A a \in Int : a % m \in 0..(m - 1)
      /\ \A a \in 0..(m - 1) : a % m = a
  BY <1>1, Remainders
<1>4. ASSUME NEW n \in Int32 PROVE n \in Int /\ Wrap(n) = n
  <2>1. n \in Int /\ n + h \in 0..(m - 1)
    BY <1>1, <1>2
  <2>2. (n + h) % m = n + h
    BY <1>3, <2>1
  <2>3. QED
    BY <1>1, <1>2, <2>1, <2>2
<1>5. ASSUME NEW n \in Int PROVE Wrap(n) \in Int32
  <2>1. (n + h) % m \in 0..(m - 1)
    BY <1>1, <1>3
  <2>2. \A a \in 0..(m - 1) : a - h \in -h..(h - 1)
    BY <1>1
  <2>3. QED
    BY <1>2, <2>1, <2>2
<1>6. QED
  BY <1>4, <1>5

\* The numbers the code writes itself have 32 bits.
LEMMA OwnNumbers ==
    /\ 0 \in Int32 /\ MinRetryLimit \in Int32 /\ DefaultTimeout \in Int32
    /\ DefaultPort \in Int32
  BY IntBitsAssumption DEF Int32, MinRetryLimit, DefaultTimeout, DefaultPort

----------------------------------------------------------------------------
(* Sorting. *)

LEMMA LeastNat ==
    ASSUME NEW S \in SUBSET Nat, S # {}
    PROVE  \E x \in S : \A y \in S : x <= y
<1> DEFINE R == {ss \in Nat \X Nat : ss[1] < ss[2]}
<1>1. R = OpToRel(<, Nat)
  BY Zenon DEF OpToRel
<1>2. IsWellFoundedOn(R, Nat)
  BY <1>1, NatLessThanWellFounded, Zenon
<1>3. PICK x \in S : \A y \in S : ~(<<y, x>> \in R)
  <2> HIDE DEF R
  <2> QED
    BY <1>2, WFMin
<1>4. ASSUME NEW y \in S PROVE x <= y
  <2>1. y < x => <<y, x>> \in R
    BY SMT
  <2>2. ~(y < x)
    BY <1>3, <2>1, Zenon
  <2>3. QED
    BY <2>2
<1>5. QED
  BY <1>4

\* s lists the n names of d, each once, in the order of key.
Lists(s, d, key, n) ==
    /\ s \in [1..n -> d]
    /\ \A x \in d : \E i \in 1..n : \A j \in 1..n : s[j] = x <=> j = i
    /\ \A i, j \in 1..n : i < j => key[s[i]] <= key[s[j]]

\* With a name in front that has the least key.
LEMMA ListsOneMore ==
    ASSUME NEW D, NEW key \in [D -> Nat], NEW d \in SUBSET D, NEW x \in d,
           \A y \in d : key[x] <= key[y], NEW n \in Nat, NEW s,
           Lists(s, d \ {x}, key, n)
    PROVE  \E t : Lists(t, d, key, n + 1)
<1> DEFINE t == [i \in 1..(n + 1) |-> IF i = 1 THEN x ELSE s[i - 1]]
<1>1. /\ s \in [1..n -> d \ {x}]
      /\ \A y \in d \ {x} : \E i \in 1..n : \A j \in 1..n : s[j] = y <=> j = i
      /\ \A i, j \in 1..n : i < j => key[s[i]] <= key[s[j]]
  BY DEF Lists
<1>2. \A i \in 2..(n + 1) : i - 1 \in 1..n /\ t[i] = s[i - 1] /\ t[i] \in d \ {x}
  BY <1>1
<1>3. t[1] = x /\ t \in [1..(n + 1) -> d]
  BY <1>1
<1> HIDE DEF t
<1>4. ASSUME NEW y \in d
      PROVE  \E i \in 1..(n + 1) : \A j \in 1..(n + 1) : t[j] = y <=> j = i
  <2>1. CASE y = x
    <3>1. \A j \in 1..(n + 1) : t[j] = x <=> j = 1
      BY <1>2, <1>3
    <3>2. QED
      BY <2>1, <3>1
  <2>2. CASE y # x
    <3>1. PICK i \in 1..n : \A j \in 1..n : s[j] = y <=> j = i
      BY <1>1, <2>2
    <3>2. \A j \in 1..(n + 1) : t[j] = y <=> j = i + 1
      <4> SUFFICES ASSUME NEW j \in 1..(n + 1) PROVE t[j] = y <=> j = i + 1
        OBVIOUS
      <4>1. CASE j = 1
        BY <1>3, <2>2, <4>1
      <4>2. CASE j # 1
        <5>1. j \in 2..(n + 1) /\ j - 1 \in 1..n
          BY <4>2
        <5>2. t[j] = s[j - 1]
          BY <1>2, <5>1
        <5>3. s[j - 1] = y <=> j - 1 = i
          BY <3>1, <5>1
        <5>4. QED
          BY <5>1, <5>2, <5>3
      <4>3. QED
        BY <4>1, <4>2
    <3>3. i + 1 \in 1..(n + 1)
      OBVIOUS
    <3>4. QED
      BY <3>2, <3>3
  <2>3. QED
    BY <2>1, <2>2
<1>5. ASSUME NEW i \in 1..(n + 1), NEW j \in 1..(n + 1), i < j
      PROVE  key[t[i]] <= key[t[j]]
  <2>1. j \in 2..(n + 1) /\ t[j] = s[j - 1] /\ t[j] \in d \ {x} /\ j - 1 \in 1..n
    BY <1>2, <1>5
  <2>2. CASE i = 1
    BY <1>3, <2>1, <2>2
  <2>3. CASE i # 1
    <3>1. /\ i \in 2..(n + 1) /\ t[i] = s[i - 1] /\ i - 1 \in 1..n
          /\ i - 1 < j - 1
      BY <1>2, <1>5, <2>3
    <3>2. key[s[i - 1]] <= key[s[j - 1]]
      BY <1>1, <2>1, <3>1
    <3>3. QED
      BY <2>1, <3>1, <3>2
  <2>4. QED
    BY <2>2, <2>3
<1>6. QED
  BY <1>3, <1>4, <1>5 DEF Lists

\* Every finite set can be sorted, by induction on its size: of the sizes
\* for which this fails there is no least.
LEMMA SortExists ==
    ASSUME NEW D, IsFiniteSet(D), NEW key \in [D -> Nat]
    PROVE  \E s : Lists(s, D, key, Cardinality(D))
<1> DEFINE Bad(d) == ~\E s : Lists(s, d, key, Cardinality(d))
           T == {m \in Nat : \E d \in SUBSET D : Cardinality(d) = m /\ Bad(d)}
<1> SUFFICES ASSUME Bad(D) PROVE FALSE
  OBVIOUS
<1>1. Cardinality(D) \in T
  BY FS_CardinalityType
<1>2. PICK m \in T : \A y \in T : m <= y
  <2> HIDE DEF T
  <2>1. T \in SUBSET Nat /\ T # {}
    BY <1>1 DEF T
  <2>2. QED
    BY <2>1, LeastNat
<1>3. PICK d \in SUBSET D : Cardinality(d) = m /\ Bad(d)
  OBVIOUS
<1>4. IsFiniteSet(d) /\ m \in Nat
  BY FS_Subset
<1>5. CASE d = {}
  <2>1. Cardinality(d) = 0
    BY <1>5, FS_EmptySet
  <2>2. Lists([i \in {} |-> i], d, key, 0)
    BY <1>5 DEF Lists
  <2>3. QED
    BY <1>3, <2>1, <2>2
<1>6. CASE d # {}
  <2> DEFINE K == {key[y] : y \in d}
  <2>1. K \in SUBSET Nat /\ K # {}
    BY <1>6
  <2>2. PICK a \in K : \A b \in K : a <= b
    BY <2>1, LeastNat
  <2>3. PICK x \in d : key[x] = a
    BY <2>2
  <2>4. \A y \in d : key[x] <= key[y]
    BY <2>2, <2>3
  <2> DEFINE e == d \ {x}
             n == Cardinality(e)
  <2>5. IsFiniteSet(e) /\ n = m - 1 /\ n \in Nat
    BY <1>3, <1>4, <2>3, FS_RemoveElement, FS_CardinalityType
  <2>6. e \in SUBSET D
    OBVIOUS
  <2>7. ~Bad(e)
    <3>1. n \notin T
      <4> HIDE DEF T, n
      <4>1. QED
        BY <1>2, <1>4, <2>5
    <3> HIDE DEF e, Bad
    <3>2. QED
      BY <2>5, <2>6, <3>1
  <2>8. PICK s : Lists(s, e, key, n)
    BY <2>7
  <2> HIDE DEF n
  <2>9. \E t : Lists(t, d, key, n + 1)
    BY <2>3, <2>4, <2>5, <2>8, ListsOneMore
  <2>10. QED
    BY <1>3, <1>4, <2>5, <2>9
<1>7. QED
  BY <1>5, <1>6

LEMMA SortedLists ==
    ASSUME NEW D, IsFiniteSet(D), NEW key \in [D -> Nat]
    PROVE  Lists(SortedBy(key), D, key, Cardinality(D))
<1> DEFINE n == Cardinality(D)
           P(s) == /\ \A x \in DOMAIN key : \E i \in DOMAIN s :
                         \A j \in DOMAIN s : s[j] = x <=> j = i
                   /\ \A i, j \in DOMAIN s : i < j => key[s[i]] <= key[s[j]]
<1>1. DOMAIN key = D
  OBVIOUS
<1>2. SortedBy(key) = CHOOSE s \in [1..n -> D] : P(s)
  BY <1>1 DEF SortedBy
<1>3. ASSUME NEW s \in [1..n -> D]
      PROVE  P(s) <=> Lists(s, D, key, n)
  <2>1. DOMAIN s = 1..n
    OBVIOUS
  <2>2. QED
    BY <1>1, <2>1 DEF Lists
<1>4. PICK s : Lists(s, D, key, n)
  BY SortExists
<1>5. s \in [1..n -> D]
  BY <1>4 DEF Lists
<1> HIDE DEF P, n
<1>6. SortedBy(key) \in [1..n -> D] /\ P(SortedBy(key))
  BY <1>2, <1>3, <1>4, <1>5
<1>7. QED
  BY <1>3, <1>6 DEF n

----------------------------------------------------------------------------
(* Maps and lists. *)

LEMMA SequenceOf ==
    ASSUME NEW n \in Nat, NEW T, NEW s \in [1..n -> T]
    PROVE  s \in Seq(T) /\ DOMAIN s = 1..n
  BY SMT

LEMMA DomainOfList ==
    ASSUME NEW T, NEW s \in Seq(T)
    PROVE  /\ Len(s) \in Nat /\ DOMAIN s = 1..Len(s)
           /\ \A i \in DOMAIN s : s[i] \in T /\ i \in Int
  BY SMT

LEMMA ListMapped ==
    ASSUME NEW S, NEW s \in Seq(S), NEW T, NEW t \in [DOMAIN s -> T]
    PROVE  t \in Seq(T)
<1>1. DOMAIN s = 1..Len(s) /\ Len(s) \in Nat
  BY DomainOfList
<1>2. QED
  BY <1>1, SequenceOf

\* The keys of a map, sorted: each of them once.
LEMMA KeysListed ==
    ASSUME NEW m, IsFiniteSet(Keys(m)), NEW key \in [Keys(m) -> Nat]
    PROVE  LET s == SortedBy(key) IN
           /\ s \in Seq(Keys(m))
           /\ \A x \in Keys(m) : \E i \in DOMAIN s : s[i] = x
           /\ \A i, j \in DOMAIN s : s[i] = s[j] => i = j
<1> DEFINE s == SortedBy(key)
           n == Cardinality(Keys(m))
<1>1. n \in Nat
  BY FS_CardinalityType
<1>2. Lists(s, Keys(m), key, n)
  BY SortedLists
<1> HIDE DEF s, n
<1>3. s \in Seq(Keys(m)) /\ DOMAIN s = 1..n
  BY <1>1, <1>2, SequenceOf DEF Lists
<1>4. \A x \in Keys(m) : \E i \in DOMAIN s : \A j \in DOMAIN s : s[j] = x <=> j = i
  BY <1>2, <1>3 DEF Lists
<1>5. \A i \in DOMAIN s : s[i] \in Keys(m)
  BY <1>2, <1>3 DEF Lists
<1>6. QED
  BY <1>3, <1>4, <1>5 DEF s

Unique(s) == \A i, j \in DOMAIN s : s[i].name = s[j].name => i = j

LEMMA LastIsThere ==
    ASSUME NEW T, NEW s \in Seq(T), NEW i \in DOMAIN s
    PROVE  /\ LastOf(s, s[i].name) \in DOMAIN s
           /\ s[LastOf(s, s[i].name)].name = s[i].name
<1> DEFINE S == {j \in DOMAIN s : s[j].name = s[i].name}
           P(j) == s[j].name = s[i].name
                   /\ \A l \in DOMAIN s : s[l].name = s[i].name => l <= j
<1>1. DOMAIN s = 1..Len(s) /\ Len(s) \in Nat
  BY DomainOfList
<1>2. PICK x \in {Len(s) - j : j \in S} : \A y \in {Len(s) - j : j \in S} : x <= y
  <2>1. {Len(s) - j : j \in S} \in SUBSET Nat /\ {Len(s) - j : j \in S} # {}
    BY <1>1
  <2> HIDE DEF S
  <2>2. QED
    BY <2>1, LeastNat
<1>3. PICK j \in S : x = Len(s) - j
  OBVIOUS
<1>4. j \in DOMAIN s /\ P(j)
  <2>1. j \in DOMAIN s /\ s[j].name = s[i].name /\ j \in Int
    BY <1>1
  <2>2. ASSUME NEW l \in DOMAIN s, s[l].name = s[i].name PROVE l <= j
    <3>1. l \in S /\ l \in Int
      BY <1>1, <2>2
    <3>2. Len(s) - j <= Len(s) - l
      <4> HIDE DEF S
      <4> QED
        BY <1>2, <1>3, <3>1
    <3>3. QED
      BY <1>1, <2>1, <3>1, <3>2
  <2>3. QED
    BY <2>1, <2>2
<1>5. LastOf(s, s[i].name) = CHOOSE l \in DOMAIN s : P(l)
  BY DEF LastOf
<1> HIDE DEF P
<1>6. LastOf(s, s[i].name) \in DOMAIN s /\ P(LastOf(s, s[i].name))
  BY <1>4, <1>5
<1>7. QED
  BY <1>6 DEF P

LEMMA LastIsOnly ==
    ASSUME NEW T, NEW s \in Seq(T), Unique(s), NEW i \in DOMAIN s
    PROVE  LastOf(s, s[i].name) = i
  BY LastIsThere DEF Unique

\* The map of a list, where val has the values of its entries.
Mapped(s, val) ==
    [n \in Names |-> IF \E i \in DOMAIN s : s[i].name = n
                     THEN val[LastOf(s, n)] ELSE Nil]

LEMMA MappedTypes ==
    ASSUME NEW T, NEW s \in Seq(T), \A i \in DOMAIN s : s[i].name \in Names,
           NEW V, NEW val \in [DOMAIN s -> V]
    PROVE  Mapped(s, val) \in MapOf(V)
<1> DEFINE m == Mapped(s, val)
<1>1. m \in [Names -> Ptr(V)]
  BY LastIsThere DEF Mapped, Ptr
<1>2. Keys(m) \subseteq {s[i].name : i \in DOMAIN s}
  BY DEF Keys, Mapped
<1>3. IsFiniteSet(DOMAIN s)
  BY DomainOfList, FS_Interval
<1>4. IsFiniteSet({s[i].name : i \in DOMAIN s})
  <2> DEFINE U == {s[i].name : i \in DOMAIN s}
             f == [i \in DOMAIN s |-> s[i].name]
  <2>1. f \in Surjection(DOMAIN s, U)
    BY DEF Surjection
  <2> HIDE DEF f
  <2>2. QED
    BY <1>3, <2>1, FS_Surjection
<1>5. IsFiniteSet(Keys(m))
  BY <1>2, <1>4, FS_Subset
<1>6. QED
  BY <1>1, <1>5 DEF MapOf

LEMMA MappedEntries ==
    ASSUME NEW T, NEW s \in Seq(T), \A i \in DOMAIN s : s[i].name \in Names,
           Unique(s), NEW val
    PROVE  /\ \A i \in DOMAIN s : Mapped(s, val)[s[i].name] = val[i]
           /\ \A n \in Names : (\A i \in DOMAIN s : s[i].name # n)
                  => Mapped(s, val)[n] = Nil
           /\ DOMAIN Mapped(s, val) = Names
<1>1. ASSUME NEW i \in DOMAIN s PROVE Mapped(s, val)[s[i].name] = val[i]
  <2>1. LastOf(s, s[i].name) = i
    BY LastIsOnly
  <2>2. QED
    BY <2>1 DEF Mapped
<1>2. QED
  BY <1>1 DEF Mapped

----------------------------------------------------------------------------
(* Failure domains, bond parameters and indexes. *)

\* Names are numbers, so the keys of a map are their own sort key.
LEMMA KeysByName ==
    ASSUME NEW V, NEW m \in MapOf(V)
    PROVE  LET s == SortedBy([n \in Keys(m) |-> n]) IN
           /\ s \in Seq(Keys(m)) /\ \A i \in DOMAIN s : s[i] \in Keys(m)
           /\ \A x \in Keys(m) : \E i \in DOMAIN s : s[i] = x
           /\ \A i, j \in DOMAIN s : s[i] = s[j] => i = j
<1>1. IsFiniteSet(Keys(m))
  BY DEF MapOf
<1>2. [n \in Keys(m) |-> n] \in [Keys(m) -> Nat]
  BY NamesAssumption DEF Keys
<1>3. QED
  BY <1>1, <1>2, KeysListed, DomainOfList

LEMMA NamedLists ==
    /\ \A S : \A s \in NamedListOf(S) : s # Nil => s \in Seq(S) /\ Unique(s)
    /\ \A S : \A s \in Seq(S) : Unique(s) => s \in NamedListOf(S)
    /\ \A S : Nil \in NamedListOf(S)
  BY DEF NamedListOf, Unique, Ptr

\* Of v1beta1 failure domains nothing is lost in v1beta2.
LEMMA DomainsThere ==
    ASSUME NEW m \in Ptr(MapOf(BOOLEAN))
    PROVE  /\ FailureDomainsToV2(m) \in NamedListOf(FailureDomainT)
           /\ FailureDomainsToV1(FailureDomainsToV2(m)) = m
           /\ m # Nil => DomainsMeaning(FailureDomainsToV2(m))
                             = {<<n, m[n]>> : n \in Keys(m)}
<1>1. CASE m = Nil
  <2>1. FailureDomainsToV2(m) = Nil
    BY <1>1 DEF FailureDomainsToV2, MapToList
  <2>2. FailureDomainsToV1(Nil) = Nil
    BY DEF FailureDomainsToV1, ListToMap
  <2>3. QED
    BY <1>1, <2>1, <2>2, NamedLists
<1>2. CASE m # Nil
  <2> DEFINE s == SortedBy([n \in Keys(m) |-> n])
             l == [i \in DOMAIN s |->
                     [name |-> s[i], cp |-> PtrUnless(m[s[i]], FALSE)]]
             val == [i \in DOMAIN l |-> Deref(l[i].cp, FALSE)]
  <2>1. m \in MapOf(BOOLEAN) /\ m \in [Names -> Ptr(BOOLEAN)]
    BY <1>2 DEF Ptr, MapOf
  <2>2. FailureDomainsToV2(m) = l
    BY <1>2 DEF FailureDomainsToV2, MapToList
  <2>3. /\ s \in Seq(Keys(m)) /\ \A i \in DOMAIN s : s[i] \in Keys(m)
        /\ \A x \in Keys(m) : \E i \in DOMAIN s : s[i] = x
        /\ \A i, j \in DOMAIN s : s[i] = s[j] => i = j
    BY <2>1, KeysByName
  <2> HIDE DEF s
  <2>4. \A x \in Keys(m) : x \in Names /\ m[x] \in BOOLEAN
    BY <2>1 DEF Keys, Ptr
  <2>5. l \in [DOMAIN s -> FailureDomainT]
    BY <2>3, <2>4 DEF FailureDomainT, PtrUnless, Ptr
  <2>6. l \in Seq(FailureDomainT)
    BY <2>3, <2>5, ListMapped
  <2>7. \A i \in DOMAIN s : /\ l[i].name = s[i] /\ val[i] = m[s[i]]
                            /\ Deref(l[i].cp, FALSE) = m[s[i]]
    <3>1. \A b \in BOOLEAN : Deref(PtrUnless(b, FALSE), FALSE) = b
      BY APIAssumption DEF Deref, PtrUnless
    <3>2. QED
      BY <2>3, <2>4, <3>1
  <2>8. DOMAIN l = DOMAIN s
    OBVIOUS
  <2>9. FailureDomainsToV1(l) = Mapped(l, val)
    <3>1. l # Nil
      BY <2>6, APIAssumption
    <3>2. ASSUME NEW n \in Names, NEW i \in DOMAIN l, l[i].name = n
          PROVE  val[LastOf(l, n)] = Deref(l[LastOf(l, n)].cp, FALSE)
      <4>1. LastOf(l, n) \in DOMAIN l
        BY <2>6, <3>2, LastIsThere
      <4>2. QED
        BY <4>1
    <3> HIDE DEF l, val
    <3>3. QED
      BY <3>1, <3>2 DEF FailureDomainsToV1, ListToMap, Mapped
  <2> HIDE DEF l, val
  <2>10. Unique(l)
    <3>1. \A i \in DOMAIN s : l[i].name = s[i]
      BY <2>7, Zenon
    <3>2. \A i, j \in DOMAIN s : s[i] = s[j] => i = j
      BY <2>3, Zenon
    <3>3. QED
      BY <2>8, <3>1, <3>2 DEF Unique
  <2>11. \A i \in DOMAIN l : /\ l[i].name = s[i] /\ l[i].name \in Keys(m)
                             /\ l[i].name \in Names
    <3> TAKE i \in DOMAIN l
    <3>1. i \in DOMAIN s
      BY <2>8
    <3>2. l[i].name = s[i]
      BY <2>7, <3>1, Zenon
    <3>3. s[i] \in Keys(m)
      BY <2>3, <3>1, Zenon
    <3>4. s[i] \in Names
      BY <2>4, <3>3, Zenon
    <3>5. QED
      BY <3>2, <3>3, <3>4, Zenon
  <2>12. ASSUME NEW n \in Names PROVE Mapped(l, val)[n] = m[n]
    <3>1. CASE n \in Keys(m)
      <4>1. PICK i \in DOMAIN l : l[i].name = n /\ s[i] = n
        BY <2>3, <2>7, <2>8, <3>1
      <4>2. Mapped(l, val)[l[i].name] = val[i]
        BY <2>6, <2>10, <2>11, MappedEntries
      <4>3. QED
        BY <2>7, <2>8, <4>1, <4>2
    <3>2. CASE n \notin Keys(m)
      <4>1. \A i \in DOMAIN l : l[i].name # n
        BY <2>11, <3>2, Zenon
      <4>2. Mapped(l, val)[n] = Nil
        BY <2>6, <2>10, <2>11, <4>1, MappedEntries
      <4>3. QED
        BY <3>2, <4>2 DEF Keys
    <3>3. QED
      BY <3>1, <3>2
  <2>13. Mapped(l, val) = m
    <3>1. DOMAIN Mapped(l, val) = Names /\ DOMAIN m = Names
      BY <2>1 DEF Mapped
    <3>2. Mapped(l, val) = [n \in Names |-> Mapped(l, val)[n]]
      BY DEF Mapped
    <3>3. m = [n \in Names |-> m[n]]
      BY <2>1
    <3>4. QED
      BY <2>12, <3>2, <3>3
  <2>14. DomainsMeaning(l) = {<<n, m[n]>> : n \in Keys(m)}
    <3>1. Elements(l) = l /\ ToSet(l) = {l[i] : i \in DOMAIN l}
      BY <2>6, APIAssumption DEF Elements, ToSet
    <3>2. DomainsMeaning(l) = {<<l[i].name, Deref(l[i].cp, FALSE)>> : i \in DOMAIN l}
      BY <3>1 DEF DomainsMeaning
    <3>3. \A i \in DOMAIN l : <<l[i].name, Deref(l[i].cp, FALSE)>> = <<s[i], m[s[i]]>>
      BY <2>7, <2>8, Zenon
    <3>4. DomainsMeaning(l) = {<<s[i], m[s[i]]>> : i \in DOMAIN s}
      BY <2>8, <3>2, <3>3, Zenon
    <3>5. QED
      BY <2>3, <3>4
  <2>15. l \in NamedListOf(FailureDomainT)
    BY <2>6, <2>10, NamedLists
  <2>16. QED
    BY <2>2, <2>9, <2>13, <2>14, <2>15
<1>3. QED
  BY <1>1, <1>2

\* And a v1beta2 list of them means the same after it was a v1beta1 map.
LEMMA DomainsBack ==
    ASSUME NEW l \in NamedListOf(FailureDomainT)
    PROVE  /\ FailureDomainsToV1(l) \in Ptr(MapOf(BOOLEAN))
           /\ DomainsMeaning(FailureDomainsToV2(FailureDomainsToV1(l)))
                  = DomainsMeaning(l)
<1>1. CASE l = Nil
  <2>1. FailureDomainsToV1(l) = Nil
    BY <1>1 DEF FailureDomainsToV1, ListToMap
  <2>2. FailureDomainsToV2(Nil) = Nil
    BY DEF FailureDomainsToV2, MapToList
  <2>3. QED
    BY <1>1, <2>1, <2>2 DEF Ptr
<1>2. CASE l # Nil
  <2> DEFINE val == [i \in DOMAIN l |-> Deref(l[i].cp, FALSE)]
             m == FailureDomainsToV1(l)
  <2>1. l \in Seq(FailureDomainT) /\ Unique(l)
    BY <1>2, NamedLists
  <2>2. \A i \in DOMAIN l : l[i] \in FailureDomainT
    BY <2>1, DomainOfList
  <2>3. \A i \in DOMAIN l : l[i].name \in Names /\ Deref(l[i].cp, FALSE) \in BOOLEAN
    BY <2>2 DEF FailureDomainT, Deref, Ptr
  <2>4. m = Mapped(l, val)
    <3>1. ASSUME NEW n \in Names, NEW i \in DOMAIN l, l[i].name = n
          PROVE  val[LastOf(l, n)] = Deref(l[LastOf(l, n)].cp, FALSE)
      <4>1. LastOf(l, n) \in DOMAIN l
        BY <2>1, <3>1, LastIsThere
      <4>2. QED
        BY <4>1
    <3> HIDE DEF val
    <3>2. QED
      BY <1>2, <3>1 DEF FailureDomainsToV1, ListToMap, Mapped
  <2>5. \A i \in DOMAIN l : val[i] = Deref(l[i].cp, FALSE) /\ val[i] \in BOOLEAN
    BY <2>3
  <2>6. val \in [DOMAIN l -> BOOLEAN]
    BY <2>3
  <2> HIDE DEF val, m
  <2>7. m \in MapOf(BOOLEAN) /\ m # Nil
    <3>1. \A i \in DOMAIN l : l[i].name \in Names
      BY <2>3
    <3>2. m \in MapOf(BOOLEAN)
      BY <2>1, <2>4, <2>6, <3>1, MappedTypes
    <3>3. QED
      BY <3>2, APIAssumption
  <2>8. /\ \A i \in DOMAIN l : m[l[i].name] = val[i]
        /\ \A n \in Names : (\A i \in DOMAIN l : l[i].name # n) => m[n] = Nil
    <3>1. \A i \in DOMAIN l : l[i].name \in Names
      BY <2>3
    <3>2. QED
      BY <2>1, <2>4, <3>1, MappedEntries
  <2>9. DomainsMeaning(FailureDomainsToV2(m)) = {<<n, m[n]>> : n \in Keys(m)}
    BY <2>7, DomainsThere DEF Ptr
  <2>10. DomainsMeaning(l) = {<<l[i].name, m[l[i].name]>> : i \in DOMAIN l}
    <3>1. Elements(l) = l /\ ToSet(l) = {l[i] : i \in DOMAIN l}
      BY <1>2 DEF Elements, ToSet
    <3>2. DomainsMeaning(l) = {<<l[i].name, Deref(l[i].cp, FALSE)>> : i \in DOMAIN l}
      BY <3>1 DEF DomainsMeaning
    <3>3. \A i \in DOMAIN l : <<l[i].name, Deref(l[i].cp, FALSE)>>
                                = <<l[i].name, m[l[i].name]>>
      BY <2>5, <2>8, Zenon
    <3>4. QED
      BY <3>2, <3>3, Zenon
  <2>11. Keys(m) = {l[i].name : i \in DOMAIN l}
    <3>1. \A i \in DOMAIN l : m[l[i].name] # Nil
      BY <2>5, <2>8, APIAssumption
    <3>2. \A i \in DOMAIN l : l[i].name \in Names
      BY <2>3
    <3>3. \A n \in Names : m[n] # Nil => \E i \in DOMAIN l : l[i].name = n
      BY <2>8, Zenon
    <3>4. QED
      BY <3>1, <3>2, <3>3 DEF Keys
  <2>12. {<<n, m[n]>> : n \in Keys(m)} = {<<l[i].name, m[l[i].name]>> : i \in DOMAIN l}
    BY <2>11
  <2>13. QED
    BY <2>7, <2>9, <2>10, <2>12 DEF m, Ptr
<1>3. QED
  BY <1>1, <1>2

LEMMA BondParamTypes ==
    /\ \A m \in Ptr(MapOf(Strings)) : BondParamsToV2(m) \in ListOf(BondParamT)
    /\ \A l \in ListOf(BondParamT) : BondParamsToV1(l) \in Ptr(MapOf(Strings))
<1>1. BondParamsToV2(Nil) = Nil /\ BondParamsToV1(Nil) = Nil
  BY DEF BondParamsToV2, BondParamsToV1, MapToList, ListToMap
<1>2. ASSUME NEW m \in MapOf(Strings), m # Nil
      PROVE  BondParamsToV2(m) \in Seq(BondParamT)
  <2> DEFINE s == SortedBy([n \in Keys(m) |-> n])
             l == [i \in DOMAIN s |-> [name |-> s[i], val |-> m[s[i]]]]
  <2>1. s \in Seq(Keys(m)) /\ \A i \in DOMAIN s : s[i] \in Keys(m)
    BY KeysByName
  <2>2. BondParamsToV2(m) = l
    BY <1>2 DEF BondParamsToV2, MapToList
  <2> HIDE DEF s
  <2>3. \A x \in Keys(m) : x \in Names /\ m[x] \in Strings
    BY DEF Keys, MapOf, Ptr
  <2>4. l \in [DOMAIN s -> BondParamT]
    BY <2>1, <2>3 DEF BondParamT
  <2>5. QED
    BY <2>1, <2>2, <2>4, ListMapped
<1>3. ASSUME NEW l \in Seq(BondParamT), l # Nil
      PROVE  BondParamsToV1(l) \in MapOf(Strings)
  <2> DEFINE val == [i \in DOMAIN l |-> l[i].val]
  <2>1. \A i \in DOMAIN l : l[i] \in BondParamT
    BY DomainOfList
  <2>2. (\A i \in DOMAIN l : l[i].name \in Names) /\ val \in [DOMAIN l -> Strings]
    BY <2>1 DEF BondParamT
  <2>3. BondParamsToV1(l) = Mapped(l, val)
    <3>1. ASSUME NEW n \in Names, NEW i \in DOMAIN l, l[i].name = n
          PROVE  val[LastOf(l, n)] = l[LastOf(l, n)].val
      <4>1. LastOf(l, n) \in DOMAIN l
        BY <3>1, LastIsThere
      <4>2. QED
        BY <4>1
    <3> HIDE DEF val
    <3>2. QED
      BY <1>3, <3>1 DEF BondParamsToV1, ListToMap, Mapped
  <2> HIDE DEF val
  <2>4. QED
    BY <2>2, <2>3, MappedTypes
<1>4. QED
  BY <1>1, <1>2, <1>3 DEF Ptr, ListOf

\* Indexes of claims.
LEMMA IndexesThere ==
    ASSUME NEW m \in Ptr(MapOf(Index32))
    PROVE  /\ IndexesToV2(m) \in NamedListOf(EntryT)
           /\ m # Nil => ToSet(Elements(IndexesToV2(m)))
                             = {[name |-> n, index |-> m[n]] : n \in Keys(m)}
<1>1. CASE m = Nil
  <2>1. IndexesToV2(m) = Nil
    BY <1>1 DEF IndexesToV2
  <2>2. QED
    BY <1>1, <2>1, NamedLists
<1>2. CASE m # Nil
  <2> DEFINE s == SortedBy([n \in Keys(m) |-> m[n]])
             l == [i \in DOMAIN s |-> [name |-> s[i], index |-> m[s[i]]]]
  <2>1. /\ m \in MapOf(Index32) /\ m \in [Names -> Ptr(Index32)]
        /\ IsFiniteSet(Keys(m))
    BY <1>2 DEF Ptr, MapOf
  <2>3. \A x \in Keys(m) : /\ x \in Names /\ m[x] \in Index32
                            /\ Wrap(m[x]) = m[x]
    <3>1. \A x \in Keys(m) : x \in Names /\ m[x] \in Index32
      BY <2>1 DEF Keys, Ptr
    <3>2. \A i \in Index32 : Wrap(i) = i
      BY Narrowing DEF Index32
    <3>3. QED
      BY <3>1, <3>2
  <2>4. [n \in Keys(m) |-> m[n]] \in [Keys(m) -> Nat]
    BY <2>3 DEF Index32
  <2>5. /\ s \in Seq(Keys(m))
        /\ \A x \in Keys(m) : \E i \in DOMAIN s : s[i] = x
        /\ \A i, j \in DOMAIN s : s[i] = s[j] => i = j
    BY <2>1, <2>4, KeysListed
  <2> DEFINE w == [n \in Keys(m) |-> Wrap(m[n])]
             lw == [i \in DOMAIN SortedBy(w) |->
                     [name |-> SortedBy(w)[i], index |-> Wrap(m[SortedBy(w)[i]])]]
  <2>a. w = [n \in Keys(m) |-> m[n]]
    BY <2>3
  <2>b. IndexesToV2(m) = NonEmpty(lw)
    BY <1>2 DEF IndexesToV2
  <2> HIDE DEF w
  <2>c. SortedBy(w) = s
    BY <2>a
  <2> HIDE DEF s
  <2>6. \A i \in DOMAIN s : s[i] \in Keys(m)
    BY <2>5, DomainOfList
  <2>d. lw = l
    BY <2>3, <2>6, <2>c
  <2>2. IndexesToV2(m) = NonEmpty(l)
    BY <2>b, <2>d
  <2>7. l \in [DOMAIN s -> EntryT]
    BY <2>3, <2>6 DEF EntryT
  <2>8. l \in Seq(EntryT) /\ DOMAIN l = DOMAIN s /\ l # Nil
    <3>1. l \in Seq(EntryT)
      BY <2>5, <2>7, ListMapped
    <3>2. QED
      BY <3>1, APIAssumption
  <2>9. Unique(l)
    BY <2>5 DEF Unique
  <2>10. ToSet(l) = {[name |-> n, index |-> m[n]] : n \in Keys(m)}
    <3>1. ToSet(l) = {l[i] : i \in DOMAIN l}
      BY DEF ToSet
    <3>2. QED
      BY <2>5, <2>6, <3>1
  <2> HIDE DEF l
  <2>11. NonEmpty(l) \in NamedListOf(EntryT)
    BY <2>8, <2>9, NamedLists DEF NonEmpty
  <2>12. Elements(NonEmpty(l)) = l
    BY <2>8 DEF NonEmpty, Elements
  <2>13. QED
    BY <2>2, <2>10, <2>11, <2>12
<1>3. QED
  BY <1>1, <1>2

LEMMA IndexesBack ==
    ASSUME NEW l \in NamedListOf(EntryT)
    PROVE  /\ IndexesToV1(l) \in Ptr(MapOf(Index32))
           /\ ToSet(Elements(IndexesToV2(IndexesToV1(l)))) = ToSet(Elements(l))
<1>1. CASE NonEmpty(l) = Nil
  <2>1. IndexesToV1(l) = Nil
    BY <1>1 DEF IndexesToV1, ListToMap
  <2>2. IndexesToV2(Nil) = Nil
    BY DEF IndexesToV2
  <2>3. Elements(l) = <<>> /\ Elements(Nil) = <<>>
    BY <1>1 DEF NonEmpty, Elements
  <2>4. QED
    BY <2>1, <2>2, <2>3 DEF Ptr
<1>2. CASE NonEmpty(l) # Nil
  <2> DEFINE val == [i \in DOMAIN l |-> l[i].index]
             m == IndexesToV1(l)
  <2>1. l # Nil /\ NonEmpty(l) = l
    BY <1>2 DEF NonEmpty
  <2>2. l \in Seq(EntryT) /\ Unique(l)
    BY <2>1, NamedLists
  <2>3. \A i \in DOMAIN l : l[i] \in EntryT
    BY <2>2, DomainOfList
  <2>4. /\ \A i \in DOMAIN l : l[i].name \in Names
        /\ val \in [DOMAIN l -> Index32]
        /\ \A i \in DOMAIN l : [name |-> l[i].name, index |-> val[i]] = l[i]
    BY <2>3 DEF EntryT
  <2>5. m = Mapped(l, val)
    <3>1. ASSUME NEW n \in Names, NEW i \in DOMAIN l, l[i].name = n
          PROVE  val[LastOf(l, n)] = l[LastOf(l, n)].index
      <4>1. LastOf(l, n) \in DOMAIN l
        BY <2>2, <3>1, LastIsThere
      <4>2. QED
        BY <4>1
    <3> HIDE DEF val
    <3>2. QED
      BY <2>1, <3>1 DEF IndexesToV1, ListToMap, Mapped
  <2> HIDE DEF val, m
  <2>6. m \in MapOf(Index32) /\ m # Nil
    <3>1. m \in MapOf(Index32)
      BY <2>2, <2>4, <2>5, MappedTypes
    <3>2. QED
      BY <3>1, APIAssumption
  <2>7. /\ \A i \in DOMAIN l : m[l[i].name] = val[i]
        /\ \A n \in Names : (\A i \in DOMAIN l : l[i].name # n) => m[n] = Nil
    BY <2>2, <2>4, <2>5, MappedEntries
  <2>8. Keys(m) = {l[i].name : i \in DOMAIN l}
    <3>1. \A i \in DOMAIN l : m[l[i].name] # Nil
      <4> TAKE i \in DOMAIN l
      <4>1. val[i] \in Int
        BY <2>4 DEF Index32
      <4>2. val[i] # Nil
        BY <4>1, APIAssumption, Zenon
      <4>3. QED
        BY <2>7, <4>2, Zenon
    <3>2. QED
      BY <2>4, <2>7, <3>1 DEF Keys
  <2>9. {[name |-> n, index |-> m[n]] : n \in Keys(m)}
          = {[name |-> l[i].name, index |-> m[l[i].name]] : i \in DOMAIN l}
    BY <2>8
  <2>10. \A i \in DOMAIN l : [name |-> l[i].name, index |-> m[l[i].name]] = l[i]
    BY <2>4, <2>7
  <2>11. ToSet(Elements(l)) = {l[i] : i \in DOMAIN l}
    BY <2>1 DEF Elements, ToSet
  <2>12. ToSet(Elements(IndexesToV2(m)))
           = {[name |-> n, index |-> m[n]] : n \in Keys(m)}
    BY <2>6, IndexesThere DEF Ptr
  <2>13. ToSet(Elements(l)) = {[name |-> n, index |-> m[n]] : n \in Keys(m)}
    BY <2>9, <2>10, <2>11
  <2>14. QED
    BY <2>6, <2>12, <2>13 DEF m, Ptr
<1>3. QED
  BY <1>1, <1>2

----------------------------------------------------------------------------
(* Pointers. *)

LEMMA NilIsNoValue ==
    /\ \A s \in Strings : s # Nil
    /\ TRUE # Nil /\ FALSE # Nil /\ \A i \in Int : i # Nil
    /\ \A r \in RefT : r # Nil
    /\ \A s \in StrategyT : s # Nil
    /\ \A s \in StrategyV1T : s # Nil
    /\ "" \in Strings /\ "Reboot" \in Strings
<1>1. \A s \in Strings : s # Nil
  BY APIAssumption, Zenon DEF Strings
<1>2. TRUE # Nil /\ FALSE # Nil
  BY APIAssumption, TRUE \in BOOLEAN, FALSE \in BOOLEAN, Zenon
<1>3. \A i \in Int : i # Nil
  BY APIAssumption, Zenon
<1>4. /\ \A r \in RefT : r # Nil
      /\ \A s \in StrategyT : s # Nil
      /\ \A s \in StrategyV1T : s # Nil
  BY APIAssumption, Zenon
<1>5. "" \in Strings /\ "Reboot" \in Strings
  BY APIAssumption DEF Strings
<1>6. QED
  BY <1>1, <1>2, <1>3, <1>4, <1>5

----------------------------------------------------------------------------
(* Metal3Machine and Metal3MachineTemplate. *)

LEMMA ImageTypes ==
    /\ \A i \in ImageT : ImageToV1(i) \in ImageV1T
    /\ \A i \in ImageV1T : ImageToV2(i) \in ImageT
    /\ NoImage \in ImageT
  BY NilIsNoValue DEF ImageT, ImageV1T, ImageToV1, ImageToV2, NoImage, Deref,
                      Ptr

LEMMA MachineSpecTypes ==
    /\ \A s \in MachineSpecT : MachineSpecToV1(s) \in MachineSpecV1T
    /\ \A s \in MachineSpecV1T : MachineSpecToV2(s) \in MachineSpecT
<1>1. ASSUME NEW s \in MachineSpecT
      PROVE  MachineSpecToV1(s) \in MachineSpecV1T
  BY ImageTypes, NilIsNoValue
     DEF MachineSpecT, MachineSpecV1T, MachineSpecToV1, Deref, PtrUnless, Ptr
<1>2. ASSUME NEW s \in MachineSpecV1T
      PROVE  MachineSpecToV2(s) \in MachineSpecT
  BY ImageTypes, NilIsNoValue
     DEF MachineSpecT, MachineSpecV1T, MachineSpecToV2, Deref, PtrUnless, Ptr
<1>3. QED
  BY <1>1, <1>2

\* Writing the checksum of a machine's image.
Checksummed(s, c) == [s EXCEPT !.image.sum = c]

LEMMA ChecksumWritten ==
    ASSUME NEW s \in MachineSpecT, NEW c \in Ptr(Strings)
    PROVE  LET q == Checksummed(s, c) IN
           /\ q \in MachineSpecT
           /\ q.providerID = s.providerID /\ q.selector = s.selector
           /\ q.dataTemplate = s.dataTemplate /\ q.clean = s.clean
           /\ q.deploy = s.deploy /\ q.secretNs = s.secretNs
           /\ q.image.url = s.image.url /\ q.image.sum = c
           /\ q.image.sumType = s.image.sumType
           /\ q.image.format = s.image.format
<1>1. s.image \in ImageT
  BY DEF MachineSpecT
<1>2. [s.image EXCEPT !.sum = c] \in ImageT
  BY <1>1 DEF ImageT
<1>3. QED
  BY <1>1, <1>2 DEF MachineSpecT, ImageT, Checksummed

LEMMA MachineStatusTypes ==
    /\ \A s \in MachineStatusT : MachineStatusToV1(s) \in MachineStatusV1T
    /\ \A s \in MachineStatusV1T : MachineStatusToV2(s) \in MachineStatusT
  BY NilIsNoValue DEF MachineStatusT, MachineStatusV1T, MachineStatusToV1,
                      MachineStatusToV2, Deref, Ptr

\* What a v1beta1 client finds again of the specification it sent, when the
\* checksum that is kept is c, and what it stands for.
SentSpec(s, sum) ==
    [s EXCEPT !.providerID = Deref(@, ""), !.clean = Deref(@, ""),
              !.deploy = Deref(@, ""),
              !.image = [url |-> @.url, sumType |-> Deref(@.sumType, ""),
                         format |-> Deref(@.format, ""), sum |-> sum]]

\* From v1beta1 and back: all but the checksum is what was sent, and the
\* checksum is not an invention.
LEMMA MachineSpecSticks ==
    ASSUME NEW s \in MachineSpecV1T
    PROVE  LET t == MachineSpecToV2(s) IN
           /\ t.providerID = Deref(s.providerID, "")
           /\ t.dataTemplate = s.dataTemplate
           /\ Deref(t.selector, "") = s.selector
           /\ t.clean = Deref(s.clean, "") /\ t.deploy = Deref(s.deploy, "")
           /\ t.secretNs = s.secretNs
           /\ t.image.url = s.image.url
           /\ t.image.sumType = Deref(s.image.sumType, "")
           /\ t.image.format = Deref(s.image.format, "")
           /\ Deref(t.image.sum, "") = s.image.sum
           /\ t.image.sum # Nil => t.image.sum = s.image.sum
<1>1. s.image \in ImageV1T /\ s.image.sum \in Strings /\ s.selector \in Strings
  BY DEF MachineSpecV1T, ImageV1T
<1>2. QED
  BY <1>1, NilIsNoValue
     DEF MachineSpecToV2, ImageToV2, NoImage, isEmptyImage, Deref, PtrUnless

\* Two specifications that say the same are equal.
LEMMA SpecEquality ==
    ASSUME NEW s \in MachineSpecV1T, NEW t \in MachineSpecV1T,
           Deref(s.providerID, "") = Deref(t.providerID, ""),
           s.dataTemplate = t.dataTemplate, s.selector = t.selector,
           Deref(s.clean, "") = Deref(t.clean, ""),
           Deref(s.deploy, "") = Deref(t.deploy, ""),
           s.secretNs = t.secretNs, s.image.url = t.image.url,
           Deref(s.image.sumType, "") = Deref(t.image.sumType, ""),
           Deref(s.image.format, "") = Deref(t.image.format, "")
    PROVE  \A a : SentSpec(s, a) = SentSpec(t, a)
  BY DEF MachineSpecV1T, SentSpec

\* Reading a specification in v1beta1: nothing but pointers changes.
LEMMA MachineSpecRead ==
    ASSUME NEW t \in MachineSpecT
    PROVE  LET s == MachineSpecToV1(t) IN
           /\ Deref(s.providerID, "") = t.providerID
           /\ s.dataTemplate = t.dataTemplate /\ s.selector = Deref(t.selector, "")
           /\ Deref(s.clean, "") = t.clean /\ Deref(s.deploy, "") = t.deploy
           /\ s.secretNs = t.secretNs
           /\ s.image.url = t.image.url /\ s.image.sum = Deref(t.image.sum, "")
           /\ Deref(s.image.sumType, "") = t.image.sumType
           /\ Deref(s.image.format, "") = t.image.format
<1>1. /\ t.image \in ImageT /\ t.providerID \in Strings /\ t.clean \in Strings
      /\ t.deploy \in Strings /\ t.image.sumType \in Strings
      /\ t.image.format \in Strings
  BY DEF MachineSpecT, ImageT
<1>2. QED
  BY <1>1, NilIsNoValue DEF MachineSpecToV1, ImageToV1, Deref, PtrUnless

MachineV1 == ObjectV1("Metal3Machine")
Machine == Object("Metal3Machine")
TemplateV1 == ObjectV1("Metal3MachineTemplate")
Template == Object("Metal3MachineTemplate")

LEMMA MachineObjects ==
    /\ MachineV1 = [spec : MachineSpecV1T, status : MachineStatusV1T]
    /\ Machine = [spec : MachineSpecT, status : MachineStatusT]
    /\ TemplateV1 = [spec : MachineSpecV1T, nodeReuse : BOOLEAN]
    /\ Template = [meta : Strings, spec : MachineSpecT, nodeReuse : Ptr(BOOLEAN)]
  BY DEF MachineV1, Machine, TemplateV1, Template, Object, ObjectV1

LEMMA MachineReads ==
    /\ \A o \in Machine : MachineConvertFrom(o) \in MachineV1
    /\ \A o \in Template : MachineTemplateConvertFrom(o) \in TemplateV1
<1>1. \A p \in Ptr(BOOLEAN) : Deref(p, FALSE) \in BOOLEAN
  BY DEF Ptr, Deref
<1>2. QED
  BY <1>1, MachineObjects, MachineSpecTypes, MachineStatusTypes
     DEF MachineConvertFrom, MachineTemplateConvertFrom

\* A Metal3Machine that is written in v1beta1.
LEMMA MachineWrites ==
    ASSUME NEW o \in MachineV1, NEW hub \in Machine \cup {Nil}
    PROVE  LET n == MachineConvertTo(o, hub)
               t == MachineSpecToV2(o.spec)
           IN
           /\ n \in Machine
           /\ n.spec = Checksummed(t, n.spec.image.sum)
           /\ n.spec.image.sum = IF hub # Nil /\ hub.spec.image.sum = Nil
                                 THEN Nil ELSE t.image.sum
           /\ n.spec.image.sum \in Ptr(Strings)
           /\ Deref(n.status.prov, FALSE) = o.status.ready
           /\ n.status.rendered = o.status.rendered
           /\ n.status.cond = o.status.v2cond /\ n.status.legacy = o.status.cond
<1> DEFINE n == MachineConvertTo(o, hub)
           t == MachineSpecToV2(o.spec)
           c == IF hub # Nil /\ hub.spec.image.sum = Nil THEN Nil ELSE t.image.sum
           q == Checksummed(t, c)
           p == IF hub = Nil THEN Nil ELSE hub.status.prov
           u == MachineStatusToV2(o.status)
           prov == Deref(BoolToPointer(o.status.ready, p), u.prov)
<1>1. o.spec \in MachineSpecV1T /\ o.status \in MachineStatusV1T
  BY MachineObjects
<1>2. t \in MachineSpecT /\ u \in MachineStatusT
  BY <1>1, MachineSpecTypes, MachineStatusTypes
<1>3. c \in Ptr(Strings)
  BY <1>2 DEF MachineSpecT, ImageT, Ptr
<1>4. q \in MachineSpecT /\ q.image.sum = c
  <2> HIDE DEF t, c
  <2>1. QED
    BY <1>2, <1>3, ChecksumWritten
<1>5. o.status.ready \in BOOLEAN
  BY <1>1 DEF MachineStatusV1T
<1>6. u.prov = IF o.status.ready THEN TRUE ELSE Nil
  BY DEF MachineStatusToV2
<1>7. prov \in Ptr(BOOLEAN) /\ Deref(prov, FALSE) = o.status.ready
  <2>1. CASE o.status.ready = TRUE
    BY <2>1, NilIsNoValue DEF Deref, BoolToPointer, Ptr
  <2>2. CASE o.status.ready = FALSE
    BY <1>6, <2>2, NilIsNoValue DEF Deref, BoolToPointer, Ptr
  <2>3. QED
    BY <1>5, <2>1, <2>2
<1>8. n = [spec |-> q, status |-> [u EXCEPT !.prov = prov]]
  BY DEF MachineConvertTo, Checksummed
<1> HIDE DEF prov, q, c, t
<1>9. [u EXCEPT !.prov = prov] \in MachineStatusT
  BY <1>2, <1>7 DEF MachineStatusT
<1>10. /\ [u EXCEPT !.prov = prov].prov = prov
       /\ [u EXCEPT !.prov = prov].rendered = o.status.rendered
       /\ [u EXCEPT !.prov = prov].cond = o.status.v2cond
       /\ [u EXCEPT !.prov = prov].legacy = o.status.cond
  BY DEF MachineStatusToV2
<1>11. n \in Machine
  BY <1>4, <1>8, <1>9, MachineObjects
<1>12. n.spec = q /\ n.status = [u EXCEPT !.prov = prov]
  BY <1>8
<1> HIDE DEF n, u
<1>13. QED
  BY <1>3, <1>4, <1>7, <1>10, <1>11, <1>12 DEF q, c, t, n

LEMMA TemplateWrites ==
    ASSUME NEW o \in TemplateV1, NEW hub \in Template \cup {Nil}
    PROVE  LET n == MachineTemplateConvertTo(o, hub)
               t == MachineSpecToV2(o.spec)
           IN
           /\ n \in Template
           /\ hub # Nil =>
                /\ n.meta = hub.meta
                /\ n.spec = Checksummed(t, n.spec.image.sum)
                /\ n.spec.image.sum = TemplateChecksum(o.spec.image.sum,
                                                       hub.spec.image.sum)
                /\ n.spec.image.sum \in Ptr(Strings)
           /\ n.nodeReuse = PtrUnless(o.nodeReuse, FALSE)
<1> DEFINE n == MachineTemplateConvertTo(o, hub)
           t == MachineSpecToV2(o.spec)
           c == TemplateChecksum(o.spec.image.sum, hub.spec.image.sum)
<1>1. o.spec \in MachineSpecV1T /\ o.nodeReuse \in BOOLEAN
  BY MachineObjects
<1>2. t \in MachineSpecT
  BY <1>1, MachineSpecTypes
<1>3. c \in Ptr(Strings)
  BY <1>1 DEF MachineSpecV1T, ImageV1T, Ptr, TemplateChecksum
<1>4. Checksummed(t, c) \in MachineSpecT /\ Checksummed(t, c).image.sum = c
  <2> HIDE DEF t, c
  <2>1. QED
    BY <1>2, <1>3, ChecksumWritten
<1>5. PtrUnless(o.nodeReuse, FALSE) \in Ptr(BOOLEAN)
  BY <1>1 DEF Ptr, PtrUnless
<1>6. CASE hub = Nil
  <2>1. n = [meta |-> "", spec |-> t, nodeReuse |-> PtrUnless(o.nodeReuse, FALSE)]
    BY <1>6 DEF MachineTemplateConvertTo
  <2> HIDE DEF t, n
  <2>2. n \in Template /\ n.nodeReuse = PtrUnless(o.nodeReuse, FALSE)
    BY <1>2, <1>5, <2>1, MachineObjects, NilIsNoValue
  <2>3. QED
    BY <1>6, <2>2 DEF n
<1>7. CASE hub # Nil
  <2>1. n = [meta |-> hub.meta, spec |-> Checksummed(t, c),
             nodeReuse |-> PtrUnless(o.nodeReuse, FALSE)]
    BY <1>7 DEF MachineTemplateConvertTo, Checksummed
  <2>2. hub.meta \in Strings
    BY <1>7, MachineObjects
  <2> HIDE DEF t, c, n
  <2>3. n \in Template
    BY <1>4, <1>5, <2>1, <2>2, MachineObjects
  <2>4. QED
    BY <1>3, <1>4, <2>1, <2>3 DEF n, t, c
<1>8. QED
  BY <1>6, <1>7

\* A specification that was sent is read again, but for the checksum.
LEMMA SpecSticks ==
    ASSUME NEW s \in MachineSpecV1T, NEW c \in Ptr(Strings)
    PROVE  LET r == MachineSpecToV1(Checksummed(MachineSpecToV2(s), c)) IN
           /\ \A a : SentSpec(r, a) = SentSpec(s, a)
           /\ r.image.sum = Deref(c, "")
<1> DEFINE t == MachineSpecToV2(s)
           q == Checksummed(t, c)
           r == MachineSpecToV1(q)
<1>1. t \in MachineSpecT
  BY MachineSpecTypes
<1>2. /\ q \in MachineSpecT /\ q.providerID = t.providerID
      /\ q.selector = t.selector /\ q.dataTemplate = t.dataTemplate
      /\ q.clean = t.clean /\ q.deploy = t.deploy /\ q.secretNs = t.secretNs
      /\ q.image.url = t.image.url /\ q.image.sum = c
      /\ q.image.sumType = t.image.sumType
      /\ q.image.format = t.image.format
  <2> HIDE DEF t
  <2>1. QED
    BY <1>1, ChecksumWritten
<1>3. /\ t.providerID = Deref(s.providerID, "")
      /\ t.dataTemplate = s.dataTemplate /\ Deref(t.selector, "") = s.selector
      /\ t.clean = Deref(s.clean, "") /\ t.deploy = Deref(s.deploy, "")
      /\ t.secretNs = s.secretNs /\ t.image.url = s.image.url
      /\ t.image.sumType = Deref(s.image.sumType, "")
      /\ t.image.format = Deref(s.image.format, "")
  BY MachineSpecSticks
<1> HIDE DEF t, q
<1>4. r \in MachineSpecV1T
  BY <1>2, MachineSpecTypes
<1>5. /\ Deref(r.providerID, "") = q.providerID
      /\ r.dataTemplate = q.dataTemplate /\ r.selector = Deref(q.selector, "")
      /\ Deref(r.clean, "") = q.clean /\ Deref(r.deploy, "") = q.deploy
      /\ r.secretNs = q.secretNs
      /\ r.image.url = q.image.url /\ r.image.sum = Deref(q.image.sum, "")
      /\ Deref(r.image.sumType, "") = q.image.sumType
      /\ Deref(r.image.format, "") = q.image.format
  BY <1>2, MachineSpecRead
<1> HIDE DEF r
<1>6. \A a : SentSpec(r, a) = SentSpec(s, a)
  <2>1. /\ Deref(r.providerID, "") = Deref(s.providerID, "")
        /\ r.dataTemplate = s.dataTemplate /\ r.selector = s.selector
        /\ Deref(r.clean, "") = Deref(s.clean, "")
        /\ Deref(r.deploy, "") = Deref(s.deploy, "")
        /\ r.secretNs = s.secretNs /\ r.image.url = s.image.url
        /\ Deref(r.image.sumType, "") = Deref(s.image.sumType, "")
        /\ Deref(r.image.format, "") = Deref(s.image.format, "")
    BY <1>2, <1>3, <1>5
  <2>2. QED
    BY <1>4, <2>1, SpecEquality
<1>7. QED
  BY <1>2, <1>5, <1>6 DEF r, q, t

\* What a specification means, and when two mean the same.
SpecMeans(s) == [s EXCEPT !.selector = Deref(@, ""), !.image.sum = Deref(@, "")]

LEMMA SameMeaning ==
    ASSUME NEW s \in MachineSpecT, NEW t \in MachineSpecT,
           s.providerID = t.providerID, s.dataTemplate = t.dataTemplate,
           Deref(s.selector, "") = Deref(t.selector, ""), s.clean = t.clean,
           s.deploy = t.deploy, s.secretNs = t.secretNs,
           s.image.url = t.image.url, s.image.sumType = t.image.sumType,
           s.image.format = t.image.format,
           Deref(s.image.sum, "") = Deref(t.image.sum, "")
    PROVE  SpecMeans(s) = SpecMeans(t)
<1>1. s.image \in ImageT /\ t.image \in ImageT
  BY DEF MachineSpecT
<1>2. [s.image EXCEPT !.sum = Deref(@, "")] = [t.image EXCEPT !.sum = Deref(@, "")]
  BY <1>1 DEF ImageT
<1> DEFINE Rec(x) ==
      [providerID |-> x.providerID, dataTemplate |-> x.dataTemplate,
       selector |-> Deref(x.selector, ""), clean |-> x.clean,
       image |-> [x.image EXCEPT !.sum = Deref(@, "")], deploy |-> x.deploy,
       secretNs |-> x.secretNs]
<1>3. ASSUME NEW x \in MachineSpecT PROVE SpecMeans(x) = Rec(x)
  <2>1. SpecMeans(x) = [x EXCEPT !.selector = Deref(@, ""),
                                 !.image = [x.image EXCEPT !.sum = Deref(@, "")]]
    BY DEF SpecMeans, MachineSpecT
  <2>2. QED
    BY <2>1 DEF MachineSpecT
<1>4. Rec(s) = Rec(t)
  BY <1>2
<1>5. QED
  BY <1>3, <1>4

\* A specification that is sent back as it was read means what it meant.
LEMMA SpecWriteBack ==
    ASSUME NEW t \in MachineSpecT, NEW c \in Ptr(Strings),
           Deref(c, "") = Deref(t.image.sum, "")
    PROVE  SpecMeans(Checksummed(MachineSpecToV2(MachineSpecToV1(t)), c))
               = SpecMeans(t)
<1> DEFINE s == MachineSpecToV1(t)
           u == MachineSpecToV2(s)
           q == Checksummed(u, c)
<1>1. s \in MachineSpecV1T
  BY MachineSpecTypes
<1>2. /\ Deref(s.providerID, "") = t.providerID
      /\ s.dataTemplate = t.dataTemplate /\ s.selector = Deref(t.selector, "")
      /\ Deref(s.clean, "") = t.clean /\ Deref(s.deploy, "") = t.deploy
      /\ s.secretNs = t.secretNs /\ s.image.url = t.image.url
      /\ Deref(s.image.sumType, "") = t.image.sumType
      /\ Deref(s.image.format, "") = t.image.format
  BY MachineSpecRead
<1> HIDE DEF s
<1>3. u \in MachineSpecT
  BY <1>1, MachineSpecTypes
<1>4. /\ u.providerID = Deref(s.providerID, "")
      /\ u.dataTemplate = s.dataTemplate /\ Deref(u.selector, "") = s.selector
      /\ u.clean = Deref(s.clean, "") /\ u.deploy = Deref(s.deploy, "")
      /\ u.secretNs = s.secretNs /\ u.image.url = s.image.url
      /\ u.image.sumType = Deref(s.image.sumType, "")
      /\ u.image.format = Deref(s.image.format, "")
  BY <1>1, MachineSpecSticks
<1> HIDE DEF u
<1>5. /\ q \in MachineSpecT /\ q.providerID = u.providerID
      /\ q.selector = u.selector /\ q.dataTemplate = u.dataTemplate
      /\ q.clean = u.clean /\ q.deploy = u.deploy /\ q.secretNs = u.secretNs
      /\ q.image.url = u.image.url /\ q.image.sum = c
      /\ q.image.sumType = u.image.sumType
      /\ q.image.format = u.image.format
  BY <1>3, ChecksumWritten
<1> HIDE DEF q
<1>6. SpecMeans(q) = SpecMeans(t)
  BY <1>2, <1>4, <1>5, SameMeaning
<1>7. QED
  BY <1>6 DEF q, u, s

----------------------------------------------------------------------------
(* The laws of conversion, kind by kind. *)

\* What StoredIsValid says of the stored object.
Admitted(k, o) ==
    IF k = "Metal3Data"
    THEN /\ Deref(o.spec.index, 0) >= 0
         /\ OwnNamespace(Deref(o.spec.template, NoRef).ns)
    ELSE ValidateCreate(k, o)

\* Types are kept in both directions, what a v1beta1 client sends is what it
\* finds again, but for the two losses of EditSticks, what it sends back as it was means what it meant, and setting
\* the defaults twice does no more than once.
Lawful(k) ==
    /\ \A o \in Object(k) : /\ ConvertFrom(k, o) \in ObjectV1(k)
                            /\ Default(k, o) \in Object(k)
                            /\ Default(k, Default(k, o)) = Default(k, o)
    /\ \A v \in ObjectV1(k), hub \in Object(k) \cup {Nil} :
          ConvertTo(k, v, hub) \in Object(k)
    /\ \A v \in ObjectV1(k), hub \in Object(k) :
          FitsInt32(k, v) =>
              V1Meaning(k, ConvertFrom(k, Default(k, ConvertTo(k, v, hub))))
                  = V1Meaning(k, WithoutLostChecksum(k, v, hub))
    /\ \A o \in Object(k) :
          LET n == Default(k, ConvertTo(k, ConvertFrom(k, o), o)) IN
          Admitted(k, o) /\ Default(k, o) = o /\ ValidateUpdate(k, o, n) =>
              SpecMeaning(k, n) = SpecMeaning(k, o)

\* A status that is written replaces the status and nothing else, and a status
\* that comes back from v1beta1 means what it meant.
StatusLawful(k) ==
    /\ \A o \in Object(k) : o.status \in StatusT(k)
    /\ \A o \in Object(k), s \in StatusT(k) :
          LET n == [o EXCEPT !.status = s] IN
          /\ n \in Object(k)
          /\ Admitted(k, o) => Admitted(k, n)
          /\ Default(k, o) = o => Default(k, n) = n
    /\ \A v \in ObjectV1(k), old \in Object(k) :
          LET n == [v EXCEPT !.status = ConvertFrom(k, old).status] IN
          n \in ObjectV1(k) /\ n.status = ConvertFrom(k, old).status
    /\ \A v \in ObjectV1(k), hub \in Object(k), old \in Object(k) :
          v.status = ConvertFrom(k, old).status =>
              StatusMeaning(k, Default(k, ConvertTo(k, v, hub)).status)
                  = StatusMeaning(k, old.status)

LEMMA MachineLawful == "Metal3Machine" \in Kinds => Lawful("Metal3Machine")
<1> DEFINE k == "Metal3Machine"
<1> SUFFICES ASSUME k \in Kinds PROVE Lawful(k)
  OBVIOUS
<1>1. /\ Object(k) = Machine /\ ObjectV1(k) = MachineV1 /\ Nil \notin Machine
      /\ \A o : ConvertFrom(k, o) = MachineConvertFrom(o) /\ Default(k, o) = o
      /\ \A o, hub : ConvertTo(k, o, hub) = MachineConvertTo(o, hub)
      /\ \A o : SpecMeaning(k, o) = SpecMeans(o.spec)
  BY APIAssumption
     DEF Machine, MachineV1, ConvertFrom, ConvertTo, Default, SpecMeaning,
         SpecMeans
<1>2. \A o : V1Meaning(k, o) = SentSpec(o.spec, o.spec.image.sum)
  BY DEF V1Meaning, MachineSpecMeaning, SentSpec
<1>3. ASSUME NEW v \in MachineV1, NEW hub \in Machine
      PROVE  V1Meaning(k, MachineConvertFrom(MachineConvertTo(v, hub)))
                 = V1Meaning(k, WithoutLostChecksum(k, v, hub))
  <2> DEFINE n == MachineConvertTo(v, hub)
             t == MachineSpecToV2(v.spec)
             c == n.spec.image.sum
             r == MachineSpecToV1(n.spec)
             w == WithoutLostChecksum(k, v, hub)
             lost == [v.spec EXCEPT !.image.sum = ""]
  <2>1. /\ n.spec = Checksummed(t, c) /\ c \in Ptr(Strings)
        /\ c = IF hub.spec.image.sum = Nil THEN Nil ELSE t.image.sum
    BY <1>1, <1>3, MachineWrites
  <2>2. v.spec \in MachineSpecV1T
    BY <1>3, MachineObjects
  <2>3. Deref(t.image.sum, "") = v.spec.image.sum
    BY <2>2, MachineSpecSticks
  <2>4. MachineConvertFrom(n).spec = r
    BY DEF MachineConvertFrom
  <2>a. /\ hub.spec.image.sum = Nil => w.spec = lost
        /\ hub.spec.image.sum # Nil => w = v
    BY <1>3, MachineObjects DEF WithoutLostChecksum
  <2>b. lost.image.sum = "" /\ \A a : SentSpec(lost, a) = SentSpec(v.spec, a)
    BY <2>2 DEF MachineSpecV1T, ImageV1T, SentSpec
  <2> HIDE DEF n, c, w, lost
  <2>5. (\A a : SentSpec(r, a) = SentSpec(v.spec, a))
        /\ r.image.sum = Deref(c, "")
    <3> DEFINE q == MachineSpecToV1(Checksummed(t, c))
    <3>1. /\ \A a : SentSpec(q, a) = SentSpec(v.spec, a)
          /\ q.image.sum = Deref(c, "")
      BY <2>1, <2>2, SpecSticks
    <3>2. r = q
      BY <2>1
    <3> HIDE DEF q, r, t
    <3>3. QED
      BY <3>1, <3>2
  <2> HIDE DEF r, t
  <2>6. /\ hub.spec.image.sum # Nil => r.image.sum = v.spec.image.sum
        /\ hub.spec.image.sum = Nil => r.image.sum = ""
    BY <2>1, <2>3, <2>5 DEF Deref
  <2>7. /\ V1Meaning(k, MachineConvertFrom(n)) = SentSpec(r, r.image.sum)
        /\ V1Meaning(k, w) = SentSpec(w.spec, w.spec.image.sum)
    BY <1>2, <2>4
  <2>8. CASE hub.spec.image.sum = Nil
    BY <2>5, <2>6, <2>7, <2>8, <2>a, <2>b DEF n, w
  <2>9. CASE hub.spec.image.sum # Nil
    BY <2>5, <2>6, <2>7, <2>9, <2>a DEF n, w
  <2>10. QED
    BY <2>8, <2>9
<1>4. ASSUME NEW o \in Machine
      PROVE  SpecMeans(MachineConvertTo(MachineConvertFrom(o), o).spec)
                 = SpecMeans(o.spec)
  <2> DEFINE v == MachineConvertFrom(o)
             n == MachineConvertTo(v, o)
             t == MachineSpecToV2(v.spec)
             c == n.spec.image.sum
  <2>1. v \in MachineV1 /\ v.spec = MachineSpecToV1(o.spec)
    BY <1>4, MachineReads DEF MachineConvertFrom
  <2>2. o.spec \in MachineSpecT /\ v.spec \in MachineSpecV1T
    BY <1>4, <2>1, MachineObjects
  <2> HIDE DEF v
  <2>3. /\ n.spec = Checksummed(t, c) /\ c \in Ptr(Strings)
        /\ c = IF o.spec.image.sum = Nil THEN Nil ELSE t.image.sum
    BY <1>1, <1>4, <2>1, MachineWrites
  <2>4. Deref(t.image.sum, "") = Deref(o.spec.image.sum, "")
    <3>1. Deref(t.image.sum, "") = v.spec.image.sum
      BY <2>2, MachineSpecSticks
    <3>2. MachineSpecToV1(o.spec).image.sum = Deref(o.spec.image.sum, "")
      BY <2>2, MachineSpecRead
    <3>3. QED
      BY <2>1, <3>1, <3>2
  <2> HIDE DEF n, c, t
  <2>5. Deref(c, "") = Deref(o.spec.image.sum, "")
    BY <2>3, <2>4 DEF Deref
  <2>6. SpecMeans(Checksummed(MachineSpecToV2(MachineSpecToV1(o.spec)), c))
            = SpecMeans(o.spec)
    BY <2>2, <2>3, <2>5, SpecWriteBack
  <2>7. QED
    BY <2>1, <2>3, <2>6 DEF n, t, v
<1> HIDE DEF k
<1>5. \A v \in MachineV1, hub \in Machine \cup {Nil} :
        MachineConvertTo(v, hub) \in Machine
  BY MachineWrites
<1>6. \A o \in Machine : MachineConvertFrom(o) \in MachineV1
  BY MachineReads
<1>7. \A o \in Object(k) : /\ ConvertFrom(k, o) \in ObjectV1(k)
                           /\ Default(k, o) \in Object(k)
                           /\ Default(k, Default(k, o)) = Default(k, o)
  BY <1>1, <1>6
<1>8. \A v \in ObjectV1(k), hub \in Object(k) \cup {Nil} :
        ConvertTo(k, v, hub) \in Object(k)
  BY <1>1, <1>5
<1>9. ASSUME NEW v \in ObjectV1(k), NEW hub \in Object(k)
      PROVE  V1Meaning(k, ConvertFrom(k, Default(k, ConvertTo(k, v, hub))))
                 = V1Meaning(k, WithoutLostChecksum(k, v, hub))
  <2>1. ConvertFrom(k, Default(k, ConvertTo(k, v, hub)))
          = MachineConvertFrom(MachineConvertTo(v, hub))
    BY <1>1
  <2>2. QED
    BY <1>1, <1>3, <1>9, <2>1
<1>10. ASSUME NEW o \in Object(k)
       PROVE  SpecMeaning(k, Default(k, ConvertTo(k, ConvertFrom(k, o), o)))
                  = SpecMeaning(k, o)
  <2>1. Default(k, ConvertTo(k, ConvertFrom(k, o), o))
          = MachineConvertTo(MachineConvertFrom(o), o)
    BY <1>1
  <2>2. QED
    BY <1>1, <1>4, <1>10, <2>1
<1>11. QED
  BY <1>7, <1>8, <1>9, <1>10 DEF Lawful

LEMMA TemplateMeaning ==
    ASSUME NEW o \in Template
    PROVE  SpecMeaning("Metal3MachineTemplate", o) =
             [meta |-> o.meta, spec |-> SpecMeans(o.spec),
              nodeReuse |-> Deref(o.nodeReuse, FALSE)]
<1>1. o.spec \in MachineSpecT
  BY MachineObjects
<1>2. SpecMeaning("Metal3MachineTemplate", o) =
        [o EXCEPT !.spec.selector = Deref(@, ""),
                  !.spec.image.sum = Deref(@, ""),
                  !.nodeReuse = Deref(@, FALSE)]
  BY DEF SpecMeaning
<1>3. QED
  BY <1>1, <1>2, MachineObjects DEF SpecMeans, MachineSpecT

LEMMA TemplateLawful ==
    "Metal3MachineTemplate" \in Kinds => Lawful("Metal3MachineTemplate")
<1> DEFINE k == "Metal3MachineTemplate"
<1> SUFFICES ASSUME k \in Kinds PROVE Lawful(k)
  OBVIOUS
<1>1. /\ Object(k) = Template /\ ObjectV1(k) = TemplateV1 /\ Nil \notin Template
      /\ \A o : ConvertFrom(k, o) = MachineTemplateConvertFrom(o)
                /\ Default(k, o) = o
      /\ \A o, hub : ConvertTo(k, o, hub) = MachineTemplateConvertTo(o, hub)
  BY APIAssumption DEF Template, TemplateV1, ConvertFrom, ConvertTo, Default
<1>2. /\ \A o : V1Meaning(k, o) = [spec |-> SentSpec(o.spec, o.spec.image.sum),
                                  nodeReuse |-> o.nodeReuse]
      /\ \A o, hub : WithoutLostChecksum(k, o, hub) = o
  BY DEF V1Meaning, MachineSpecMeaning, SentSpec, WithoutLostChecksum
<1>a. \A x \in Strings : \A y : /\ Deref(TemplateChecksum(x, y), "") = x
                                /\ TemplateChecksum(x, y) \in Ptr(Strings)
  BY NilIsNoValue DEF Deref, TemplateChecksum, Ptr
<1>3. ASSUME NEW v \in TemplateV1, NEW hub \in Template
      PROVE  V1Meaning(k, MachineTemplateConvertFrom(
                              MachineTemplateConvertTo(v, hub)))
                 = V1Meaning(k, v)
  <2> DEFINE n == MachineTemplateConvertTo(v, hub)
             t == MachineSpecToV2(v.spec)
             c == n.spec.image.sum
             r == MachineSpecToV1(n.spec)
             q == MachineSpecToV1(Checksummed(t, c))
  <2>1. /\ n.spec = Checksummed(t, c) /\ c \in Ptr(Strings)
        /\ c = TemplateChecksum(v.spec.image.sum, hub.spec.image.sum)
        /\ n.nodeReuse = PtrUnless(v.nodeReuse, FALSE)
    BY <1>1, <1>3, TemplateWrites
  <2>2. v.spec \in MachineSpecV1T /\ v.spec.image.sum \in Strings
    BY <1>3, MachineObjects DEF MachineSpecV1T, ImageV1T
  <2>3. /\ MachineTemplateConvertFrom(n).spec = r
        /\ MachineTemplateConvertFrom(n).nodeReuse = Deref(n.nodeReuse, FALSE)
    BY DEF MachineTemplateConvertFrom
  <2>a. v.nodeReuse \in BOOLEAN
    BY <1>3, MachineObjects
  <2>b. Deref(n.nodeReuse, FALSE) = v.nodeReuse
    BY <2>1, <2>a, NilIsNoValue DEF Deref, PtrUnless
  <2> HIDE DEF n, c
  <2>4. /\ \A a : SentSpec(q, a) = SentSpec(v.spec, a)
        /\ q.image.sum = Deref(c, "")
    BY <2>1, <2>2, SpecSticks
  <2>5. r = q
    BY <2>1
  <2>6. Deref(c, "") = v.spec.image.sum
    BY <1>a, <2>1, <2>2
  <2> HIDE DEF r, q, t
  <2>7. /\ V1Meaning(k, MachineTemplateConvertFrom(n))
              = [spec |-> SentSpec(r, r.image.sum), nodeReuse |-> v.nodeReuse]
        /\ V1Meaning(k, v) = [spec |-> SentSpec(v.spec, v.spec.image.sum),
                              nodeReuse |-> v.nodeReuse]
    BY <1>2, <2>3, <2>b
  <2>8. QED
    BY <2>4, <2>5, <2>6, <2>7 DEF n
<1>4. ASSUME NEW o \in Template
      PROVE  SpecMeaning(k, MachineTemplateConvertTo(
                                MachineTemplateConvertFrom(o), o))
                 = SpecMeaning(k, o)
  <2> DEFINE v == MachineTemplateConvertFrom(o)
             n == MachineTemplateConvertTo(v, o)
             t == MachineSpecToV2(v.spec)
             c == n.spec.image.sum
  <2>1. /\ v \in TemplateV1 /\ v.spec = MachineSpecToV1(o.spec)
        /\ v.nodeReuse = Deref(o.nodeReuse, FALSE)
    BY <1>4, MachineReads DEF MachineTemplateConvertFrom
  <2>2. /\ o.spec \in MachineSpecT /\ v.spec \in MachineSpecV1T
        /\ v.spec.image.sum \in Strings
    BY <1>4, <2>1, MachineObjects DEF MachineSpecV1T, ImageV1T
  <2> HIDE DEF v
  <2>3. /\ n \in Template /\ n.meta = o.meta
        /\ n.spec = Checksummed(t, c) /\ c \in Ptr(Strings)
        /\ c = TemplateChecksum(v.spec.image.sum, o.spec.image.sum)
        /\ n.nodeReuse = PtrUnless(v.nodeReuse, FALSE)
    BY ZenonT(40), <1>1, <1>4, <2>1, TemplateWrites
  <2>4. MachineSpecToV1(o.spec).image.sum = Deref(o.spec.image.sum, "")
    BY <2>2, MachineSpecRead
  <2> HIDE DEF n, c, t
  <2>5. Deref(c, "") = Deref(o.spec.image.sum, "")
    BY <1>a, <2>1, <2>2, <2>3, <2>4
  <2>6. SpecMeans(Checksummed(MachineSpecToV2(MachineSpecToV1(o.spec)), c))
            = SpecMeans(o.spec)
    BY <2>2, <2>3, <2>5, SpecWriteBack
  <2>7. SpecMeans(n.spec) = SpecMeans(o.spec)
    BY <2>1, <2>3, <2>6 DEF t
  <2>8. Deref(n.nodeReuse, FALSE) = Deref(o.nodeReuse, FALSE)
    <3>1. v.nodeReuse \in BOOLEAN
      BY <2>1, MachineObjects
    <3>2. QED
      BY <2>1, <2>3, <3>1, NilIsNoValue DEF Deref, PtrUnless
  <2>9. QED
    BY <1>4, <2>3, <2>7, <2>8, TemplateMeaning DEF n, v
<1> HIDE DEF k
<1>5. \A v \in TemplateV1, hub \in Template \cup {Nil} :
        MachineTemplateConvertTo(v, hub) \in Template
  BY TemplateWrites
<1>6. \A o \in Template : MachineTemplateConvertFrom(o) \in TemplateV1
  BY MachineReads
<1>7. QED
  BY <1>1, <1>2, <1>3, <1>4, <1>5, <1>6 DEF Lawful

\* References to objects.
LEMMA RefLaws ==
    /\ NoRef \in RefT
    /\ \A r \in RefT : /\ RefToV2(r) \in Ptr(RefT)
                       /\ RefToV1(RefToV2(r)) = r
    /\ \A p \in Ptr(RefT) : /\ RefToV1(p) \in RefT
                            /\ Deref(RefToV2(RefToV1(p)), NoRef)
                                 = Deref(p, NoRef)
<1>1. NoRef \in RefT
  BY NilIsNoValue DEF NoRef, RefT
<1>2. QED
  BY <1>1, NilIsNoValue DEF RefToV1, RefToV2, Deref, PtrUnless, Ptr

LEMMA DataLawful == "Metal3Data" \in Kinds => Lawful("Metal3Data")
<1> DEFINE k == "Metal3Data"
           Obj == [name : Strings \X Int, spec : DataSpecT, status : DataStatusT]
           V1 == [name : Strings \X Int, spec : DataSpecV1T,
                  status : DataStatusV1T]
<1> SUFFICES ASSUME k \in Kinds PROVE Lawful(k)
  OBVIOUS
<1>1. /\ Object(k) = Obj /\ ObjectV1(k) = V1
      /\ \A o : ConvertFrom(k, o) = DataConvertFrom(o) /\ Default(k, o) = o
      /\ \A o, hub : ConvertTo(k, o, hub) = DataConvertTo(o, hub)
      /\ \A o : V1Meaning(k, o) = o
      /\ \A o, hub : WithoutLostChecksum(k, o, hub) = o
      /\ \A o : FitsInt32(k, o) <=> o.spec.index \in Int32
      /\ \A o : SpecMeaning(k, o) = [index |-> Deref(o.spec.index, 0),
                                     claim |-> Deref(o.spec.claim, NoRef),
                                     template |-> Deref(o.spec.template, NoRef)]
  BY DEF Object, ObjectV1, ConvertFrom, ConvertTo, Default, SpecMeaning,
         V1Meaning, WithoutLostChecksum, FitsInt32
<1>2. ASSUME NEW o \in Obj PROVE DataConvertFrom(o) \in V1
  <2>1. Deref(o.spec.index, 0) \in Int
    BY <1>2, Narrowing DEF DataSpecT, Ptr, Deref
  <2>2. Deref(o.status.ready, FALSE) \in BOOLEAN
    BY <1>2 DEF Ptr, Deref, DataStatusT
  <2>3. QED
    BY <1>2, <2>1, <2>2, RefLaws
       DEF DataConvertFrom, DataSpecT, DataSpecV1T, DataStatusV1T
<1>3. ASSUME NEW v \in V1, NEW hub
      PROVE  /\ DataConvertTo(v, hub) \in Obj
             /\ v.spec.index \in Int32 =>
                    DataConvertFrom(DataConvertTo(v, hub)) = v
  <2>1. /\ \A i \in Int32 : Deref(Wrap(i), 0) = i
        /\ \A i \in Int : Wrap(i) \in Int32
    <3>1. ASSUME NEW i \in Int32 PROVE Deref(Wrap(i), 0) = i
      <4>1. i \in Int /\ Wrap(i) = i
        BY Narrowing, Zenon
      <4>2. Deref(i, 0) = i
        BY <4>1, NilIsNoValue DEF Deref
      <4>3. QED
        BY <4>1, <4>2, Zenon
    <3>2. QED
      BY <3>1, Narrowing, Zenon
  <2>2. Deref(v.status.ready, FALSE) = v.status.ready /\ v.status.ready \in BOOLEAN
    BY <1>3, NilIsNoValue DEF Deref, DataStatusV1T
  <2>3. [ready |-> v.status.ready] = v.status
    BY <1>3 DEF DataStatusV1T
  <2>4. DataConvertTo(v, hub) \in Obj
    BY <1>3, <2>1, <2>2, RefLaws
       DEF DataConvertTo, DataSpecT, DataSpecV1T, DataStatusT, Ptr
  <2>5. v.spec.index \in Int32 => DataConvertFrom(DataConvertTo(v, hub))
          = [name |-> v.name, spec |-> v.spec, status |-> v.status]
    BY <1>3, <2>1, <2>2, <2>3, RefLaws
       DEF DataConvertTo, DataConvertFrom, DataSpecV1T
  <2>6. QED
    BY <1>3, <2>4, <2>5
<1>4. ASSUME NEW o \in Obj
      PROVE  SpecMeaning(k, DataConvertTo(DataConvertFrom(o), o))
                 = SpecMeaning(k, o)
  <2> DEFINE n == DataConvertTo(DataConvertFrom(o), o)
  <2>1. /\ o.spec.claim \in Ptr(RefT) /\ o.spec.template \in Ptr(RefT)
        /\ o.spec.index \in Ptr(Int32)
    BY <1>4 DEF DataSpecT
  <2>a. Wrap(Deref(o.spec.index, 0)) = Deref(o.spec.index, 0)
    <3>1. Deref(o.spec.index, 0) \in Int32
      BY <2>1, OwnNumbers, Zenon DEF Deref, Ptr
    <3>2. QED
      BY <3>1, Narrowing, Zenon
  <2>2. /\ n.spec.index = Deref(o.spec.index, 0)
        /\ n.spec.claim = RefToV2(RefToV1(o.spec.claim))
        /\ n.spec.template = RefToV2(RefToV1(o.spec.template))
    BY <2>a DEF DataConvertTo, DataConvertFrom
  <2> HIDE DEF n
  <2>3. /\ Deref(n.spec.index, 0) = Deref(o.spec.index, 0)
        /\ Deref(n.spec.claim, NoRef) = Deref(o.spec.claim, NoRef)
        /\ Deref(n.spec.template, NoRef) = Deref(o.spec.template, NoRef)
    <3>1. Deref(n.spec.index, 0) = Deref(o.spec.index, 0)
      BY <2>2 DEF Deref
    <3>2. QED
      BY <3>1, <2>1, <2>2, RefLaws
  <2>4. QED
    BY <1>1, <2>3 DEF n
<1> HIDE DEF k, Obj, V1
<1>5. QED
  <2>1. \A o \in Object(k) : /\ ConvertFrom(k, o) \in ObjectV1(k)
                             /\ Default(k, o) \in Object(k)
                             /\ Default(k, Default(k, o)) = Default(k, o)
    BY <1>1, <1>2
  <2>2. \A v \in ObjectV1(k), hub \in Object(k) \cup {Nil} :
          ConvertTo(k, v, hub) \in Object(k)
    BY <1>1, <1>3
  <2>3. ASSUME NEW v \in ObjectV1(k), NEW hub \in Object(k), FitsInt32(k, v)
        PROVE  V1Meaning(k, ConvertFrom(k, Default(k, ConvertTo(k, v, hub))))
                   = V1Meaning(k, WithoutLostChecksum(k, v, hub))
    BY <1>1, <1>3, <2>3
  <2>4. ASSUME NEW o \in Object(k), Default(k, o) = o
        PROVE  SpecMeaning(k, Default(k, ConvertTo(k, ConvertFrom(k, o), o)))
                   = SpecMeaning(k, o)
    BY <1>1, <1>4
  <2>5. QED
    BY <2>1, <2>2, <2>3, <2>4 DEF Lawful

LEMMA ClaimLawful == "Metal3DataClaim" \in Kinds => Lawful("Metal3DataClaim")
<1> DEFINE k == "Metal3DataClaim"
<1> SUFFICES Lawful(k)
  OBVIOUS
<1>1. /\ Object(k) = [template : Ptr(RefT)] /\ ObjectV1(k) = [template : RefT]
      /\ \A o : ConvertFrom(k, o) = ClaimConvertFrom(o) /\ Default(k, o) = o
      /\ \A o, hub : ConvertTo(k, o, hub) = ClaimConvertTo(o, hub)
      /\ \A o : V1Meaning(k, o) = o
      /\ \A o, hub : WithoutLostChecksum(k, o, hub) = o
      /\ \A o : SpecMeaning(k, o) = o
  BY DEF Object, ObjectV1, ConvertFrom, ConvertTo, Default, SpecMeaning,
         V1Meaning, WithoutLostChecksum
<1>2. ASSUME NEW v \in [template : RefT], NEW hub
      PROVE  /\ ClaimConvertTo(v, hub) \in [template : Ptr(RefT)]
             /\ ClaimConvertFrom(ClaimConvertTo(v, hub)) = v
  BY RefLaws DEF ClaimConvertTo, ClaimConvertFrom
<1>3. ASSUME NEW o \in [template : Ptr(RefT)]
      PROVE  /\ ClaimConvertFrom(o) \in [template : RefT]
             /\ Admitted(k, o) => ClaimConvertTo(ClaimConvertFrom(o), o) = o
  <2>1. Admitted(k, o) => o.template # Nil /\ o.template # NoRef
    <3>1. Admitted(k, o) => ClaimValidateCreate(o)
      BY DEF Admitted, ValidateCreate
    <3>2. NoRef.name = ""
      BY DEF NoRef
    <3>3. QED
      BY <3>1, <3>2 DEF ClaimValidateCreate
  <2>2. QED
    BY <2>1, RefLaws DEF ClaimConvertTo, ClaimConvertFrom, RefToV1, RefToV2,
                         Deref, PtrUnless
<1> HIDE DEF k
<1>4. QED
  BY <1>1, <1>2, <1>3 DEF Lawful

\* Seconds and milliseconds.
LEMMA SecondsLaws ==
    /\ \A i \in Int : /\ WholeSeconds(i) \in Int
                      /\ ConvertToSeconds(i) \in Int32
                      /\ WholeSeconds(i) \in Int32 =>
                             ConvertToSeconds(i) = WholeSeconds(i)
    /\ \A i \in Int : WholeSeconds(1000 * i) = i
<1> DEFINE h == HalfRange
<1>1. h \in Nat /\ h > 0 /\ Int32 = -h..(h - 1)
  BY IntBitsAssumption DEF Int32
<1>2. \A i \in Int : /\ WholeSeconds(i) \in Int
                     /\ WholeSeconds(1000 * i) = i
  BY DEF WholeSeconds
<1>3. \A i : ConvertToSeconds(i) =
        IF WholeSeconds(i) >= h THEN h - 1
        ELSE IF WholeSeconds(i) < -h THEN -h ELSE WholeSeconds(i)
  BY DEF ConvertToSeconds
<1> HIDE DEF h
<1>4. \A x \in Int : LET c == IF x >= h THEN h - 1 ELSE IF x < -h THEN -h ELSE x
                     IN  c \in Int32 /\ (x \in Int32 => c = x)
  BY <1>1
<1>5. QED
  BY <1>2, <1>3, <1>4

LEMMA MillisecondsLaws ==
    ASSUME NEW i \in Int32
    PROVE  LET p == PtrUnless(1000 * i, 0) IN
           /\ p \in Ptr(Int) /\ Deref(p, 0) = 1000 * i
           /\ WholeSeconds(Deref(p, 0)) = i
           /\ ConvertToSeconds(Deref(p, 0)) = i
<1>1. ASSUME NEW m \in Int
      PROVE  PtrUnless(m, 0) \in Ptr(Int) /\ Deref(PtrUnless(m, 0), 0) = m
  BY NilIsNoValue DEF PtrUnless, Deref, Ptr
<1>2. i \in Int /\ 1000 * i \in Int
  BY Narrowing
<1>3. WholeSeconds(1000 * i) = i /\ ConvertToSeconds(1000 * i) = i
  BY <1>2, SecondsLaws
<1>4. QED
  BY <1>1, <1>2, <1>3

\* A strategy keeps its types, one that fits is in v1beta2 what it meant, and
\* a v1beta2 strategy comes back as it was.
LEMMA StrategyLaws ==
    /\ \A s \in Ptr(StrategyV1T) : StrategyToV2(s) \in Ptr(StrategyT)
    /\ \A s \in Ptr(StrategyV1T) :
          (s # Nil => /\ s.retryLimit \in Int32
                      /\ WholeSeconds(Deref(s.timeout, 0)) \in Int32)
              => StrategyToV2(s) = StrategyMeaning(s)
    /\ \A s \in Ptr(StrategyT) : /\ StrategyToV1(s) \in Ptr(StrategyV1T)
                                 /\ StrategyToV2(StrategyToV1(s)) = s
                                 /\ StrategyMeaning(StrategyToV1(s)) = s
<1> DEFINE Of(s, l, t) == [type |-> s.type, retryLimit |-> l, timeout |-> t]
<1>1. ASSUME NEW s \in StrategyV1T
      PROVE  /\ s # Nil /\ s.retryLimit \in Int /\ Deref(s.timeout, 0) \in Int
             /\ s.type \in Strings
             /\ StrategyToV2(s) = Of(s, Wrap(s.retryLimit),
                                     ConvertToSeconds(Deref(s.timeout, 0)))
             /\ StrategyMeaning(s) = Of(s, s.retryLimit,
                                        WholeSeconds(Deref(s.timeout, 0)))
  <2>1. s # Nil
    BY NilIsNoValue
  <2>2. Deref(s.timeout, 0) \in Int /\ s.retryLimit \in Int /\ s.type \in Strings
    BY DEF StrategyV1T, Ptr, Deref
  <2>3. QED
    BY <2>1, <2>2 DEF StrategyToV2, StrategyMeaning, StrategyV1T
<1>2. ASSUME NEW s \in StrategyV1T
      PROVE  /\ StrategyToV2(s) \in StrategyT
             /\ (/\ s.retryLimit \in Int32
                 /\ WholeSeconds(Deref(s.timeout, 0)) \in Int32)
                    => StrategyToV2(s) = StrategyMeaning(s)
  <2>1. ConvertToSeconds(Deref(s.timeout, 0)) \in Int32
        /\ Wrap(s.retryLimit) \in Int32
    <3>1. Deref(s.timeout, 0) \in Int /\ s.retryLimit \in Int
      BY <1>1
    <3>2. ConvertToSeconds(Deref(s.timeout, 0)) \in Int32
      <4>1. \A i \in Int : ConvertToSeconds(i) \in Int32
        BY SecondsLaws
      <4>2. QED
        BY <3>1, <4>1, Zenon
    <3>3. Wrap(s.retryLimit) \in Int32
      BY <3>1, Narrowing, Zenon
    <3>4. QED
      BY <3>2, <3>3
  <2>2. StrategyToV2(s) \in StrategyT
    BY <1>1, <2>1 DEF StrategyT
  <2>3. ASSUME s.retryLimit \in Int32, WholeSeconds(Deref(s.timeout, 0)) \in Int32
        PROVE  StrategyToV2(s) = StrategyMeaning(s)
    <3>1. /\ Wrap(s.retryLimit) = s.retryLimit
          /\ ConvertToSeconds(Deref(s.timeout, 0)) = WholeSeconds(Deref(s.timeout, 0))
      <4>1. Deref(s.timeout, 0) \in Int
        BY <1>1
      <4>2. ConvertToSeconds(Deref(s.timeout, 0)) = WholeSeconds(Deref(s.timeout, 0))
        <5>1. \A i \in Int : WholeSeconds(i) \in Int32 =>
                               ConvertToSeconds(i) = WholeSeconds(i)
          BY SecondsLaws
        <5>2. QED
          BY <2>3, <4>1, <5>1, Zenon
      <4>3. Wrap(s.retryLimit) = s.retryLimit
        BY <2>3, Narrowing, Zenon
      <4>4. QED
        BY <4>2, <4>3
    <3> HIDE DEF Of
    <3>2. QED
      BY <1>1, <3>1
  <2>4. QED
    BY <2>2, <2>3
<1>3. ASSUME NEW s \in StrategyT
      PROVE  /\ StrategyToV1(s) \in StrategyV1T
             /\ StrategyToV2(StrategyToV1(s)) = s
             /\ StrategyMeaning(StrategyToV1(s)) = s
  <2> DEFINE p == PtrUnless(1000 * s.timeout, 0)
             q == Of(s, s.retryLimit, p)
  <2>1. /\ s # Nil /\ s.type \in Strings /\ s.retryLimit \in Int32
        /\ s.timeout \in Int32
    BY NilIsNoValue DEF StrategyT
  <2>2. /\ p \in Ptr(Int) /\ WholeSeconds(Deref(p, 0)) = s.timeout
        /\ ConvertToSeconds(Deref(p, 0)) = s.timeout
    BY <2>1, MillisecondsLaws
  <2>3. StrategyToV1(s) = q
    BY <2>1 DEF StrategyToV1, StrategyT
  <2> HIDE DEF p
  <2>a. s.retryLimit \in Int
    BY <2>1, Narrowing
  <2>4. q \in StrategyV1T
    BY <2>1, <2>2, <2>a DEF StrategyV1T
  <2>5. q.type = s.type /\ q.retryLimit = s.retryLimit /\ q.timeout = p
    OBVIOUS
  <2>6. Wrap(s.retryLimit) = s.retryLimit
    BY <2>1, Narrowing
  <2>7. Of(s, s.retryLimit, s.timeout) = s
    BY DEF StrategyT
  <2> HIDE DEF q
  <2>8. StrategyToV2(q) = Of(s, s.retryLimit, s.timeout)
        /\ StrategyMeaning(q) = Of(s, s.retryLimit, s.timeout)
    BY <1>1, <2>2, <2>4, <2>5, <2>6
  <2> HIDE DEF Of
  <2>9. QED
    BY <2>3, <2>4, <2>7, <2>8
<1>4. StrategyToV2(Nil) = Nil /\ StrategyToV1(Nil) = Nil /\ StrategyMeaning(Nil) = Nil
  BY DEF StrategyToV1, StrategyToV2, StrategyMeaning
<1>5. QED
  BY <1>1, <1>2, <1>3, <1>4 DEF Ptr

\* The defaults of a strategy.
DefaultStrategy(s) ==
    [type |-> IF s.type = "" THEN "Reboot" ELSE s.type,
     retryLimit |-> IF s.retryLimit < MinRetryLimit THEN MinRetryLimit
                    ELSE s.retryLimit,
     timeout |-> IF s.timeout = 0 THEN DefaultTimeout ELSE s.timeout]

LEMMA StrategyDefaults ==
    /\ \A o \in [strategy : Ptr(StrategyT)] :
          RemediationTemplateDefault(o)
              = IF o.strategy = Nil THEN o
                ELSE [strategy |-> DefaultStrategy(o.strategy)]
    /\ \A o \in [strategy : Ptr(StrategyT)] :
          LET d == RemediationTemplateDefault(o) IN
          /\ d \in [strategy : Ptr(StrategyT)]
          /\ RemediationTemplateDefault(d) = d
<1>1. ASSUME NEW s \in StrategyT
      PROVE  /\ DefaultStrategy(s) \in StrategyT
             /\ DefaultStrategy(DefaultStrategy(s)) = DefaultStrategy(s)
  <2> DEFINE type(x) == IF x = "" THEN "Reboot" ELSE x
             limit(x) == IF x < MinRetryLimit THEN MinRetryLimit ELSE x
             timeout(x) == IF x = 0 THEN DefaultTimeout ELSE x
             Of(x) == [type |-> type(x.type), retryLimit |-> limit(x.retryLimit),
                       timeout |-> timeout(x.timeout)]
  <2>1. \A x \in Strings : type(x) \in Strings /\ type(type(x)) = type(x)
    BY NilIsNoValue
  <2>2. \A x \in Int32 : limit(x) \in Int32 /\ limit(limit(x)) = limit(x)
    <3>1. MinRetryLimit \in Int32 /\ \A x \in Int32 : x \in Int
      BY OwnNumbers, Narrowing, Zenon
    <3>2. \A x \in Int32 : limit(x) \in Int32
      BY <3>1, Zenon
    <3>3. \A x \in Int32 : limit(limit(x)) = limit(x)
      BY <3>1 DEF MinRetryLimit
    <3>4. QED
      BY <3>2, <3>3
  <2>3. \A x \in Int32 : timeout(x) \in Int32 /\ timeout(timeout(x)) = timeout(x)
    <3>1. \A x \in Int32 : timeout(x) \in Int32
      BY OwnNumbers, Zenon
    <3>2. \A x \in Int32 : timeout(timeout(x)) = timeout(x)
      BY DEF DefaultTimeout
    <3>3. QED
      BY <3>1, <3>2
  <2>4. \A x : DefaultStrategy(x) = Of(x)
    BY DEF DefaultStrategy
  <2> HIDE DEF type, limit, timeout
  <2>5. Of(s) \in StrategyT /\ Of(Of(s)) = Of(s)
    BY <2>1, <2>2, <2>3 DEF StrategyT
  <2> HIDE DEF Of
  <2>6. QED
    BY <2>4, <2>5
<1>2. ASSUME NEW o \in [strategy : Ptr(StrategyT)], o.strategy # Nil
      PROVE  RemediationTemplateDefault(o)
                 = [strategy |-> DefaultStrategy(o.strategy)]
  <2>1. o.strategy \in StrategyT /\ o = [strategy |-> o.strategy]
    BY <1>2 DEF Ptr
  <2>2. ASSUME NEW s \in StrategyT, s # Nil
        PROVE  RemediationTemplateDefault([strategy |-> s])
                   = [strategy |-> DefaultStrategy(s)]
    BY <2>2 DEF RemediationTemplateDefault, DefaultStrategy, StrategyT
  <2>3. QED
    BY <1>2, <2>1, <2>2
<1>3. ASSUME NEW o \in [strategy : Ptr(StrategyT)], o.strategy = Nil
      PROVE  RemediationTemplateDefault(o) = o
  BY <1>3 DEF RemediationTemplateDefault
<1>4. ASSUME NEW o \in [strategy : Ptr(StrategyT)], o.strategy # Nil
      PROVE  LET d == RemediationTemplateDefault(o) IN
             /\ d \in [strategy : Ptr(StrategyT)]
             /\ RemediationTemplateDefault(d) = d
  <2> DEFINE s == DefaultStrategy(o.strategy)
             d == [strategy |-> s]
  <2>1. s \in StrategyT /\ DefaultStrategy(s) = s
    BY <1>1, <1>4 DEF Ptr
  <2> HIDE DEF s
  <2>2. d \in [strategy : Ptr(StrategyT)] /\ d.strategy # Nil
    BY <2>1, NilIsNoValue DEF Ptr
  <2>3. RemediationTemplateDefault(d) = d
    BY <1>2, <2>1, <2>2
  <2>4. RemediationTemplateDefault(o) = d
    BY <1>2, <1>4 DEF s
  <2>5. QED
    BY <2>2, <2>3, <2>4
<1>5. QED
  BY <1>2, <1>3, <1>4

LEMMA RemediationsLawful ==
    ASSUME NEW k \in {"Metal3Remediation", "Metal3RemediationTemplate"}
    PROVE  Lawful(k)
<1> DEFINE Obj == [strategy : Ptr(StrategyT)]
           V1 == [strategy : Ptr(StrategyV1T)]
<1>1. /\ Object(k) = Obj /\ ObjectV1(k) = V1
      /\ \A o : ConvertFrom(k, o) = [strategy |-> StrategyToV1(o.strategy)]
      /\ \A o, hub : ConvertTo(k, o, hub)
                       = [strategy |-> StrategyToV2(o.strategy)]
      /\ \A o : SpecMeaning(k, o) = o
  BY DEF Object, ObjectV1, ConvertFrom, ConvertTo, SpecMeaning,
         RemediationConvertFrom, RemediationConvertTo,
         RemediationTemplateConvertFrom, RemediationTemplateConvertTo
<1>2. /\ \A o : V1Meaning(k, o)
                 = Default(k, [strategy |-> StrategyMeaning(o.strategy)])
      /\ \A o, hub : WithoutLostChecksum(k, o, hub) = o
      /\ \A o : FitsInt32(k, o) <=>
            (o.strategy # Nil =>
                 /\ o.strategy.retryLimit \in Int32
                 /\ WholeSeconds(Deref(o.strategy.timeout, 0)) \in Int32)
  BY DEF V1Meaning, WithoutLostChecksum, FitsInt32
<1>3. /\ \A v \in V1 : v.strategy \in Ptr(StrategyV1T)
      /\ \A o \in Obj : o.strategy \in Ptr(StrategyT) /\ o = [strategy |-> o.strategy]
  OBVIOUS
<1>4. \A o \in Obj : Default(k, o) \in Obj /\ Default(k, Default(k, o)) = Default(k, o)
  <2>1. CASE k = "Metal3Remediation"
    BY <2>1 DEF Default
  <2>2. CASE k = "Metal3RemediationTemplate"
    <3>1. \A o : Default(k, o) = RemediationTemplateDefault(o)
      BY <2>2 DEF Default
    <3>2. QED
      BY <3>1, StrategyDefaults
  <2>3. QED
    BY <2>1, <2>2
<1>5. \A o \in Obj : \A hub : /\ ConvertFrom(k, o) \in V1
                              /\ ConvertTo(k, ConvertFrom(k, o), hub) = o
  <2>1. \A o \in Obj : /\ [strategy |-> StrategyToV1(o.strategy)] \in V1
                       /\ [strategy |-> StrategyToV2(StrategyToV1(o.strategy))] = o
    BY StrategyLaws
  <2>2. QED
    BY <1>1, <2>1
<1>6. \A v \in V1 : \A hub : ConvertTo(k, v, hub) \in Obj
  <2>1. \A v \in V1 : [strategy |-> StrategyToV2(v.strategy)] \in Obj
    BY StrategyLaws
  <2>2. QED
    BY <1>1, <2>1
<1> HIDE DEF Obj, V1
<1>7. ASSUME NEW v \in V1, NEW hub, FitsInt32(k, v)
      PROVE  V1Meaning(k, ConvertFrom(k, Default(k, ConvertTo(k, v, hub))))
                 = V1Meaning(k, v)
  <2> DEFINE d == Default(k, ConvertTo(k, v, hub))
  <2>1. d \in Obj /\ Default(k, d) = d
    BY <1>4, <1>6
  <2>2. V1Meaning(k, v) = d
    <3>1. StrategyToV2(v.strategy) = StrategyMeaning(v.strategy)
      BY <1>2, <1>3, <1>7, StrategyLaws
    <3>2. QED
      BY <1>1, <1>2, <3>1
  <2> HIDE DEF d
  <2>3. V1Meaning(k, ConvertFrom(k, d)) = d
    <3>1. d.strategy \in Ptr(StrategyT) /\ d = [strategy |-> d.strategy]
      BY <1>3, <2>1
    <3>2. StrategyMeaning(StrategyToV1(d.strategy)) = d.strategy
      BY <3>1, StrategyLaws
    <3>3. ConvertFrom(k, d).strategy = StrategyToV1(d.strategy)
      BY <1>1
    <3>4. V1Meaning(k, ConvertFrom(k, d)) = Default(k, [strategy |-> d.strategy])
      BY <1>2, <3>2, <3>3
    <3>5. QED
      BY <2>1, <3>1, <3>4
  <2>4. QED
    BY <2>2, <2>3 DEF d
<1>8. QED
  <2>1. \A o \in Object(k) : /\ ConvertFrom(k, o) \in ObjectV1(k)
                             /\ Default(k, o) \in Object(k)
                             /\ Default(k, Default(k, o)) = Default(k, o)
    BY <1>1, <1>4, <1>5
  <2>2. \A v \in ObjectV1(k), hub \in Object(k) \cup {Nil} :
          ConvertTo(k, v, hub) \in Object(k)
    BY <1>1, <1>6
  <2>3. ASSUME NEW v \in ObjectV1(k), NEW hub \in Object(k), FitsInt32(k, v)
        PROVE  V1Meaning(k, ConvertFrom(k, Default(k, ConvertTo(k, v, hub))))
                   = V1Meaning(k, WithoutLostChecksum(k, v, hub))
    BY <1>1, <1>2, <1>7, <2>3
  <2>4. ASSUME NEW o \in Object(k), Default(k, o) = o
        PROVE  SpecMeaning(k, Default(k, ConvertTo(k, ConvertFrom(k, o), o)))
                   = SpecMeaning(k, o)
    BY <1>1, <1>5, <2>4
  <2>5. QED
    BY <2>1, <2>2, <2>3, <2>4 DEF Lawful

\* A machine that is written in v1beta1 with the status that is stored has
\* the status that is stored.
LEMMA MachineKeepsStatus ==
    ASSUME NEW v \in MachineV1, NEW hub \in Machine, NEW old \in Machine,
           v.status = MachineConvertFrom(old).status
    PROVE  StatusMeaning("Metal3Machine", MachineConvertTo(v, hub).status)
               = StatusMeaning("Metal3Machine", old.status)
<1> DEFINE n == MachineConvertTo(v, hub)
           Means(s) == [prov |-> Deref(s.prov, FALSE), rendered |-> s.rendered,
                        cond |-> s.cond, legacy |-> s.legacy]
<1>1. ASSUME NEW s \in MachineStatusT
      PROVE  StatusMeaning("Metal3Machine", s) = Means(s)
  <2>1. StatusMeaning("Metal3Machine", s) = [s EXCEPT !.prov = Deref(@, FALSE)]
    BY DEF StatusMeaning
  <2>2. QED
    BY <2>1 DEF MachineStatusT
<1>2. /\ n \in Machine /\ Deref(n.status.prov, FALSE) = v.status.ready
      /\ n.status.rendered = v.status.rendered
      /\ n.status.cond = v.status.v2cond /\ n.status.legacy = v.status.cond
  BY MachineWrites
<1>3. v.status = MachineStatusToV1(old.status)
  BY DEF MachineConvertFrom
<1>4. /\ v.status.ready = Deref(old.status.prov, FALSE)
      /\ v.status.rendered = old.status.rendered
      /\ v.status.v2cond = old.status.cond /\ v.status.cond = old.status.legacy
  BY <1>3 DEF MachineStatusToV1
<1> HIDE DEF n
<1>5. n.status \in MachineStatusT /\ old.status \in MachineStatusT
  BY <1>2, MachineObjects
<1>6. Means(n.status) = Means(old.status)
  BY <1>2, <1>4
<1> HIDE DEF Means
<1>7. QED
  BY <1>1, <1>5, <1>6 DEF n

LEMMA MachineStatusLawful ==
    "Metal3Machine" \in Kinds => StatusLawful("Metal3Machine")
<1> DEFINE k == "Metal3Machine"
<1> SUFFICES ASSUME k \in Kinds PROVE StatusLawful(k)
  OBVIOUS
<1>1. /\ Object(k) = Machine /\ ObjectV1(k) = MachineV1
      /\ StatusT(k) = MachineStatusT
      /\ \A o : ConvertFrom(k, o) = MachineConvertFrom(o) /\ Default(k, o) = o
      /\ \A o, hub : ConvertTo(k, o, hub) = MachineConvertTo(o, hub)
      /\ \A o : Admitted(k, o) <=> MachineValidate(o)
  BY DEF Machine, MachineV1, StatusT, ConvertFrom, ConvertTo, Default, Admitted,
         ValidateCreate
<1>2. ASSUME NEW o \in Machine, NEW s \in MachineStatusT
      PROVE  LET n == [o EXCEPT !.status = s] IN
             n \in Machine /\ (MachineValidate(o) => MachineValidate(n))
  <2>1. LET n == [o EXCEPT !.status = s] IN n \in Machine /\ n.spec = o.spec
    BY MachineObjects
  <2>2. QED
    BY <2>1 DEF MachineValidate
<1>3. \A v \in MachineV1, s \in MachineStatusV1T :
        LET n == [v EXCEPT !.status = s] IN n \in MachineV1 /\ n.status = s
  BY MachineObjects
<1>4. \A o \in Machine : /\ o.status \in MachineStatusT
                         /\ MachineConvertFrom(o).status \in MachineStatusV1T
  BY MachineObjects, MachineReads
<1> HIDE DEF k
<1>5. \A v \in MachineV1, hub \in Machine, old \in Machine :
        v.status = MachineConvertFrom(old).status =>
            StatusMeaning(k, MachineConvertTo(v, hub).status)
                = StatusMeaning(k, old.status)
  BY MachineKeepsStatus DEF k
<1>6. QED
  BY <1>1, <1>2, <1>3, <1>4, <1>5 DEF StatusLawful

LEMMA DataStatusLawful == StatusLawful("Metal3Data")
<1> DEFINE k == "Metal3Data"
           Obj == [name : Strings \X Int, spec : DataSpecT, status : DataStatusT]
           V1 == [name : Strings \X Int, spec : DataSpecV1T,
                  status : DataStatusV1T]
<1> SUFFICES StatusLawful(k)
  OBVIOUS
<1>1. /\ Object(k) = Obj /\ ObjectV1(k) = V1 /\ StatusT(k) = DataStatusT
      /\ \A o : ConvertFrom(k, o) = DataConvertFrom(o) /\ Default(k, o) = o
      /\ \A o, hub : ConvertTo(k, o, hub) = DataConvertTo(o, hub)
      /\ \A s : StatusMeaning(k, s) = Deref(s.ready, FALSE)
  BY DEF Object, ObjectV1, StatusT, ConvertFrom, ConvertTo, Default,
         StatusMeaning
<1>2. ASSUME NEW o \in Obj, NEW s \in DataStatusT
      PROVE  LET n == [o EXCEPT !.status = s] IN
             n \in Obj /\ (Admitted(k, o) => Admitted(k, n))
  <2>1. LET n == [o EXCEPT !.status = s] IN n \in Obj /\ n.spec = o.spec
    OBVIOUS
  <2>2. QED
    BY <2>1 DEF Admitted
<1>3. \A v \in V1, s \in DataStatusV1T :
        LET n == [v EXCEPT !.status = s] IN n \in V1 /\ n.status = s
  OBVIOUS
<1>4. \A o \in Obj : /\ o.status \in DataStatusT
                     /\ DataConvertFrom(o).status \in DataStatusV1T
  BY DEF DataConvertFrom, DataStatusT, DataStatusV1T, Deref, Ptr
<1>5. ASSUME NEW v \in V1, NEW hub, NEW old,
             v.status = DataConvertFrom(old).status
      PROVE  Deref(DataConvertTo(v, hub).status.ready, FALSE)
                 = Deref(old.status.ready, FALSE)
  <2>1. /\ DataConvertTo(v, hub).status.ready = v.status.ready
        /\ v.status.ready = Deref(old.status.ready, FALSE)
    <3>1. DataConvertTo(v, hub).status = [ready |-> v.status.ready]
      BY DEF DataConvertTo
    <3>2. v.status = [ready |-> Deref(old.status.ready, FALSE)]
      BY <1>5 DEF DataConvertFrom
    <3>3. \A x : [ready |-> x].ready = x
      OBVIOUS
    <3>4. QED
      BY <3>1, <3>2, <3>3, Zenon
  <2>2. \A x : Deref(Deref(x, FALSE), FALSE) = Deref(x, FALSE)
    BY Zenon DEF Deref
  <2>3. QED
    BY <2>1, <2>2, Zenon
<1> HIDE DEF k, Obj, V1
<1>6. ASSUME NEW v \in ObjectV1(k), NEW hub, NEW old,
             v.status = ConvertFrom(k, old).status
      PROVE  StatusMeaning(k, Default(k, ConvertTo(k, v, hub)).status)
                 = StatusMeaning(k, old.status)
  <2>1. Deref(DataConvertTo(v, hub).status.ready, FALSE)
          = Deref(old.status.ready, FALSE)
    <3>1. v \in V1 /\ v.status = DataConvertFrom(old).status
      BY <1>1, <1>6
    <3>2. QED
      BY <1>5, <3>1
  <2>2. Default(k, ConvertTo(k, v, hub)) = DataConvertTo(v, hub)
    BY <1>1, Zenon
  <2>3. QED
    BY <1>1, <2>1, <2>2, Zenon
<1>7. QED
  BY <1>1, <1>2, <1>3, <1>4, <1>6 DEF StatusLawful

----------------------------------------------------------------------------
(* Metal3Cluster and Metal3ClusterTemplate. *)

LEMMA ClusterSpecTypes ==
    /\ \A s \in ClusterSpecT : ClusterSpecToV1(s) \in ClusterSpecV1T
    /\ \A s \in ClusterSpecV1T : ClusterSpecToV2(s) \in ClusterSpecT
<1>1. ASSUME NEW s \in ClusterSpecT
      PROVE  ClusterSpecToV1(s) \in ClusterSpecV1T
  <2>1. /\ s.fds \in NamedListOf(FailureDomainT) /\ s.host \in Strings
        /\ s.port \in Int /\ s.cloud \in Ptr(BOOLEAN)
    BY Narrowing DEF ClusterSpecT
  <2>2. FailureDomainsToV1(s.fds) \in Ptr(MapOf(BOOLEAN))
    BY <2>1, DomainsBack
  <2>3. (IF s.cloud = Nil THEN Nil ELSE ~s.cloud) \in Ptr(BOOLEAN)
    BY <2>1 DEF Ptr
  <2>4. QED
    BY <2>1, <2>2, <2>3 DEF ClusterSpecToV1, ClusterSpecV1T
<1>2. ASSUME NEW s \in ClusterSpecV1T
      PROVE  ClusterSpecToV2(s) \in ClusterSpecT
  <2>1. /\ s.fds \in Ptr(MapOf(BOOLEAN)) /\ s.host \in Strings
        /\ Wrap(s.port) \in Int32 /\ s.cloud \in Ptr(BOOLEAN)
    BY Narrowing DEF ClusterSpecV1T
  <2>2. FailureDomainsToV2(s.fds) \in NamedListOf(FailureDomainT)
    BY <2>1, DomainsThere
  <2>3. QED
    BY <2>1, <2>2 DEF ClusterSpecToV2, ClusterSpecT
<1>3. QED
  BY <1>1, <1>2

LEMMA ClusterStatusTypes ==
    /\ \A s \in ClusterStatusT : ClusterStatusToV1(s) \in ClusterStatusV1T
    /\ \A s \in ClusterStatusV1T : \A p \in Ptr(BOOLEAN) :
          [ClusterStatusToV2(s) EXCEPT !.prov = p]
              = [prov |-> p, cond |-> s.v2cond, legacy |-> s.cond,
                 fds |-> FailureDomainsToV2(s.fds)]
    /\ \A s \in ClusterStatusV1T : \A p \in Ptr(BOOLEAN) :
          [ClusterStatusToV2(s) EXCEPT !.prov = p] \in ClusterStatusT
<1>1. ASSUME NEW s \in ClusterStatusT
      PROVE  ClusterStatusToV1(s) \in ClusterStatusV1T
  <2>1. /\ s.fds \in NamedListOf(FailureDomainT) /\ s.prov \in Ptr(BOOLEAN)
        /\ s.cond \in Ptr(Strings) /\ s.legacy \in Ptr(Strings)
    BY DEF ClusterStatusT
  <2>2. FailureDomainsToV1(s.fds) \in Ptr(MapOf(BOOLEAN))
    BY <2>1, DomainsBack
  <2>3. Deref(s.prov, FALSE) \in BOOLEAN
    BY <2>1 DEF Deref, Ptr
  <2>4. QED
    BY <2>1, <2>2, <2>3 DEF ClusterStatusToV1, ClusterStatusV1T
<1>2. ASSUME NEW s \in ClusterStatusV1T, NEW p \in Ptr(BOOLEAN)
      PROVE  /\ [ClusterStatusToV2(s) EXCEPT !.prov = p]
                   = [prov |-> p, cond |-> s.v2cond, legacy |-> s.cond,
                      fds |-> FailureDomainsToV2(s.fds)]
             /\ [ClusterStatusToV2(s) EXCEPT !.prov = p] \in ClusterStatusT
  <2>1. /\ s.fds \in Ptr(MapOf(BOOLEAN))
        /\ s.cond \in Ptr(Strings) /\ s.v2cond \in Ptr(Strings)
    BY DEF ClusterStatusV1T
  <2>2. FailureDomainsToV2(s.fds) \in NamedListOf(FailureDomainT)
    BY <2>1, DomainsThere
  <2>3. [ClusterStatusToV2(s) EXCEPT !.prov = p]
           = [prov |-> p, cond |-> s.v2cond, legacy |-> s.cond,
              fds |-> FailureDomainsToV2(s.fds)]
    BY DEF ClusterStatusToV2
  <2>4. QED
    BY <2>1, <2>2, <2>3 DEF ClusterStatusT
<1>3. QED
  BY <1>1, <1>2

ClusterObj == [spec : ClusterSpecT, status : ClusterStatusT, prefix : Strings]
ClusterObjV1 ==
    [spec : ClusterSpecV1T, status : ClusterStatusV1T, prefix : Strings]

LEMMA ProvisionedTypes ==
    \A b \in BOOLEAN, p \in Ptr(BOOLEAN) :
        /\ BoolToPointer(b, p) \in Ptr(BOOLEAN)
        /\ Deref(BoolToPointer(b, p), FALSE) = b
  BY NilIsNoValue DEF BoolToPointer, Deref, Ptr

LEMMA ClusterReads ==
    ASSUME NEW o \in ClusterObj
    PROVE  /\ ClusterConvertFrom(o) \in ClusterObjV1
           /\ ClusterConvertFrom(o).spec = ClusterSpecToV1(o.spec)
           /\ ClusterConvertFrom(o).status = ClusterStatusToV1(o.status)
           /\ ClusterConvertFrom(o).prefix = o.prefix
<1>1. o.spec \in ClusterSpecT /\ o.status \in ClusterStatusT /\ o.prefix \in Strings
  BY DEF ClusterObj
<1>2. QED
  BY <1>1, ClusterSpecTypes, ClusterStatusTypes DEF ClusterConvertFrom, ClusterObjV1

LEMMA ClusterWrites ==
    ASSUME NEW v \in ClusterObjV1, NEW hub \in ClusterObj \cup {Nil}
    PROVE  LET n == ClusterConvertTo(v, hub) IN
           /\ n \in ClusterObj
           /\ n.spec = ClusterSpecToV2(v.spec) /\ n.prefix = v.prefix
           /\ Deref(n.status.prov, FALSE) = v.status.ready
           /\ n.status.cond = v.status.v2cond /\ n.status.legacy = v.status.cond
           /\ n.status.fds = FailureDomainsToV2(v.status.fds)
<1> DEFINE h == IF hub = Nil THEN Nil ELSE hub.status.prov
           p == BoolToPointer(v.status.ready, h)
           st == [ClusterStatusToV2(v.status) EXCEPT !.prov = p]
<1>1. h \in Ptr(BOOLEAN)
  BY DEF ClusterObj, ClusterStatusT, Ptr
<1>2. /\ v.spec \in ClusterSpecV1T /\ v.status \in ClusterStatusV1T
      /\ v.prefix \in Strings /\ v.status.ready \in BOOLEAN
  BY DEF ClusterObjV1, ClusterStatusV1T
<1>3. p \in Ptr(BOOLEAN) /\ Deref(p, FALSE) = v.status.ready
  BY <1>1, <1>2, ProvisionedTypes
<1>4. ClusterConvertTo(v, hub)
        = [spec |-> ClusterSpecToV2(v.spec), status |-> st, prefix |-> v.prefix]
  BY DEF ClusterConvertTo
<1> HIDE DEF p
<1>5. /\ st = [prov |-> p, cond |-> v.status.v2cond, legacy |-> v.status.cond,
               fds |-> FailureDomainsToV2(v.status.fds)]
      /\ st \in ClusterStatusT
  BY <1>2, <1>3, ClusterStatusTypes
<1> HIDE DEF st
<1>6. /\ st.prov = p /\ st.cond = v.status.v2cond /\ st.legacy = v.status.cond
      /\ st.fds = FailureDomainsToV2(v.status.fds)
  BY <1>5
<1>7. ClusterSpecToV2(v.spec) \in ClusterSpecT
  BY <1>2, ClusterSpecTypes
<1> DEFINE n == ClusterConvertTo(v, hub)
<1>8. n.spec = ClusterSpecToV2(v.spec) /\ n.status = st /\ n.prefix = v.prefix
  BY <1>4
<1>9. n \in ClusterObj
  BY <1>2, <1>4, <1>5, <1>7 DEF ClusterObj
<1> HIDE DEF n
<1>10. Deref(n.status.prov, FALSE) = v.status.ready
  BY <1>3, <1>6, <1>8, Zenon
<1>11. QED
  BY <1>6, <1>8, <1>9, <1>10 DEF n

\* Defaulting touches the port and cloudProviderEnabled.
LEMMA ClusterDefaults ==
    ASSUME NEW o \in ClusterObj
    PROVE  LET s == [host |-> o.spec.host,
                     port |-> IF o.spec.port = 0 THEN DefaultPort
                              ELSE o.spec.port,
                     cloud |-> Deref(o.spec.cloud, FALSE), fds |-> o.spec.fds]
               d == ClusterDefault(o) IN
           /\ d = [spec |-> s, status |-> o.status, prefix |-> o.prefix]
           /\ d \in ClusterObj /\ ClusterDefault(d) = d
<1> DEFINE S(c) == [host |-> c.host,
                    port |-> IF c.port = 0 THEN DefaultPort ELSE c.port,
                    cloud |-> Deref(c.cloud, FALSE), fds |-> c.fds]
           D(x) == [spec |-> S(x.spec), status |-> x.status, prefix |-> x.prefix]
<1>1. ASSUME NEW x \in ClusterObj PROVE ClusterDefault(x) = D(x)
  <2> DEFINE p == [x.spec EXCEPT !.port = IF @ = 0 THEN DefaultPort ELSE @]
             q == [p EXCEPT !.cloud = Deref(@, FALSE)]
             y == [x EXCEPT !.spec = p]
  <2>1. ClusterDefault(x) = [y EXCEPT !.spec = [y.spec EXCEPT !.cloud = Deref(@, FALSE)]]
    BY DEF ClusterDefault
  <2>2. x.spec \in ClusterSpecT
    BY <1>1 DEF ClusterObj
  <2>3. q = S(x.spec)
    <3> DEFINE a == x.spec
               r == IF a.port = 0 THEN DefaultPort ELSE a.port
    <3>1. a = [host |-> a.host, port |-> a.port, cloud |-> a.cloud, fds |-> a.fds]
      BY <2>2 DEF ClusterSpecT
    <3>2. p = [a EXCEPT !.port = r]
      OBVIOUS
    <3> HIDE DEF a, r, p
    <3>3. p = [host |-> a.host, port |-> r, cloud |-> a.cloud, fds |-> a.fds]
      BY <3>1, <3>2
    <3>4. p.cloud = a.cloud
      BY <3>3
    <3>5. q = [p EXCEPT !.cloud = Deref(a.cloud, FALSE)]
      BY <3>4
    <3>6. q = [host |-> a.host, port |-> r, cloud |-> Deref(a.cloud, FALSE),
               fds |-> a.fds]
      <4> DEFINE e == Deref(a.cloud, FALSE)
      <4> HIDE DEF e, q
      <4>1. QED
        BY <3>3, <3>5 DEF e
    <3>7. QED
      BY <3>6 DEF a, r
  <2>4. y.spec = p
    BY <1>1 DEF ClusterObj
  <2>5. [y EXCEPT !.spec = q] = [spec |-> q, status |-> x.status, prefix |-> x.prefix]
    <3> HIDE DEF q, p
    <3>1. x = [spec |-> x.spec, status |-> x.status, prefix |-> x.prefix]
      BY <1>1 DEF ClusterObj
    <3>2. y = [spec |-> p, status |-> x.status, prefix |-> x.prefix]
      BY <3>1
    <3> HIDE DEF y
    <3>3. QED
      BY <3>2
  <2> HIDE DEF p, y
  <2>6. QED
    BY <2>1, <2>3, <2>4, <2>5
<1>2. ASSUME NEW c \in ClusterSpecT
      PROVE  S(c) \in ClusterSpecT /\ S(S(c)) = S(c)
  <2>1. Deref(c.cloud, FALSE) \in BOOLEAN
    BY DEF ClusterSpecT, Deref, Ptr
  <2>2. \A b \in BOOLEAN : Deref(b, FALSE) = b
    BY NilIsNoValue DEF Deref
  <2>3. S(c) \in ClusterSpecT
    <3>1. /\ c.host \in Strings /\ c.fds \in NamedListOf(FailureDomainT)
          /\ (IF c.port = 0 THEN DefaultPort ELSE c.port) \in Int32
      BY OwnNumbers DEF ClusterSpecT
    <3>2. Deref(c.cloud, FALSE) \in Ptr(BOOLEAN)
      BY <2>1 DEF Ptr
    <3>3. QED
      BY <3>1, <3>2 DEF ClusterSpecT
  <2>4. S(c).port # 0
    BY DEF DefaultPort
  <2>5. QED
    BY <2>1, <2>2, <2>3, <2>4
<1>3. o.spec \in ClusterSpecT
  BY DEF ClusterObj
<1>4. D(o) \in ClusterObj /\ D(D(o)) = D(o)
  <2>1. D(o).spec = S(o.spec) /\ D(o).status = o.status /\ D(o).prefix = o.prefix
    OBVIOUS
  <2>2. S(o.spec) \in ClusterSpecT /\ S(S(o.spec)) = S(o.spec)
    BY <1>2, <1>3
  <2> HIDE DEF S
  <2>3. D(o) \in ClusterObj
    BY <2>2 DEF ClusterObj
  <2>4. D(D(o)) = [spec |-> S(S(o.spec)), status |-> o.status, prefix |-> o.prefix]
    OBVIOUS
  <2>5. QED
    BY <2>2, <2>3, <2>4
<1>5. QED
  <2>1. ClusterDefault(o) = D(o) /\ ClusterDefault(D(o)) = D(D(o))
    BY <1>1, <1>4
  <2> HIDE DEF D
  <2>2. ClusterDefault(o) = D(o) /\ D(o) \in ClusterObj
        /\ ClusterDefault(ClusterDefault(o)) = ClusterDefault(o)
    BY <1>4, <2>1
  <2>3. QED
    BY <2>2 DEF D, S

LEMMA ClusterLawful == Lawful("Metal3Cluster") /\ StatusLawful("Metal3Cluster")
<1> DEFINE k == "Metal3Cluster"
           Port(p) == IF p = 0 THEN DefaultPort ELSE p
<1> SUFFICES Lawful(k) /\ StatusLawful(k)
  OBVIOUS
<1>1. /\ Object(k) = ClusterObj /\ ObjectV1(k) = ClusterObjV1
      /\ StatusT(k) = ClusterStatusT
      /\ \A o : ConvertFrom(k, o) = ClusterConvertFrom(o)
      /\ \A o : Default(k, o) = ClusterDefault(o)
      /\ \A o, hub : ConvertTo(k, o, hub) = ClusterConvertTo(o, hub)
      /\ \A o : Admitted(k, o) <=> ClusterValidate(o)
  BY DEF Object, ObjectV1, StatusT, ConvertFrom, ConvertTo, Default, Admitted,
         ValidateCreate, ClusterObj, ClusterObjV1
<1>2. /\ \A o : V1Meaning(k, o) =
            [host |-> o.spec.host, fds |-> o.spec.fds, prefix |-> o.prefix,
             port |-> Port(o.spec.port), cloud |-> Deref(o.spec.cloud, FALSE)]
      /\ \A o, hub : WithoutLostChecksum(k, o, hub) = o
      /\ \A o : FitsInt32(k, o) <=> o.spec.port \in Int32
  BY DEF V1Meaning, WithoutLostChecksum, FitsInt32
<1>3. ASSUME NEW o \in ClusterObj
      PROVE  SpecMeaning(k, o) =
               [host |-> o.spec.host, port |-> o.spec.port,
                cloud |-> o.spec.cloud, fds |-> DomainsMeaning(o.spec.fds)]
  <2>1. SpecMeaning(k, o) = [o.spec EXCEPT !.fds = DomainsMeaning(@)]
    BY DEF SpecMeaning
  <2>2. o.spec \in ClusterSpecT
    BY <1>3 DEF ClusterObj
  <2>3. QED
    BY <2>1, <2>2 DEF ClusterSpecT
<1>4. \A p \in Int : Port(Port(p)) = Port(p)
  BY DEF DefaultPort
<1>5. \A x : Deref(Deref(x, FALSE), FALSE) = Deref(x, FALSE)
  BY Zenon DEF Deref
<1>6. ASSUME NEW o \in ClusterObj
      PROVE  LET d == ClusterDefault(o) IN
             /\ d \in ClusterObj /\ ClusterDefault(d) = d
             /\ d.spec.host = o.spec.host /\ d.spec.port = Port(o.spec.port)
             /\ d.spec.cloud = Deref(o.spec.cloud, FALSE)
             /\ d.spec.fds = o.spec.fds
             /\ d.status = o.status /\ d.prefix = o.prefix
  <2> DEFINE d == ClusterDefault(o)
             s == [host |-> o.spec.host, port |-> Port(o.spec.port),
                   cloud |-> Deref(o.spec.cloud, FALSE), fds |-> o.spec.fds]
  <2>1. /\ d = [spec |-> s, status |-> o.status, prefix |-> o.prefix]
        /\ d \in ClusterObj /\ ClusterDefault(d) = d
    BY ClusterDefaults
  <2> HIDE DEF d
  <2>2. /\ s.host = o.spec.host /\ s.port = Port(o.spec.port)
        /\ s.cloud = Deref(o.spec.cloud, FALSE) /\ s.fds = o.spec.fds
    OBVIOUS
  <2> HIDE DEF s
  <2>3. d.spec = s /\ d.status = o.status /\ d.prefix = o.prefix
    BY <2>1
  <2>4. QED
    BY <2>1, <2>2, <2>3 DEF d
<1>7. ASSUME NEW v \in ClusterObjV1, NEW hub \in ClusterObj,
             v.spec.port \in Int32
      PROVE  V1Meaning(k, ClusterConvertFrom(ClusterDefault(
                              ClusterConvertTo(v, hub))))
                 = V1Meaning(k, v)
  <2> DEFINE n == ClusterConvertTo(v, hub)
             d == ClusterDefault(n)
             r == ClusterConvertFrom(d)
  <2>1. n \in ClusterObj /\ n.spec = ClusterSpecToV2(v.spec) /\ n.prefix = v.prefix
    BY ClusterWrites
  <2>a. v.spec.port \in Int /\ Wrap(v.spec.port) = v.spec.port
    BY <1>7, Narrowing
  <2>2. /\ n.spec.host = v.spec.host /\ n.spec.port = v.spec.port
        /\ n.spec.cloud = v.spec.cloud
        /\ n.spec.fds = FailureDomainsToV2(v.spec.fds)
    BY <2>1, <2>a DEF ClusterSpecToV2
  <2> HIDE DEF n
  <2>3. /\ d \in ClusterObj /\ d.spec.host = n.spec.host
        /\ d.spec.port = Port(n.spec.port)
        /\ d.spec.cloud = Deref(n.spec.cloud, FALSE)
        /\ d.spec.fds = n.spec.fds /\ d.prefix = n.prefix
    BY <1>6, <2>1
  <2> HIDE DEF d
  <2>4. r.spec = ClusterSpecToV1(d.spec) /\ r.prefix = d.prefix
    BY <2>3, ClusterReads
  <2>5. /\ r.spec.host = d.spec.host /\ r.spec.port = d.spec.port
        /\ r.spec.cloud = d.spec.cloud
        /\ r.spec.fds = FailureDomainsToV1(d.spec.fds)
    BY <2>4 DEF ClusterSpecToV1
  <2> HIDE DEF r
  <2>6. v.spec.port \in Int /\ v.spec.fds \in Ptr(MapOf(BOOLEAN))
    BY <1>7 DEF ClusterObjV1, ClusterSpecV1T
  <2>7. r.spec.fds = v.spec.fds
    BY <2>2, <2>3, <2>5, <2>6, DomainsThere
  <2>8. Port(r.spec.port) = Port(v.spec.port)
    BY <1>4, <2>2, <2>3, <2>5, <2>6
  <2>9. Deref(r.spec.cloud, FALSE) = Deref(v.spec.cloud, FALSE)
    BY <1>5, <2>2, <2>3, <2>5, Zenon
  <2>10. r.spec.host = v.spec.host /\ r.prefix = v.prefix
    BY <2>1, <2>2, <2>3, <2>4, <2>5, Zenon
  <2> HIDE DEF Port, k
  <2>11. V1Meaning(k, r) = V1Meaning(k, v)
    BY <1>2, <2>7, <2>8, <2>9, <2>10, Zenon
  <2>12. QED
    BY <2>11 DEF r, d, n
<1>8. ASSUME NEW o \in ClusterObj, ClusterDefault(o) = o
      PROVE  SpecMeaning(k, ClusterDefault(ClusterConvertTo(
                                ClusterConvertFrom(o), o))) = SpecMeaning(k, o)
  <2> DEFINE v == ClusterConvertFrom(o)
             n == ClusterConvertTo(v, o)
             d == ClusterDefault(n)
  <2>1. v \in ClusterObjV1 /\ v.spec = ClusterSpecToV1(o.spec)
    BY <1>8, ClusterReads
  <2>2. /\ v.spec.host = o.spec.host /\ v.spec.port = o.spec.port
        /\ v.spec.cloud = o.spec.cloud
        /\ v.spec.fds = FailureDomainsToV1(o.spec.fds)
    BY <2>1 DEF ClusterSpecToV1
  <2> HIDE DEF v
  <2>3. n \in ClusterObj /\ n.spec = ClusterSpecToV2(v.spec)
    BY <1>8, <2>1, ClusterWrites
  <2>a. Wrap(o.spec.port) = o.spec.port
    BY <1>8, Narrowing DEF ClusterObj, ClusterSpecT
  <2>4. /\ n.spec.host = v.spec.host /\ n.spec.port = v.spec.port
        /\ n.spec.cloud = v.spec.cloud
        /\ n.spec.fds = FailureDomainsToV2(v.spec.fds)
    BY <2>2, <2>3, <2>a DEF ClusterSpecToV2
  <2> HIDE DEF n
  <2>5. /\ d \in ClusterObj /\ d.spec.host = n.spec.host
        /\ d.spec.port = Port(n.spec.port)
        /\ d.spec.cloud = Deref(n.spec.cloud, FALSE)
        /\ d.spec.fds = n.spec.fds
    BY <1>6, <2>3
  <2> HIDE DEF d
  <2>6. o.spec.port = Port(o.spec.port) /\ o.spec.cloud = Deref(o.spec.cloud, FALSE)
    BY <1>6, <1>8, Zenon
  <2>7. o.spec.fds \in NamedListOf(FailureDomainT)
    BY <1>8 DEF ClusterObj, ClusterSpecT
  <2>8. DomainsMeaning(d.spec.fds) = DomainsMeaning(o.spec.fds)
    BY <2>2, <2>4, <2>5, <2>7, DomainsBack
  <2> HIDE DEF Port, k
  <2>9. /\ d.spec.host = o.spec.host /\ d.spec.port = o.spec.port
        /\ d.spec.cloud = o.spec.cloud
    BY <2>2, <2>4, <2>5, <2>6, Zenon
  <2>10. SpecMeaning(k, d) = SpecMeaning(k, o)
    BY <1>3, <1>8, <2>5, <2>8, <2>9, Zenon
  <2>11. QED
    BY <2>10 DEF d, n, v
<1> HIDE DEF Port, k
<1>9. Lawful(k)
  <2>1. \A v \in ClusterObjV1, hub \in ClusterObj \cup {Nil} :
          ClusterConvertTo(v, hub) \in ClusterObj
    BY ClusterWrites
  <2>2. \A o \in ClusterObj : ClusterConvertFrom(o) \in ClusterObjV1
    BY ClusterReads
  <2>3. \A o \in ClusterObj : /\ ClusterDefault(o) \in ClusterObj
                              /\ ClusterDefault(ClusterDefault(o)) = ClusterDefault(o)
    BY <1>6
  <2>4. QED
    <3>1. \A o \in Object(k) : /\ ConvertFrom(k, o) \in ObjectV1(k)
                               /\ Default(k, o) \in Object(k)
                               /\ Default(k, Default(k, o)) = Default(k, o)
      BY <1>1, <2>2, <2>3
    <3>2. \A v \in ObjectV1(k), hub \in Object(k) \cup {Nil} :
            ConvertTo(k, v, hub) \in Object(k)
      BY <1>1, <2>1
    <3>3. ASSUME NEW v \in ObjectV1(k), NEW hub \in Object(k), FitsInt32(k, v)
          PROVE  V1Meaning(k, ConvertFrom(k, Default(k, ConvertTo(k, v, hub))))
                     = V1Meaning(k, WithoutLostChecksum(k, v, hub))
      <4>1. ConvertFrom(k, Default(k, ConvertTo(k, v, hub)))
              = ClusterConvertFrom(ClusterDefault(ClusterConvertTo(v, hub)))
        BY <1>1
      <4>2. QED
        BY <1>1, <1>2, <1>7, <3>3, <4>1
    <3>4. ASSUME NEW o \in Object(k), Default(k, o) = o
          PROVE  SpecMeaning(k, Default(k, ConvertTo(k, ConvertFrom(k, o), o)))
                     = SpecMeaning(k, o)
      <4>1. Default(k, ConvertTo(k, ConvertFrom(k, o), o))
              = ClusterDefault(ClusterConvertTo(ClusterConvertFrom(o), o))
        BY <1>1
      <4>2. QED
        BY <1>1, <1>8, <3>4, <4>1
    <3>5. QED
      BY <3>1, <3>2, <3>3, <3>4 DEF Lawful
<1>10. ASSUME NEW o \in ClusterObj, NEW s \in ClusterStatusT
       PROVE  LET n == [o EXCEPT !.status = s] IN
              /\ n \in ClusterObj
              /\ ClusterValidate(o) => ClusterValidate(n)
              /\ ClusterDefault(o) = o => ClusterDefault(n) = n
  <2> DEFINE n == [o EXCEPT !.status = s]
             S(c) == [host |-> c.host,
                      port |-> IF c.port = 0 THEN DefaultPort ELSE c.port,
                      cloud |-> Deref(c.cloud, FALSE), fds |-> c.fds]
  <2>1. /\ n \in ClusterObj /\ n.spec = o.spec /\ n.prefix = o.prefix
        /\ n = [spec |-> o.spec, status |-> n.status, prefix |-> o.prefix]
    BY DEF ClusterObj
  <2> HIDE DEF n
  <2>2. ClusterValidate(o) => ClusterValidate(n)
    BY <2>1 DEF ClusterValidate
  <2>3. /\ ClusterDefault(n) = [spec |-> S(n.spec), status |-> n.status,
                                prefix |-> n.prefix]
        /\ ClusterDefault(o) = [spec |-> S(o.spec), status |-> o.status,
                                prefix |-> o.prefix]
    BY <2>1, ClusterDefaults
  <2> HIDE DEF S
  <2>4. ClusterDefault(o) = o => S(o.spec) = o.spec
    BY <2>3
  <2>5. ClusterDefault(o) = o => ClusterDefault(n) = n
    <3>1. ASSUME S(o.spec) = o.spec PROVE ClusterDefault(n) = n
      <4>1. ClusterDefault(n) = [spec |-> S(o.spec), status |-> n.status,
                                 prefix |-> o.prefix]
        BY <2>1, <2>3, Zenon
      <4>2. QED
        BY <2>1, <3>1, <4>1, Zenon
    <3>2. QED
      BY <2>4, <3>1
  <2>6. QED
    BY <2>1, <2>2, <2>5 DEF n
<1>11. ASSUME NEW v \in ClusterObjV1, NEW hub \in ClusterObj,
              NEW old \in ClusterObj,
              v.status = ClusterConvertFrom(old).status
       PROVE  StatusMeaning(k, ClusterDefault(ClusterConvertTo(v, hub)).status)
                  = StatusMeaning(k, old.status)
  <2> DEFINE n == ClusterConvertTo(v, hub)
             d == ClusterDefault(n)
  <2>1. ASSUME NEW s \in ClusterStatusT
        PROVE  StatusMeaning(k, s) =
                 [prov |-> Deref(s.prov, FALSE), cond |-> s.cond,
                  legacy |-> s.legacy, fds |-> DomainsMeaning(s.fds)]
    <3>1. StatusMeaning(k, s) = [s EXCEPT !.prov = Deref(@, FALSE),
                                          !.fds = DomainsMeaning(@)]
      BY DEF StatusMeaning, k
    <3> DEFINE p == Deref(s.prov, FALSE)
               u == [s EXCEPT !.prov = p]
    <3>2. s = [prov |-> s.prov, cond |-> s.cond, legacy |-> s.legacy,
               fds |-> s.fds]
      BY DEF ClusterStatusT
    <3>3. StatusMeaning(k, s) = [u EXCEPT !.fds = DomainsMeaning(@)]
      BY <3>1
    <3> HIDE DEF p
    <3>4. u = [prov |-> p, cond |-> s.cond, legacy |-> s.legacy, fds |-> s.fds]
      BY <3>2
    <3> HIDE DEF u
    <3>5. [u EXCEPT !.fds = DomainsMeaning(@)]
            = [prov |-> p, cond |-> s.cond, legacy |-> s.legacy,
               fds |-> DomainsMeaning(s.fds)]
      BY <3>4
    <3>6. QED
      BY <3>3, <3>5 DEF p
  <2>2. /\ n \in ClusterObj /\ Deref(n.status.prov, FALSE) = v.status.ready
        /\ n.status.cond = v.status.v2cond /\ n.status.legacy = v.status.cond
        /\ n.status.fds = FailureDomainsToV2(v.status.fds)
    BY ClusterWrites
  <2> HIDE DEF n
  <2>3. d.status = n.status
    BY <1>6, <2>2
  <2>4. v.status = ClusterStatusToV1(old.status)
    BY <1>11, ClusterReads
  <2>5. v.status = [ready |-> Deref(old.status.prov, FALSE),
                    v2cond |-> old.status.cond, cond |-> old.status.legacy,
                    fds |-> FailureDomainsToV1(old.status.fds)]
    BY <2>4 DEF ClusterStatusToV1
  <2>6. /\ v.status.v2cond = old.status.cond /\ v.status.cond = old.status.legacy
        /\ v.status.fds = FailureDomainsToV1(old.status.fds)
    BY <2>5
  <2>7. v.status.ready = Deref(old.status.prov, FALSE)
    <3> DEFINE p == Deref(old.status.prov, FALSE)
    <3> HIDE DEF p
    <3>1. v.status = [ready |-> p,
                      v2cond |-> old.status.cond, cond |-> old.status.legacy,
                      fds |-> FailureDomainsToV1(old.status.fds)]
      BY <2>5 DEF p
    <3>2. v.status.ready = p
      BY <3>1
    <3>3. QED
      BY <3>2 DEF p
  <2>8. /\ old.status \in ClusterStatusT /\ n.status \in ClusterStatusT
        /\ old.status.fds \in NamedListOf(FailureDomainT)
    BY <1>11, <2>2 DEF ClusterObj, ClusterStatusT
  <2>9. DomainsMeaning(n.status.fds) = DomainsMeaning(old.status.fds)
    BY <2>2, <2>6, <2>8, DomainsBack
  <2>10. /\ Deref(n.status.prov, FALSE) = Deref(old.status.prov, FALSE)
         /\ n.status.cond = old.status.cond /\ n.status.legacy = old.status.legacy
    BY <2>2, <2>6, <2>7, Zenon
  <2>11. StatusMeaning(k, n.status) = StatusMeaning(k, old.status)
    BY <2>1, <2>8, <2>9, <2>10, Zenon
  <2>12. QED
    BY <2>3, <2>11 DEF d, n
<1>12. StatusLawful(k)
  <2>1. \A o \in ClusterObj : /\ o.status \in ClusterStatusT
                              /\ ClusterConvertFrom(o).status \in ClusterStatusV1T
    BY ClusterReads DEF ClusterObj, ClusterObjV1
  <2>2. \A v \in ClusterObjV1, s \in ClusterStatusV1T :
          LET n == [v EXCEPT !.status = s] IN n \in ClusterObjV1 /\ n.status = s
    BY DEF ClusterObjV1
  <2>3. QED
    BY <1>1, <1>10, <1>11, <2>1, <2>2 DEF StatusLawful
<1>13. QED
  BY <1>9, <1>12

LEMMA ClusterTemplateLawful ==
    "Metal3ClusterTemplate" \in Kinds => Lawful("Metal3ClusterTemplate")
<1> DEFINE k == "Metal3ClusterTemplate"
           Obj == [meta : Strings, spec : ClusterSpecT]
           V1 == [spec : ClusterSpecV1T]
<1> SUFFICES ASSUME k \in Kinds PROVE Lawful(k)
  OBVIOUS
<1>1. /\ Object(k) = Obj /\ ObjectV1(k) = V1 /\ Nil \notin Object(k)
      /\ \A o : ConvertFrom(k, o) = ClusterTemplateConvertFrom(o)
                /\ Default(k, o) = o
      /\ \A o, hub : ConvertTo(k, o, hub) = ClusterTemplateConvertTo(o, hub)
  <2>1. Nil \notin Object(k)
    BY APIAssumption
  <2>2. QED
    BY <2>1 DEF Object, ObjectV1, ConvertFrom, ConvertTo, Default
<1>2. /\ \A o : V1Meaning(k, o) =
            [host |-> o.spec.host, port |-> o.spec.port, cloud |-> o.spec.cloud,
             fds |-> o.spec.fds]
      /\ \A o, hub : WithoutLostChecksum(k, o, hub) = o
      /\ \A o : FitsInt32(k, o) <=> o.spec.port \in Int32
  BY DEF V1Meaning, WithoutLostChecksum, FitsInt32
<1>3. ASSUME NEW o \in Obj
      PROVE  SpecMeaning(k, o) =
               [meta |-> o.meta,
                spec |-> [host |-> o.spec.host, port |-> o.spec.port,
                          cloud |-> o.spec.cloud,
                          fds |-> DomainsMeaning(o.spec.fds)]]
  <2>1. SpecMeaning(k, o) = [o EXCEPT !.spec.fds = DomainsMeaning(@)]
    BY DEF SpecMeaning
  <2>2. o.spec \in ClusterSpecT
    BY <1>3
  <2>3. [o.spec EXCEPT !.fds = DomainsMeaning(@)] =
          [host |-> o.spec.host, port |-> o.spec.port,
           cloud |-> o.spec.cloud, fds |-> DomainsMeaning(o.spec.fds)]
    BY <2>2 DEF ClusterSpecT
  <2> DEFINE s == [o.spec EXCEPT !.fds = DomainsMeaning(@)]
  <2>4. SpecMeaning(k, o) = [o EXCEPT !.spec = s]
    BY <2>1
  <2> HIDE DEF s, k
  <2>5. SpecMeaning(k, o) = [meta |-> o.meta, spec |-> s]
    BY <1>3, <2>4
  <2>6. QED
    BY <2>3, <2>5 DEF s
<1>4. ASSUME NEW o \in Obj
      PROVE  /\ ClusterTemplateConvertFrom(o) \in V1
             /\ ClusterTemplateConvertFrom(o).spec = ClusterSpecToV1(o.spec)
  BY ClusterSpecTypes DEF ClusterTemplateConvertFrom
<1>5. ASSUME NEW v \in V1, NEW hub \in Obj \cup {Nil}
      PROVE  /\ ClusterTemplateConvertTo(v, hub) \in Obj
             /\ ClusterTemplateConvertTo(v, hub).spec = ClusterSpecToV2(v.spec)
             /\ hub # Nil => ClusterTemplateConvertTo(v, hub).meta = hub.meta
  <2>1. (IF hub = Nil THEN "" ELSE hub.meta) \in Strings
    BY NilIsNoValue
  <2>2. ClusterSpecToV2(v.spec) \in ClusterSpecT
    BY ClusterSpecTypes
  <2>3. QED
    BY <2>1, <2>2 DEF ClusterTemplateConvertTo
<1>6. ASSUME NEW v \in V1, NEW hub \in Obj, v.spec.port \in Int32
      PROVE  V1Meaning(k, ClusterTemplateConvertFrom(
                              ClusterTemplateConvertTo(v, hub)))
                 = V1Meaning(k, v)
  <2> DEFINE n == ClusterTemplateConvertTo(v, hub)
             r == ClusterTemplateConvertFrom(n)
  <2>1. n \in Obj /\ n.spec = ClusterSpecToV2(v.spec)
    BY <1>5
  <2> HIDE DEF n
  <2>2. r.spec = ClusterSpecToV1(n.spec)
    BY <1>4, <2>1
  <2> HIDE DEF r
  <2>3. /\ r.spec.host = v.spec.host /\ r.spec.port = v.spec.port
        /\ r.spec.cloud = v.spec.cloud
        /\ r.spec.fds = FailureDomainsToV1(FailureDomainsToV2(v.spec.fds))
    BY <1>6, <2>1, <2>2, Narrowing DEF ClusterSpecToV1, ClusterSpecToV2
  <2>4. v.spec.fds \in Ptr(MapOf(BOOLEAN))
    BY <1>6 DEF ClusterSpecV1T
  <2>5. r.spec.fds = v.spec.fds
    BY <2>3, <2>4, DomainsThere
  <2> HIDE DEF k
  <2>6. QED
    BY <1>2, <2>3, <2>5, Zenon DEF r, n
<1>7. ASSUME NEW o \in Obj, o # Nil
      PROVE  SpecMeaning(k, ClusterTemplateConvertTo(
                                ClusterTemplateConvertFrom(o), o))
                 = SpecMeaning(k, o)
  <2> DEFINE v == ClusterTemplateConvertFrom(o)
             n == ClusterTemplateConvertTo(v, o)
  <2>1. v \in V1 /\ v.spec = ClusterSpecToV1(o.spec)
    BY <1>4
  <2> HIDE DEF v
  <2>2. n \in Obj /\ n.spec = ClusterSpecToV2(v.spec) /\ n.meta = o.meta
    BY <1>5, <1>7, <2>1
  <2> HIDE DEF n
  <2>a. Wrap(o.spec.port) = o.spec.port
    BY <1>7, Narrowing DEF ClusterSpecT
  <2>3. /\ n.spec.host = o.spec.host /\ n.spec.port = o.spec.port
        /\ n.spec.cloud = o.spec.cloud
        /\ n.spec.fds = FailureDomainsToV2(FailureDomainsToV1(o.spec.fds))
    BY <2>1, <2>2, <2>a DEF ClusterSpecToV1, ClusterSpecToV2
  <2>4. o.spec.fds \in NamedListOf(FailureDomainT)
    BY <1>7 DEF ClusterSpecT
  <2>5. DomainsMeaning(n.spec.fds) = DomainsMeaning(o.spec.fds)
    BY <2>3, <2>4, DomainsBack
  <2> HIDE DEF k, Obj
  <2>6. SpecMeaning(k, n) = SpecMeaning(k, o)
    BY <1>3, <1>7, <2>2, <2>3, <2>5, Zenon
  <2>7. QED
    BY <2>6 DEF n, v
<1> HIDE DEF k, Obj, V1
<1>8. QED
  <2>1. \A o \in Object(k) : /\ ConvertFrom(k, o) \in ObjectV1(k)
                             /\ Default(k, o) \in Object(k)
                             /\ Default(k, Default(k, o)) = Default(k, o)
    BY <1>1, <1>4
  <2>2. \A v \in ObjectV1(k), hub \in Object(k) \cup {Nil} :
          ConvertTo(k, v, hub) \in Object(k)
    BY <1>1, <1>5
  <2>3. ASSUME NEW v \in ObjectV1(k), NEW hub \in Object(k), FitsInt32(k, v)
        PROVE  V1Meaning(k, ConvertFrom(k, Default(k, ConvertTo(k, v, hub))))
                   = V1Meaning(k, WithoutLostChecksum(k, v, hub))
    <3>1. v \in V1 /\ hub \in Obj /\ v.spec.port \in Int32
      BY <1>1, <1>2, <2>3
    <3>2. ConvertFrom(k, Default(k, ConvertTo(k, v, hub)))
            = ClusterTemplateConvertFrom(ClusterTemplateConvertTo(v, hub))
      BY <1>1
    <3>3. WithoutLostChecksum(k, v, hub) = v
      BY <1>2
    <3>4. QED
      BY <1>6, <3>1, <3>2, <3>3
  <2>4. ASSUME NEW o \in Object(k), Default(k, o) = o
        PROVE  SpecMeaning(k, Default(k, ConvertTo(k, ConvertFrom(k, o), o)))
                   = SpecMeaning(k, o)
    BY <1>1, <1>7, <2>4
  <2>5. QED
    BY <2>1, <2>2, <2>3, <2>4 DEF Lawful

----------------------------------------------------------------------------
(* Metal3DataTemplate. *)

LEMMA AnnTypes ==
    /\ NoAnn \in AnnT
    /\ \A a \in Ptr(AnnT) : AnnToV2(a) \in AnnT
    /\ \A a \in AnnT : AnnToV1(a) \in Ptr(AnnT)
  BY NilIsNoValue DEF AnnT, NoAnn, AnnToV1, AnnToV2, Deref, PtrUnless, Ptr

LEMMA PointerTypes ==
    /\ \A p \in Ptr(Strings) : Deref(p, "") \in Strings
    /\ \A s \in Strings : PtrUnless(s, "") \in Ptr(Strings) /\ s \in Ptr(Strings)
    /\ \A p \in Ptr(Int32) : Deref(p, 0) \in Int
    /\ \A i \in Int : IntToPointer(i) \in Ptr(Int32)
    /\ \A p \in Ptr(BOOLEAN) : Deref(p, FALSE) \in BOOLEAN
    /\ \A b \in BOOLEAN : b \in Ptr(BOOLEAN)
<1>1. "" \in Strings
  BY NilIsNoValue
<1>2. \A p \in Ptr(BOOLEAN) : Deref(p, FALSE) \in BOOLEAN
  BY DEF Deref, Ptr
<1>3. \A b \in BOOLEAN : b \in Ptr(BOOLEAN)
  BY DEF Ptr
<1>4. /\ \A p \in Ptr(Strings) : Deref(p, "") \in Strings
      /\ \A s \in Strings : PtrUnless(s, "") \in Ptr(Strings) /\ s \in Ptr(Strings)
  BY <1>1 DEF Deref, PtrUnless, Ptr
<1>5. /\ \A p \in Ptr(Int32) : Deref(p, 0) \in Int
      /\ \A i \in Int : IntToPointer(i) \in Ptr(Int32)
  BY Narrowing DEF Deref, IntToPointer, Ptr
<1>6. QED
  BY <1>2, <1>3, <1>4, <1>5

LEMMA PoolRefTypes ==
    /\ \A r \in Ptr(PoolRefV1T) : PoolRefToV2(r) \in PoolRefT
    /\ \A r \in PoolRefT : PoolRefToV1(r) \in Ptr(PoolRefV1T)
<1>1. NoPool \in PoolRefT
  BY NilIsNoValue DEF NoPool, PoolRefT
<1>2. ASSUME NEW r \in PoolRefV1T PROVE [r EXCEPT !.kind = Deref(@, "")] \in PoolRefT
  BY PointerTypes DEF PoolRefV1T, PoolRefT
<1>3. ASSUME NEW r \in PoolRefT PROVE [r EXCEPT !.kind = PtrUnless(@, "")] \in PoolRefV1T
  BY PointerTypes DEF PoolRefV1T, PoolRefT
<1>4. QED
  BY <1>1, <1>2, <1>3 DEF PoolRefToV1, PoolRefToV2, Ptr

LEMMA ServiceTypes ==
    /\ \A s \in ServiceV1T : ServiceToV2(s) \in ServiceT
    /\ \A s \in ServiceT : ServiceToV1(s) \in ServiceV1T
    /\ NoServiceV1 \in ServiceV1T
<1>1. Nil \in ListOf(Strings) /\ Nil \in Ptr(Strings)
  BY DEF ListOf, Ptr
<1>2. QED
  BY <1>1, PointerTypes DEF ServiceT, ServiceV1T, ServiceToV1, ServiceToV2,
                            NoServiceV1

\* A service of a value type, in the one version, is a pointer in the other.
LEMMA ServicePtrTypes ==
    /\ \A s \in ServiceV1T :
          (IF s = NoServiceV1 THEN Nil ELSE ServiceToV2(s)) \in Ptr(ServiceT)
    /\ \A s \in Ptr(ServiceT) :
          (IF s = Nil THEN NoServiceV1 ELSE ServiceToV1(s)) \in ServiceV1T
  BY ServiceTypes DEF Ptr

LEMMA GatewayTypes ==
    /\ \A g \in GatewayV1T : GatewayToV2(g) \in GatewayT
    /\ \A g \in GatewayT : GatewayToV1(g) \in GatewayV1T
<1>1. ASSUME NEW g \in GatewayV1T PROVE GatewayToV2(g) \in GatewayT
  <2>1. /\ g.str \in Ptr(Strings) /\ g.name \in Ptr(Strings)
        /\ g.ref \in Ptr(PoolRefV1T) /\ g.ann \in Ptr(AnnT)
    BY DEF GatewayV1T
  <2>2. QED
    BY <2>1, PointerTypes, PoolRefTypes, AnnTypes DEF GatewayToV2, GatewayT
<1>2. ASSUME NEW g \in GatewayT PROVE GatewayToV1(g) \in GatewayV1T
  <2>1. /\ g.str \in Ptr(Strings) /\ g.name \in Strings
        /\ g.ref \in PoolRefT /\ g.ann \in AnnT
    BY DEF GatewayT
  <2>2. QED
    BY <2>1, PointerTypes, PoolRefTypes, AnnTypes DEF GatewayToV1, GatewayV1T
<1>3. QED
  BY <1>1, <1>2

LEMMA RouteTypes ==
    /\ \A r \in RouteV1T : RouteToV2(r) \in RouteT
    /\ \A r \in RouteT : RouteToV1(r) \in RouteV1T
<1>1. ASSUME NEW r \in RouteV1T PROVE RouteToV2(r) \in RouteT
  <2>1. r.prefix \in Int /\ r.gw \in GatewayV1T /\ r.services \in ServiceV1T
    BY DEF RouteV1T
  <2>2. /\ IntToPointer(r.prefix) \in Ptr(Int32) /\ GatewayToV2(r.gw) \in GatewayT
        /\ (IF r.services = NoServiceV1 THEN Nil ELSE ServiceToV2(r.services))
               \in Ptr(ServiceT)
    BY <2>1, PointerTypes, GatewayTypes, ServicePtrTypes
  <2>3. QED
    BY <2>2 DEF RouteToV2, RouteT
<1>2. ASSUME NEW r \in RouteT PROVE RouteToV1(r) \in RouteV1T
  <2>1. r.prefix \in Ptr(Int32) /\ r.gw \in GatewayT /\ r.services \in Ptr(ServiceT)
    BY DEF RouteT
  <2>2. /\ Deref(r.prefix, 0) \in Int /\ GatewayToV1(r.gw) \in GatewayV1T
        /\ (IF r.services = Nil THEN NoServiceV1 ELSE ServiceToV1(r.services))
               \in ServiceV1T
    BY <2>1, PointerTypes, GatewayTypes, ServicePtrTypes
  <2>3. QED
    BY <2>2 DEF RouteToV1, RouteV1T
<1>3. QED
  BY <1>1, <1>2

\* A list that is converted entry by entry.
LEMMA ListConverted ==
    ASSUME NEW S, NEW T, NEW s \in ListOf(S), NEW t,
           s = Nil => t = Nil,
           s # Nil => /\ t = [i \in DOMAIN s |-> t[i]]
                      /\ \A i \in DOMAIN s : s[i] \in S => t[i] \in T
    PROVE  t \in ListOf(T)
<1>1. CASE s = Nil
  BY <1>1 DEF ListOf, Ptr
<1>2. CASE s # Nil
  <2>1. s \in Seq(S)
    BY <1>2 DEF ListOf, Ptr
  <2>2. t \in [DOMAIN s -> T]
    BY <1>2, <2>1, DomainOfList
  <2>3. t \in Seq(T)
    BY <2>1, <2>2, ListMapped
  <2>4. QED
    BY <1>2, <2>3 DEF ListOf, Ptr
<1>3. QED
  BY <1>1, <1>2

LEMMA RouteListTypes ==
    /\ \A s \in ListOf(RouteV1T) : MapSeq(s, RouteToV2) \in ListOf(RouteT)
    /\ \A s \in ListOf(RouteT) : MapSeq(s, RouteToV1) \in ListOf(RouteV1T)
<1>1. ASSUME NEW s \in ListOf(RouteV1T)
      PROVE  MapSeq(s, RouteToV2) \in ListOf(RouteT)
  <2> DEFINE t == MapSeq(s, RouteToV2)
  <2>1. s = Nil => t = Nil
    BY DEF MapSeq
  <2>2. s # Nil => t = [i \in DOMAIN s |-> RouteToV2(s[i])]
    BY DEF MapSeq
  <2> HIDE DEF t
  <2>3. s # Nil => /\ t = [i \in DOMAIN s |-> t[i]]
                   /\ \A i \in DOMAIN s : s[i] \in RouteV1T => t[i] \in RouteT
    BY <2>2, RouteTypes
  <2>4. t \in ListOf(RouteT)
    BY <2>1, <2>3, ListConverted
  <2>5. QED
    BY <2>4 DEF t
<1>2. ASSUME NEW s \in ListOf(RouteT)
      PROVE  MapSeq(s, RouteToV1) \in ListOf(RouteV1T)
  <2> DEFINE t == MapSeq(s, RouteToV1)
  <2>1. s = Nil => t = Nil
    BY DEF MapSeq
  <2>2. s # Nil => t = [i \in DOMAIN s |-> RouteToV1(s[i])]
    BY DEF MapSeq
  <2> HIDE DEF t
  <2>3. s # Nil => /\ t = [i \in DOMAIN s |-> t[i]]
                   /\ \A i \in DOMAIN s : s[i] \in RouteT => t[i] \in RouteV1T
    BY <2>2, RouteTypes
  <2>4. t \in ListOf(RouteV1T)
    BY <2>1, <2>3, ListConverted
  <2>5. QED
    BY <2>4 DEF t
<1>3. QED
  BY <1>1, <1>2

LEMMA NetworkFieldTypes ==
    /\ \A n \in NetworkV1T : NetworkToV2(n) \in NetworkT
    /\ \A n \in NetworkT : NetworkToV1(n) \in NetworkV1T
<1>1. ASSUME NEW n \in NetworkV1T PROVE NetworkToV2(n) \in NetworkT
  <2>1. /\ n.type \in NetworkTypeT /\ n.name \in Strings
        /\ n.ref \in Ptr(PoolRefV1T) /\ n.ann \in Ptr(AnnT)
        /\ n.routes \in ListOf(RouteV1T)
    BY DEF NetworkV1T
  <2> DEFINE a == PoolRefToV2(n.ref)
             b == AnnToV2(n.ann)
             c == MapSeq(n.routes, RouteToV2)
  <2>3. a \in PoolRefT /\ b \in AnnT /\ c \in ListOf(RouteT)
    BY <2>1, PoolRefTypes, AnnTypes, RouteListTypes
  <2>4. NetworkToV2(n) = [n EXCEPT !.ref = a, !.ann = b, !.routes = c]
    BY Zenon DEF NetworkToV2
  <2> HIDE DEF a, b, c
  <2>5. QED
    BY <2>1, <2>3, <2>4 DEF NetworkT, NetworkV1T
<1>2. ASSUME NEW n \in NetworkT PROVE NetworkToV1(n) \in NetworkV1T
  <2>1. /\ n.type \in NetworkTypeT /\ n.name \in Strings
        /\ n.ref \in PoolRefT /\ n.ann \in AnnT
        /\ n.routes \in ListOf(RouteT)
    BY DEF NetworkT
  <2> DEFINE a == PoolRefToV1(n.ref)
             b == AnnToV1(n.ann)
             c == MapSeq(n.routes, RouteToV1)
  <2>3. a \in Ptr(PoolRefV1T) /\ b \in Ptr(AnnT) /\ c \in ListOf(RouteV1T)
    BY <2>1, PoolRefTypes, AnnTypes, RouteListTypes
  <2>4. NetworkToV1(n) = [n EXCEPT !.ref = a, !.ann = b, !.routes = c]
    BY Zenon DEF NetworkToV1
  <2> HIDE DEF a, b, c
  <2>5. QED
    BY <2>1, <2>3, <2>4 DEF NetworkT, NetworkV1T
<1>3. QED
  BY <1>1, <1>2

LEMMA NetworkListTypes ==
    /\ \A s \in ListOf(NetworkV1T) : MapSeq(s, NetworkToV2) \in ListOf(NetworkT)
    /\ \A s \in ListOf(NetworkT) : MapSeq(s, NetworkToV1) \in ListOf(NetworkV1T)
<1>1. ASSUME NEW s \in ListOf(NetworkV1T)
      PROVE  MapSeq(s, NetworkToV2) \in ListOf(NetworkT)
  <2> DEFINE t == MapSeq(s, NetworkToV2)
  <2>1. s = Nil => t = Nil
    BY DEF MapSeq
  <2>2. s # Nil => t = [i \in DOMAIN s |-> NetworkToV2(s[i])]
    BY DEF MapSeq
  <2> HIDE DEF t
  <2>3. s # Nil => /\ t = [i \in DOMAIN s |-> t[i]]
                   /\ \A i \in DOMAIN s : s[i] \in NetworkV1T => t[i] \in NetworkT
    BY <2>2, NetworkFieldTypes
  <2>4. t \in ListOf(NetworkT)
    BY <2>1, <2>3, ListConverted
  <2>5. QED
    BY <2>4 DEF t
<1>2. ASSUME NEW s \in ListOf(NetworkT)
      PROVE  MapSeq(s, NetworkToV1) \in ListOf(NetworkV1T)
  <2> DEFINE t == MapSeq(s, NetworkToV1)
  <2>1. s = Nil => t = Nil
    BY DEF MapSeq
  <2>2. s # Nil => t = [i \in DOMAIN s |-> NetworkToV1(s[i])]
    BY DEF MapSeq
  <2> HIDE DEF t
  <2>3. s # Nil => /\ t = [i \in DOMAIN s |-> t[i]]
                   /\ \A i \in DOMAIN s : s[i] \in NetworkT => t[i] \in NetworkV1T
    BY <2>2, NetworkFieldTypes
  <2>4. t \in ListOf(NetworkV1T)
    BY <2>1, <2>3, ListConverted
  <2>5. QED
    BY <2>4 DEF t
<1>3. QED
  BY <1>1, <1>2

LEMMA MacTypes ==
    /\ \A m \in Ptr(MacV1T) : MacToV2(m) \in Ptr(MacT)
    /\ \A m \in Ptr(MacT) : MacToV1(m) \in Ptr(MacV1T)
<1>1. ASSUME NEW m \in MacV1T PROVE MacToV2(m) \in Ptr(MacT)
  <2>1. m.str \in Ptr(Strings) /\ m.nic \in Ptr(Strings) /\ m.ann \in Ptr(AnnT)
    BY DEF MacV1T
  <2>2. [str |-> Deref(m.str, ""), nic |-> Deref(m.nic, ""), ann |-> AnnToV2(m.ann)]
          \in MacT
    BY <2>1, PointerTypes, AnnTypes DEF MacT
  <2>3. QED
    BY <2>2 DEF MacToV2, Ptr
<1>2. ASSUME NEW m \in MacT PROVE MacToV1(m) \in Ptr(MacV1T)
  <2>1. m.str \in Strings /\ m.nic \in Strings /\ m.ann \in AnnT
    BY DEF MacT
  <2>2. [str |-> m.str, nic |-> m.nic, ann |-> AnnToV1(m.ann)] \in MacV1T
    BY <2>1, PointerTypes, AnnTypes DEF MacV1T
  <2>3. QED
    BY <2>2 DEF MacToV1, Ptr
<1>3. MacToV2(Nil) = Nil /\ MacToV1(Nil) = Nil
  BY DEF MacToV2, MacToV1
<1>4. QED
  BY <1>1, <1>2, <1>3 DEF Ptr

LEMMA LinkTypes ==
    /\ \A k \in LinkV1T : LinkToV2(k) \in LinkT
    /\ \A k \in LinkT : LinkToV1(k) \in LinkV1T
<1>1. ASSUME NEW k \in LinkV1T PROVE LinkToV2(k) \in LinkT
  <2>1. /\ k.type \in {"bond", "ethernet", "vlan"} /\ k.mac \in Ptr(MacV1T)
        /\ k.vlan \in Ptr(Int) /\ k.params \in Ptr(MapOf(Strings))
    BY DEF LinkV1T
  <2> DEFINE a == MacToV2(k.mac)
             b == BondParamsToV2(k.params)
             v == IF k.vlan = Nil THEN Nil ELSE Wrap(k.vlan)
  <2>2. v \in Ptr(Int32)
    BY <2>1, Narrowing DEF Ptr
  <2>3. a \in Ptr(MacT) /\ b \in ListOf(BondParamT)
    BY <2>1, MacTypes, BondParamTypes
  <2>4. LinkToV2(k) = [k EXCEPT !.mac = a, !.vlan = v, !.params = b]
    BY Zenon DEF LinkToV2
  <2> HIDE DEF a, b, v
  <2>5. QED
    BY <2>1, <2>2, <2>3, <2>4 DEF LinkT, LinkV1T
<1>2. ASSUME NEW k \in LinkT PROVE LinkToV1(k) \in LinkV1T
  <2>1. /\ k.type \in {"bond", "ethernet", "vlan"} /\ k.mac \in Ptr(MacT)
        /\ k.vlan \in Ptr(Int32) /\ k.params \in ListOf(BondParamT)
    BY DEF LinkT
  <2> DEFINE a == MacToV1(k.mac)
             b == BondParamsToV1(k.params)
             v == IF k.type = "vlan" THEN Deref(k.vlan, 0) ELSE k.vlan
  <2>3. a \in Ptr(MacV1T) /\ b \in Ptr(MapOf(Strings))
    BY <2>1, MacTypes, BondParamTypes
  <2>4. v \in Ptr(Int)
    BY <2>1, Narrowing DEF Deref, Ptr
  <2>5. LinkToV1(k) = [k EXCEPT !.mac = a, !.vlan = v, !.params = b]
    BY Zenon DEF LinkToV1
  <2> HIDE DEF a, b, v
  <2>6. QED
    BY <2>1, <2>3, <2>4, <2>5 DEF LinkT, LinkV1T
<1>3. QED
  BY <1>1, <1>2

LEMMA LinkListTypes ==
    /\ \A s \in ListOf(LinkV1T) : MapSeq(s, LinkToV2) \in ListOf(LinkT)
    /\ \A s \in ListOf(LinkT) : MapSeq(s, LinkToV1) \in ListOf(LinkV1T)
<1>1. ASSUME NEW s \in ListOf(LinkV1T)
      PROVE  MapSeq(s, LinkToV2) \in ListOf(LinkT)
  <2> DEFINE t == MapSeq(s, LinkToV2)
  <2>1. s = Nil => t = Nil
    BY DEF MapSeq
  <2>2. s # Nil => t = [i \in DOMAIN s |-> LinkToV2(s[i])]
    BY DEF MapSeq
  <2> HIDE DEF t
  <2>3. s # Nil => /\ t = [i \in DOMAIN s |-> t[i]]
                   /\ \A i \in DOMAIN s : s[i] \in LinkV1T => t[i] \in LinkT
    BY <2>2, LinkTypes
  <2>4. t \in ListOf(LinkT)
    BY <2>1, <2>3, ListConverted
  <2>5. QED
    BY <2>4 DEF t
<1>2. ASSUME NEW s \in ListOf(LinkT)
      PROVE  MapSeq(s, LinkToV1) \in ListOf(LinkV1T)
  <2> DEFINE t == MapSeq(s, LinkToV1)
  <2>1. s = Nil => t = Nil
    BY DEF MapSeq
  <2>2. s # Nil => t = [i \in DOMAIN s |-> LinkToV1(s[i])]
    BY DEF MapSeq
  <2> HIDE DEF t
  <2>3. s # Nil => /\ t = [i \in DOMAIN s |-> t[i]]
                   /\ \A i \in DOMAIN s : s[i] \in LinkT => t[i] \in LinkV1T
    BY <2>2, LinkTypes
  <2>4. t \in ListOf(LinkV1T)
    BY <2>1, <2>3, ListConverted
  <2>5. QED
    BY <2>4 DEF t
<1>3. QED
  BY <1>1, <1>2

ItemT == IndexItemT \cup NicItemT \cup CopiedItemT
ItemV1T == IndexItemV1T \cup NicItemV1T \cup CopiedItemT

LEMMA ItemKinds ==
    /\ \A x \in IndexItemT \cup IndexItemV1T : x.what = "index"
    /\ \A x \in NicItemT \cup NicItemV1T : x.what = "nic"
    /\ \A x \in CopiedItemT : x.what # "index" /\ x.what # "nic"
<1>1. \A x \in IndexItemT \cup IndexItemV1T : x.what = "index"
  BY DEF IndexItemT, IndexItemV1T
<1>2. \A x \in NicItemT \cup NicItemV1T : x.what = "nic"
  BY DEF NicItemT, NicItemV1T
<1>3. /\ \A x \in LabelItemT : x.what = "label"
      /\ \A x \in AnnotationItemT : x.what = "annotation"
      /\ \A x \in StringItemT : x.what = "string"
      /\ \A x \in NamespaceItemT : x.what = "namespace"
      /\ \A x \in NameItemT : x.what = "name"
      /\ \A x \in PoolItemT : x.what \in {"address", "prefix", "gateway", "dns"}
  BY DEF LabelItemT, AnnotationItemT, StringItemT, NamespaceItemT, NameItemT,
         PoolItemT
<1>4. \A x \in CopiedItemT : x.what # "index" /\ x.what # "nic"
  BY <1>3 DEF CopiedItemT
<1>5. QED
  BY <1>1, <1>2, <1>4

LEMMA ItemTypes ==
    /\ \A x \in ItemV1T : ItemToV2(x) \in ItemT
    /\ \A x \in ItemT : ItemToV1(x) \in ItemV1T
<1>1. ASSUME NEW x \in IndexItemV1T PROVE ItemToV2(x) \in ItemT
  <2>1. IntToPointer(x.offset) \in Ptr(Int32) /\ Wrap(x.step) \in Int32
    <3>1. x.offset \in Int /\ x.step \in Int
      BY DEF IndexItemV1T
    <3>2. QED
      BY <3>1, PointerTypes, Narrowing, Zenon
  <2>2. IndexToV2(x) \in IndexItemT
    BY <2>1 DEF IndexToV2, IndexItemT, IndexItemV1T
  <2>3. QED
    BY <2>2, ItemKinds DEF ItemToV2, ItemT
<1>2. ASSUME NEW x \in IndexItemT PROVE ItemToV1(x) \in ItemV1T
  <2>1. Deref(x.offset, 0) \in Int /\ x.step \in Int
    <3>1. x.offset \in Ptr(Int32) /\ x.step \in Int32
      BY DEF IndexItemT
    <3>2. QED
      BY <3>1, PointerTypes, Narrowing, Zenon
  <2>2. IndexToV1(x) \in IndexItemV1T
    BY <2>1 DEF IndexToV1, IndexItemT, IndexItemV1T
  <2>3. QED
    BY <2>2, ItemKinds DEF ItemToV1, ItemV1T
<1>3. ASSUME NEW x \in NicItemV1T PROVE ItemToV2(x) \in ItemT
  <2>1. x \in NicItemT
    BY DEF NicItemT, NicItemV1T, Ptr
  <2>2. ItemToV2(x) = x
    BY ItemKinds DEF ItemToV2, HostInterfaceToV2
  <2>3. QED
    BY <2>1, <2>2 DEF ItemT
<1>4. ASSUME NEW x \in NicItemT PROVE ItemToV1(x) \in ItemV1T
  <2>1. Deref(x.boot, FALSE) \in BOOLEAN
    BY PointerTypes DEF NicItemT
  <2>2. HostInterfaceToV1(x) \in NicItemV1T
    BY <2>1 DEF HostInterfaceToV1, NicItemT, NicItemV1T
  <2>3. ItemToV1(x) = HostInterfaceToV1(x)
    BY ItemKinds DEF ItemToV1
  <2>4. QED
    BY <2>2, <2>3 DEF ItemV1T
<1>5. ASSUME NEW x \in CopiedItemT PROVE ItemToV1(x) = x /\ ItemToV2(x) = x
  BY ItemKinds DEF ItemToV1, ItemToV2
<1>6. QED
  BY <1>1, <1>2, <1>3, <1>4, <1>5 DEF ItemT, ItemV1T

LEMMA ItemListTypes ==
    /\ \A s \in ListOf(ItemV1T) : MapSeq(s, ItemToV2) \in ListOf(ItemT)
    /\ \A s \in ListOf(ItemT) : MapSeq(s, ItemToV1) \in ListOf(ItemV1T)
<1>1. ASSUME NEW s \in ListOf(ItemV1T)
      PROVE  MapSeq(s, ItemToV2) \in ListOf(ItemT)
  <2> DEFINE t == MapSeq(s, ItemToV2)
  <2>1. s = Nil => t = Nil
    BY DEF MapSeq
  <2>2. s # Nil => t = [i \in DOMAIN s |-> ItemToV2(s[i])]
    BY DEF MapSeq
  <2> HIDE DEF t
  <2>3. s # Nil => /\ t = [i \in DOMAIN s |-> t[i]]
                   /\ \A i \in DOMAIN s : s[i] \in ItemV1T => t[i] \in ItemT
    BY <2>2, ItemTypes
  <2>4. t \in ListOf(ItemT)
    BY <2>1, <2>3, ListConverted
  <2>5. QED
    BY <2>4 DEF t
<1>2. ASSUME NEW s \in ListOf(ItemT)
      PROVE  MapSeq(s, ItemToV1) \in ListOf(ItemV1T)
  <2> DEFINE t == MapSeq(s, ItemToV1)
  <2>1. s = Nil => t = Nil
    BY DEF MapSeq
  <2>2. s # Nil => t = [i \in DOMAIN s |-> ItemToV1(s[i])]
    BY DEF MapSeq
  <2> HIDE DEF t
  <2>3. s # Nil => /\ t = [i \in DOMAIN s |-> t[i]]
                   /\ \A i \in DOMAIN s : s[i] \in ItemT => t[i] \in ItemV1T
    BY <2>2, ItemTypes
  <2>4. t \in ListOf(ItemV1T)
    BY <2>1, <2>3, ListConverted
  <2>5. QED
    BY <2>4 DEF t
<1>3. QED
  BY <1>1, <1>2


LEMMA NetworkDataTypes ==
    /\ \A d \in Ptr(NetworkDataV1T) : NetworkDataToV2(d) \in Ptr(NetworkDataT)
    /\ \A d \in Ptr(NetworkDataT) : NetworkDataToV1(d) \in Ptr(NetworkDataV1T)
<1>1. NetworkDataToV2(Nil) = Nil /\ NetworkDataToV1(Nil) = Nil
  BY DEF NetworkDataToV1, NetworkDataToV2
<1>2. \A T : \A s \in ListOf(T) : NonEmpty(s) \in ListOf(T)
  BY DEF NonEmpty, ListOf, Ptr
<1>3. ASSUME NEW d \in NetworkDataV1T, d # Nil
      PROVE  NetworkDataToV2(d) \in NetworkDataT
  <2> DEFINE a == NonEmpty(MapSeq(d.links, LinkToV2))
             b == NonEmpty(MapSeq(d.networks, NetworkToV2))
             c == IF d.services = NoServiceV1 THEN Nil ELSE ServiceToV2(d.services)
  <2>1. /\ d.links \in ListOf(LinkV1T) /\ d.networks \in ListOf(NetworkV1T)
        /\ d.services \in ServiceV1T
    BY DEF NetworkDataV1T
  <2>2. a \in ListOf(LinkT) /\ b \in ListOf(NetworkT) /\ c \in Ptr(ServiceT)
    BY <1>2, <2>1, LinkListTypes, NetworkListTypes, ServicePtrTypes
  <2>3. NetworkDataToV2(d) = [links |-> a, networks |-> b, services |-> c]
    BY <1>3, Zenon DEF NetworkDataToV2
  <2> HIDE DEF a, b, c
  <2>4. QED
    BY <2>2, <2>3 DEF NetworkDataT
<1>4. ASSUME NEW d \in NetworkDataT, d # Nil
      PROVE  NetworkDataToV1(d) \in NetworkDataV1T
  <2> DEFINE a == MapSeq(d.links, LinkToV1)
             b == MapSeq(d.networks, NetworkToV1)
             c == IF d.services = Nil THEN NoServiceV1 ELSE ServiceToV1(d.services)
  <2>1. /\ d.links \in ListOf(LinkT) /\ d.networks \in ListOf(NetworkT)
        /\ d.services \in Ptr(ServiceT)
    BY DEF NetworkDataT
  <2>2. a \in ListOf(LinkV1T) /\ b \in ListOf(NetworkV1T) /\ c \in ServiceV1T
    BY <2>1, LinkListTypes, NetworkListTypes, ServicePtrTypes
  <2>3. NetworkDataToV1(d) = [links |-> a, networks |-> b, services |-> c]
    BY <1>4, Zenon DEF NetworkDataToV1
  <2> HIDE DEF a, b, c
  <2>4. QED
    BY <2>2, <2>3 DEF NetworkDataV1T
<1>5. QED
  BY <1>1, <1>3, <1>4 DEF Ptr

\* metaData and networkData come back as they were because the webhook refuses
\* the update otherwise.
LEMMA DataTemplateLawful ==
    Lawful("Metal3DataTemplate") /\ StatusLawful("Metal3DataTemplate")
<1> DEFINE k == "Metal3DataTemplate"
           V1 == [meta : MetaDataV1T, net : Ptr(NetworkDataV1T),
                  label : Strings, status : IndexesV1T]
<1> SUFFICES Lawful(k) /\ StatusLawful(k)
  OBVIOUS
<1>1. /\ Object(k) = DataTemplateT /\ ObjectV1(k) = V1 /\ StatusT(k) = IndexesT
      /\ \A o : ConvertFrom(k, o) = DataTemplateConvertFrom(o) /\ Default(k, o) = o
      /\ \A o, hub : ConvertTo(k, o, hub) = DataTemplateConvertTo(o, hub)
      /\ \A o : V1Meaning(k, o) = o.label
      /\ \A o, hub : WithoutLostChecksum(k, o, hub) = o
      /\ \A o : SpecMeaning(k, o) = [meta |-> o.meta, net |-> o.net,
                                     label |-> o.label]
      /\ \A s : StatusMeaning(k, s) = ToSet(Elements(s.indexes))
      /\ \A o : Admitted(k, o) <=> DataTemplateValidateCreate(o)
      /\ \A o, n : ValidateUpdate(k, o, n) <=> n.meta = o.meta /\ n.net = o.net
  BY DEF Object, ObjectV1, StatusT, ConvertFrom, ConvertTo, Default, V1Meaning,
         SpecMeaning, StatusMeaning, Admitted, ValidateCreate, ValidateUpdate,
         DataTemplateValidateUpdate, WithoutLostChecksum
<1>2. ASSUME NEW o \in DataTemplateT
      PROVE  /\ DataTemplateConvertFrom(o) \in V1
             /\ DataTemplateConvertFrom(o).status \in IndexesV1T
             /\ DataTemplateConvertFrom(o).label = o.label
             /\ o.status \in IndexesT
  <2>1. /\ o.meta \in ListOf(ItemT) /\ o.net \in Ptr(NetworkDataT)
        /\ o.label \in Strings /\ o.status \in IndexesT
        /\ o.status.indexes \in NamedListOf(EntryT)
    BY DEF DataTemplateT, MetaDataT, ItemT, IndexesT
  <2>2. /\ MetaDataToV1(o.meta) \in MetaDataV1T
        /\ NetworkDataToV1(o.net) \in Ptr(NetworkDataV1T)
        /\ IndexesToV1(o.status.indexes) \in Ptr(MapOf(Index32))
    BY <2>1, ItemListTypes, NetworkDataTypes, IndexesBack
       DEF MetaDataToV1, MetaDataV1T, ItemV1T
  <2>3. [indexes |-> IndexesToV1(o.status.indexes)] \in IndexesV1T
    BY <2>2 DEF IndexesV1T
  <2>4. QED
    BY <2>1, <2>2, <2>3 DEF DataTemplateConvertFrom
<1>3. ASSUME NEW v \in V1, NEW hub
      PROVE  /\ DataTemplateConvertTo(v, hub) \in DataTemplateT
             /\ DataTemplateConvertTo(v, hub).label = v.label
             /\ DataTemplateConvertTo(v, hub).status
                    = [indexes |-> IndexesToV2(v.status.indexes)]
  <2>1. /\ v.meta \in ListOf(ItemV1T) /\ v.net \in Ptr(NetworkDataV1T)
        /\ v.label \in Strings /\ v.status.indexes \in Ptr(MapOf(Index32))
    BY DEF MetaDataV1T, ItemV1T, IndexesV1T
  <2>2. /\ MetaDataToV2(v.meta) \in MetaDataT
        /\ NetworkDataToV2(v.net) \in Ptr(NetworkDataT)
        /\ IndexesToV2(v.status.indexes) \in NamedListOf(EntryT)
    BY <2>1, ItemListTypes, NetworkDataTypes, IndexesThere
       DEF MetaDataToV2, MetaDataT, ItemT
  <2>3. [indexes |-> IndexesToV2(v.status.indexes)] \in IndexesT
    BY <2>2 DEF IndexesT
  <2>4. QED
    BY <2>1, <2>2, <2>3 DEF DataTemplateConvertTo, DataTemplateT
<1>4. ASSUME NEW o \in DataTemplateT, NEW s \in IndexesT
      PROVE  LET n == [o EXCEPT !.status = s] IN
             /\ n \in DataTemplateT
             /\ DataTemplateValidateCreate(o) => DataTemplateValidateCreate(n)
  <2>1. LET n == [o EXCEPT !.status = s] IN
        n \in DataTemplateT /\ n.meta = o.meta /\ n.net = o.net
    BY DEF DataTemplateT
  <2> DEFINE n == [o EXCEPT !.status = s]
  <2>2. n \in DataTemplateT /\ n.meta = o.meta /\ n.net = o.net
    BY <2>1
  <2> HIDE DEF n
  <2>3. DataTemplateValidateCreate(o) => DataTemplateValidateCreate(n)
    BY <2>2, Zenon DEF DataTemplateValidateCreate
  <2>4. QED
    BY <2>2, <2>3 DEF n
<1>5. \A v \in V1, s \in IndexesV1T :
        LET n == [v EXCEPT !.status = s] IN n \in V1 /\ n.status = s
  OBVIOUS
<1>6. ASSUME NEW v \in V1, NEW hub, NEW old \in DataTemplateT,
             v.status = DataTemplateConvertFrom(old).status
      PROVE  ToSet(Elements(DataTemplateConvertTo(v, hub).status.indexes))
                 = ToSet(Elements(old.status.indexes))
  <2>1. v.status.indexes = IndexesToV1(old.status.indexes)
    BY <1>6 DEF DataTemplateConvertFrom
  <2>2. DataTemplateConvertTo(v, hub).status.indexes
          = IndexesToV2(IndexesToV1(old.status.indexes))
    <3>1. DataTemplateConvertTo(v, hub).status
            = [indexes |-> IndexesToV2(v.status.indexes)]
      BY <1>3
    <3>2. DataTemplateConvertTo(v, hub).status.indexes = IndexesToV2(v.status.indexes)
      BY <3>1
    <3>3. QED
      BY <2>1, <3>2
  <2>3. old.status.indexes \in NamedListOf(EntryT)
    BY <1>6 DEF DataTemplateT, IndexesT
  <2>4. QED
    BY <2>2, <2>3, IndexesBack
<1> HIDE DEF k, V1
<1>7. Lawful(k)
  <2>1. \A o \in Object(k) : /\ ConvertFrom(k, o) \in ObjectV1(k)
                             /\ Default(k, o) \in Object(k)
                             /\ Default(k, Default(k, o)) = Default(k, o)
    BY <1>1, <1>2
  <2>2. \A v \in ObjectV1(k), hub \in Object(k) \cup {Nil} :
          ConvertTo(k, v, hub) \in Object(k)
    BY <1>1, <1>3
  <2>3. ASSUME NEW v \in ObjectV1(k), NEW hub
        PROVE  V1Meaning(k, ConvertFrom(k, Default(k, ConvertTo(k, v, hub))))
                   = V1Meaning(k, WithoutLostChecksum(k, v, hub))
    <3> DEFINE n == DataTemplateConvertTo(v, hub)
    <3>1. n \in DataTemplateT /\ n.label = v.label
      BY <1>1, <1>3, <2>3
    <3>2. ConvertFrom(k, Default(k, ConvertTo(k, v, hub))) = DataTemplateConvertFrom(n)
      BY <1>1
    <3> HIDE DEF n
    <3>3. DataTemplateConvertFrom(n).label = v.label
      BY <1>2, <3>1
    <3>4. QED
      BY <1>1, <3>2, <3>3
  <2>4. ASSUME NEW o \in Object(k)
        PROVE  LET n == Default(k, ConvertTo(k, ConvertFrom(k, o), o)) IN
               ValidateUpdate(k, o, n) => SpecMeaning(k, n) = SpecMeaning(k, o)
    <3> DEFINE v == DataTemplateConvertFrom(o)
               n == DataTemplateConvertTo(v, o)
    <3>1. v \in V1 /\ v.label = o.label
      BY <1>1, <1>2, <2>4
    <3> HIDE DEF v
    <3>2. n.label = o.label
      BY <1>3, <3>1
    <3>3. Default(k, ConvertTo(k, ConvertFrom(k, o), o)) = n
      BY <1>1 DEF v
    <3> HIDE DEF n
    <3>4. ValidateUpdate(k, o, n) => SpecMeaning(k, n) = SpecMeaning(k, o)
      BY <1>1, <3>2
    <3>5. QED
      BY <3>3, <3>4
  <2>5. QED
    BY <2>1, <2>2, <2>3, <2>4 DEF Lawful
<1>8. StatusLawful(k)
  <2>1. \A o \in Object(k) : o.status \in StatusT(k)
    BY <1>1, <1>2
  <2>2. \A o \in Object(k), s \in StatusT(k) :
          LET n == [o EXCEPT !.status = s] IN
          /\ n \in Object(k)
          /\ Admitted(k, o) => Admitted(k, n)
          /\ Default(k, o) = o => Default(k, n) = n
    BY <1>1, <1>4
  <2>3. \A v \in ObjectV1(k), old \in Object(k) :
          LET n == [v EXCEPT !.status = ConvertFrom(k, old).status] IN
          n \in ObjectV1(k) /\ n.status = ConvertFrom(k, old).status
    <3>1. \A old \in Object(k) : ConvertFrom(k, old).status \in IndexesV1T
      BY <1>1, <1>2
    <3>2. QED
      BY <1>1, <1>5, <3>1, Zenon
  <2>4. ASSUME NEW v \in ObjectV1(k), NEW hub, NEW old \in Object(k),
               v.status = ConvertFrom(k, old).status
        PROVE  StatusMeaning(k, Default(k, ConvertTo(k, v, hub)).status)
                   = StatusMeaning(k, old.status)
    <3>1. Default(k, ConvertTo(k, v, hub)) = DataTemplateConvertTo(v, hub)
      BY <1>1
    <3>2. v \in V1 /\ old \in DataTemplateT
          /\ v.status = DataTemplateConvertFrom(old).status
      BY <1>1, <2>4
    <3>3. QED
      BY <1>1, <1>6, <3>1, <3>2
  <2>5. QED
    BY <2>1, <2>2, <2>3, <2>4 DEF StatusLawful
<1>9. QED
  BY <1>7, <1>8

----------------------------------------------------------------------------

LEMMA KindsAreLawful ==
    ASSUME NEW k \in Kinds
    PROVE  Lawful(k) /\ (k \in HasStatus => StatusLawful(k))
<1>1. k \in {"Metal3Cluster", "Metal3ClusterTemplate", "Metal3Machine",
             "Metal3MachineTemplate", "Metal3Data", "Metal3DataClaim",
             "Metal3DataTemplate", "Metal3Remediation",
             "Metal3RemediationTemplate"}
  BY APIAssumption
<1>2. Lawful(k)
  BY <1>1, ClusterLawful, ClusterTemplateLawful, MachineLawful, TemplateLawful,
     DataLawful, ClaimLawful, DataTemplateLawful, RemediationsLawful, Zenon
<1>3. k \in HasStatus => StatusLawful(k)
  BY ClusterLawful, MachineStatusLawful, DataStatusLawful, DataTemplateLawful,
     Zenon DEF HasStatus
<1>4. QED
  BY <1>2, <1>3

============================================================================
